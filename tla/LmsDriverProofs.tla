-------------------------- MODULE LmsDriverProofs ---------------------------
(***************************************************************************)
(* What one LMS4xxx driver keeps to for every parameter table, with and    *)
(* without NTP: DriverInv, StoppedMeansOff, CleanMeansRecorded and         *)
(* RefusalsFail of module LmsDriver.                                       *)
(*                                                                         *)
(* The invariant has six parts that are proved one after the other: where  *)
(* the owner and the threads are (Places), in which order answers arrive   *)
(* (Ordered), which of them may still come and to which command (Line),    *)
(* what the scanner may still do (Laser), what has been recorded           *)
(* (Recorder), and what became of the refusals that were taken for another *)
(* command's (Refusals).  Order and Line are what makes it inductive: that *)
(* the driver never goes on because of another command's answer rests on   *)
(* what was written on this connection and never answered, and that is     *)
(* nowhere in the driver's own state.                                      *)
(***************************************************************************)
EXTENDS LmsDriver, SequenceTheorems, TLAPS

USE DEF historyVars

----------------------------------------------------------------------------
(* The inductive invariant. *)

(* Strings; the provers do not know that the literals of the model are among
   them. *)
Names == STRING \cup
    {"", "SetAccessMode", "mSCloadappdef", "probe", "LMCstartmeas", "LMCstopmeas", "Run",
     "SCdevicestate", "EMActiveCustomerInfo", "LMDscandata", "telemetry", "stopStream", "cut",
     "scan", "sFA"}
Answers == {"sAN", "sRA", "sWA", "sEA", "sSN", "sFA", "cut", "none"}

InboxItem == [name : Names, answer : Answers, conn : Nat, stale : BOOLEAN]
WireItem == [name : Names, good : BOOLEAN, stale : BOOLEAN, answer : Answers]

LinkType == [conn : Nat, up : BOOLEAN, shut : BOOLEAN, wire : Seq(WireItem)]
DeviceType == [loggedIn : Nat, measuring : BOOLEAN, subscribed : Nat]
MeasurementType == [requested : BOOLEAN, cleanup : BOOLEAN, attempted : BOOLEAN,
                    confirmed : BOOLEAN, error : BOOLEAN]
SlotType == [name : Names, good : BOOLEAN, stale : BOOLEAN]
RecorderStates == {"none", "made", "open", "refusing", "broken", "closed"}
RecorderType == [state : RecorderStates, failed : BOOLEAN, queued : Nat, written : Nat,
                 dropped : Nat]
StatsType == [received : Nat, loss : BOOLEAN, doubt : BOOLEAN]

ReceivePlaces == {"none", "check", "read", "leave", "exit", "joined"}
NtpPlaces == {"none", "sleep", "probe", "hit", "miss", "latch", "exit", "joined"}

(* Where StopScanning and StopRecorder return to. *)
StopReturns == {"configFailed", "initDisconnect", "startFailed", "stopped", "assess"}
RecorderReturns == {"giveUp", "disconnect"}

OwnerTypes ==
    /\ pc \in OwnerPlaces /\ job \in Jobs /\ i \in Nat
    /\ stack = << >> \/ \E p \in StopReturns \cup RecorderReturns : stack = <<p>>
DeviceTypes == link \in LinkType /\ inbox \in Seq(InboxItem) /\ dev \in DeviceType
StopTypes ==
    /\ uncertain \in BOOLEAN /\ streamReq \in BOOLEAN /\ mixed \in BOOLEAN
    /\ misread \subseteq Jobs
    /\ ms \in MeasurementType /\ slot \in SlotType
ThreadTypes ==
    /\ scanning \in BOOLEAN /\ running \in BOOLEAN /\ ntpRunning \in BOOLEAN /\ fault \in BOOLEAN
    /\ rpc \in ReceivePlaces /\ npc \in NtpPlaces /\ misses \in 0 .. MaxFailures
    /\ misses = MaxFailures => npc \in {"latch", "exit", "joined"}
AppTypes ==
    /\ rec \in RecorderType /\ rec.written <= rec.queued /\ stats \in StatsType
    /\ terminate \in BOOLEAN /\ failed \in BOOLEAN /\ armed \in BOOLEAN

Types == OwnerTypes /\ DeviceTypes /\ StopTypes /\ ThreadTypes /\ AppTypes

(* The place of the readiness poll in the configuration. *)
ReadyAt == Len(Identity) + 3 + 3 * Len(Rows) + (IF Ntp THEN 1 ELSE 0) + 3

(* The owner executes commands, or methods through the receive thread. *)
Commanding == {"ask", "reply", "ready"}
Calling == {"method", "writeMethod", "awaitMethod"}
Unwinding == {"rollback", "finalStop", "reconnect", "stopScanning", "stopStream", "streamedStop",
              "method", "writeMethod", "awaitMethod", "clear", "shut", "joinNtp", "joinReceive"}

Sequence ==
    /\ pc \in Commanding => job \in {"configure", "messages", "subscribe", "cleanup"}
                            /\ i \in 1 .. Len(Todo)
    /\ pc = "ready" => job = "configure" /\ i > Len(Identity) + 1 /\ i <= ReadyAt
    /\ pc = "reconnect" => job = "cleanup" /\ i = 1
    /\ pc \in Calling => job = "streamed" /\ i \in {1, 2}
    /\ pc \notin Commanding \cup Calling \cup {"reconnect"} => job = "none" /\ i = 0
    /\ pc \in Unwinding \/ job = "cleanup" => \E p \in StopReturns : stack = <<p>>
    /\ pc = "stopRecorder" => \E p \in RecorderReturns : stack = <<p>>

(* No worker exists, none that anybody has to wait for. *)
Quiet == {"init", "connected", "ask", "reply", "ready", "configured", "initialized",
          "configFailed", "initDisconnect", "rollback", "reconnect", "finalStop",
          "startScanning", "spawn", "startFailed", "giveUp", "stopRecorder", "stopped",
          "disconnect", "assess", "done"}

(* The stream has not been started. *)
Fresh == {"init", "connected", "configured", "initialized", "startScanning", "spawn", "spawnNtp"}

Workers ==
    /\ pc \in Quiet => ~Joinable(rpc) /\ ~Joinable(npc) /\ ~scanning
    /\ pc \in {"spawnNtp", "arm", "loop"} => scanning /\ Joinable(rpc)
    /\ pc \in Calling \cup {"streamedStop"} => Joinable(rpc)
    /\ pc = "stopStream" => scanning \/ Joinable(rpc) \/ Joinable(npc)
    /\ pc \in {"shut", "joinNtp", "joinReceive"} => ~scanning
    /\ pc = "joinReceive" => ~Joinable(npc)
    /\ scanning \/ Joinable(rpc) \/ Joinable(npc) => streamReq
    /\ pc = "spawn" \/ (pc = "reply" /\ job = "subscribe") => streamReq
    /\ armed => pc = "loop"
    /\ pc \in Fresh \/ job \in {"configure", "messages", "subscribe"} => npc = "none" /\ misses = 0

(* The stop of the measurement is attempted once, and is settled wherever the
   owner goes on. *)
Trying == pc = "reconnect" \/ job = "cleanup" \/ pc \in Calling
Untouched == {"init", "connected", "configured", "initialized", "startScanning", "spawn",
              "spawnNtp", "arm", "loop"}
Settled == {"configFailed", "initDisconnect", "startFailed", "giveUp", "stopRecorder", "stopped",
            "disconnect", "assess", "done"}

Measurement ==
    /\ ms.cleanup => ms.requested
    /\ ms.attempted \/ ms.confirmed \/ ms.error => ms.cleanup
    /\ Trying => ms.cleanup /\ ~ms.confirmed /\ ~ms.error
    /\ pc \in Calling /\ i = 2 => ms.attempted
    /\ ~Trying => (ms.cleanup => ms.confirmed \/ ms.error)
    /\ pc \in Untouched \/ job \in {"configure", "messages", "subscribe"} => ~ms.cleanup
    /\ pc \in Settled => (ms.requested => ms.cleanup)
    /\ pc = "init" => ~ms.requested
    /\ pc = "done" /\ ~failed => ~ms.error

(* At most one connection after the first. *)
Connections ==
    /\ link.conn <= 2 /\ (link.conn = 2 => ms.cleanup /\ pc # "reconnect")
    /\ pc = "init" => link.conn = 0
    /\ dev.loggedIn <= link.conn
    /\ \A k \in 1 .. Len(inbox) : inbox[k].conn <= link.conn

Places == Sequence /\ Workers /\ Measurement /\ Connections

(* Only the last command written is not stale, and nothing but scans follows
   its answer. *)
Ordered ==
    /\ \A k \in 1 .. Len(inbox) : k < Len(inbox) => inbox[k].stale
    /\ \A k \in 1 .. Len(inbox) : inbox[k].answer \notin {"sSN", "sFA", "cut"}
    /\ \A j \in 1 .. Len(link.wire), k \in 1 .. Len(inbox) :
          inbox[k].conn = link.conn => link.wire[j].stale \/ link.wire[j].answer = "sSN"
    /\ \A j, k \in 1 .. Len(link.wire) :
          j < k => \/ link.wire[j].stale \/ link.wire[j].answer = "sSN"
                   \/ link.wire[k].answer = "sSN"

InIdentity == job = "configure" /\ i <= Len(Identity) + 1
InAudit == job = "configure" /\ i > ReadyAt
InStep ==
    \/ pc \in Commanding /\ job = "configure" /\ i > Len(Identity) + 1 /\ i <= ReadyAt
    \/ pc \in Commanding /\ job \in {"messages", "cleanup"}
    \/ ~uncertain /\ ~streamReq

(* An answer to a read of the table before place n, or one that no command waits
   for. *)
Unread(name, answer, table, n) ==
    \/ answer \in {"sFA", "cut", "sSN"}
    \/ answer = "sRA" /\ \E k \in 1 .. Len(table) : k < n /\ name = table[k]
Aside(answer) == answer \in {"sRA", "sFA", "cut", "sSN"}

(* The receive thread reads, or is about to, and no method has been called. *)
Streaming ==
    \/ pc \in {"spawn", "spawnNtp", "arm", "loop"}
    \/ pc \in {"idle", "stopScanning", "stopStream", "streamedStop"} /\ Joinable(rpc)

(* What the owner may still be answered: `stale` when a later command has been
   written since. *)
Expected(name, answer, stale) ==
    /\ InStep => answer = "sSN" \/ (pc = "reply" /\ ~stale)
    /\ pc = "ask" \/ (pc = "reply" /\ stale) =>
          /\ InIdentity => Unread(name, answer, Identity, i)
          /\ InAudit => Unread(name, answer, Audit, i - ReadyAt)
          /\ job = "subscribe" => Aside(answer)
    /\ pc = "reply" /\ ~stale =>
          answer = "sSN" \/ (name = Todo[i].name /\ answer \in {Todo[i].answer, "sFA"})
    /\ pc \in {"configured", "initialized", "startScanning"} => Aside(answer)
    /\ \/ Streaming
       \/ pc \in {"method", "writeMethod"} /\ i = 1
       \/ pc = "awaitMethod" /\ i = 1 /\ stale
       => answer # "sAN"
    /\ \/ pc \in {"method", "writeMethod"} /\ i = 2
       \/ pc = "awaitMethod" /\ i = 2 /\ stale
       => answer # "sAN" \/ name # "LMCstopmeas"
    /\ pc = "awaitMethod" /\ ~stale => answer = "sSN" \/ name = Method.name

(* What the current connection delivers is expected. *)
Delivers ==
    /\ \A k \in 1 .. Len(link.wire) :
          Expected(link.wire[k].name, link.wire[k].answer, link.wire[k].stale)
    /\ \A k \in 1 .. Len(inbox) :
          inbox[k].conn = link.conn => Expected(inbox[k].name, inbox[k].answer, inbox[k].stale)

(* The slot holds the answer to the last method, if any. *)
SlotIsFresh ==
    pc \in {"writeMethod", "awaitMethod"} /\ slot.name = Method.name
        => pc = "awaitMethod" /\ ~slot.stale

Line ==
    /\ Delivers /\ SlotIsFresh /\ ~mixed
    /\ pc \in {"init", "connected"} => ~uncertain /\ ~streamReq

(* Laser and motor are off, and no start is under way. *)
Off == ~dev.measuring /\ \A k \in 1 .. Len(inbox) : inbox[k].name # "LMCstartmeas"

(* Stops that are under way, or answered. *)
Stops ==
    /\ \A k \in 1 .. Len(link.wire) :
          link.wire[k].name = "LMCstopmeas" => ms.attempted /\ (link.wire[k].good => Off)
    /\ \A k \in 1 .. Len(inbox) : inbox[k].name = "LMCstopmeas" => ms.attempted
    /\ \A j, k \in 1 .. Len(inbox) :
          j < k /\ inbox[j].name = "LMCstopmeas" => inbox[k].name # "LMCstartmeas"

Laser ==
    /\ ~ms.requested \/ ms.confirmed => Off
    /\ slot.name = "LMCstopmeas" => ms.attempted /\ (slot.good => Off)
    /\ Stops

Recorder ==
    /\ pc = "init" => rec.queued = 0 /\ stats.received = 0 /\ ~stats.loss /\ ~fault
    /\ pc = "done" /\ ~failed => /\ rec.written = rec.queued /\ rec.queued = stats.received
                                 /\ ~stats.loss /\ ~fault

(* A sequence has failed, and the owner is on its way to say so. *)
Reporting == {"configFailed", "startFailed", "giveUp"}
WillFail ==
    \/ pc \in Reporting
    \/ /\ pc \in Unwinding \cup {"stopRecorder"} \/ job = "cleanup"
       /\ \E p \in Reporting : stack = <<p>>

(* What became of the refusals that were taken for a later command's. *)
Refusals ==
    /\ misread \subseteq {"configure", "subscribe", "streamed"}
    /\ "streamed" \in misread => ms.error /\ ~ms.confirmed
    /\ misread # {} => failed \/ ms.error \/ WillFail

IInv == Types /\ Places /\ Ordered /\ Line /\ Laser /\ Recorder /\ Refusals

----------------------------------------------------------------------------
(* The commands of a configuration. *)

CommandType == [name : Names, answer : Answers, tolerates : {"nothing", "sFA", "all"},
                checks : BOOLEAN]

(* A command is the record of its four parts. *)
LEMMA CommandFields ==
    ASSUME NEW n, NEW a, NEW t, NEW c
    PROVE  /\ Command(n, a, t, c).name = n /\ Command(n, a, t, c).answer = a
           /\ Command(n, a, t, c).tolerates = t /\ Command(n, a, t, c).checks = c
           /\ n \in Names /\ a \in Answers /\ t \in {"nothing", "sFA", "all"} /\ c \in BOOLEAN
              => Command(n, a, t, c) \in CommandType
  BY DEF Command, CommandType

(* ReadIdentity and ReadAudit read one variable after the other. *)
LEMMA ReadAllReads ==
    ASSUME NEW names \in Seq(STRING)
    PROVE  /\ ReadAll(names) \in Seq(CommandType) /\ Len(ReadAll(names)) = Len(names)
           /\ \A k \in 1 .. Len(names) : ReadAll(names)[k] = Command(names[k], "sRA", "all", FALSE)
  <1>1. Len(names) \in Nat /\ \A k \in 1 .. Len(names) : names[k] \in STRING
    BY LenProperties, ElementOfSeq
  <1>2. \A k \in 1 .. Len(names) : Command(names[k], "sRA", "all", FALSE) \in CommandType
    BY <1>1 DEF Command, CommandType, Names, Answers
  <1> DEFINE c(k) == Command(names[k], "sRA", "all", FALSE)
  <1>3. ReadAll(names) = [k \in 1 .. Len(names) |-> c(k)]
    BY DEF ReadAll
  <1>4. \A k \in 1 .. Len(names) : c(k) \in CommandType
    BY <1>2
  <1> HIDE DEF c
  <1>5. /\ ReadAll(names) \in Seq(CommandType) /\ Len(ReadAll(names)) = Len(names)
        /\ \A k \in 1 .. Len(names) : ReadAll(names)[k] = c(k)
    BY <1>1, <1>3, <1>4
  <1> QED BY <1>5 DEF c

(* The row that the k-th command of ApplyParameters is about. *)
RowOf(k) == ((k - 1) \div 3) + 1

(* Every command of ApplyParameters is one of the three about a row of the
   table, and no failure but sFA is survived. *)
LEMMA ParametersApplied ==
    /\ ApplyParameters \in Seq(CommandType) /\ Len(ApplyParameters) = 3 * Len(Rows)
    /\ \A k \in 1 .. 3 * Len(Rows) :
          /\ RowOf(k) \in 1 .. Len(Rows) /\ ApplyParameters[k].name = Rows[RowOf(k)].name
          /\ ApplyParameters[k].answer \in {"sRA", "sWA"}
          /\ ApplyParameters[k].tolerates \in {"nothing", "sFA"}
  <1> DEFINE row(k) == Rows[RowOf(k)]
             triple(k) == <<Command(row(k).name, "sRA", "sFA", FALSE),
                            Command(row(k).name, "sWA", "nothing", FALSE),
                            Command(row(k).name, "sRA", IF row(k).strict THEN "nothing" ELSE "sFA",
                                    TRUE)>>
             at(k) == triple(k)[((k - 1) % 3) + 1]
  <1>1. Len(Rows) \in Nat /\ \A k \in 1 .. Len(Rows) : Rows[k] \in [name : STRING, strict : BOOLEAN]
    BY TablesAssumption, LenProperties, ElementOfSeq
  <1>2. ASSUME NEW k \in 1 .. 3 * Len(Rows)
        PROVE  RowOf(k) \in 1 .. Len(Rows) /\ ((k - 1) % 3) + 1 \in {1, 2, 3}
    BY <1>1, Z3 DEF RowOf
  <1>3. ASSUME NEW k \in 1 .. 3 * Len(Rows)
        PROVE  /\ at(k) \in CommandType /\ at(k).name = row(k).name
               /\ at(k).answer \in {"sRA", "sWA"} /\ at(k).tolerates \in {"nothing", "sFA"}
    <2>1. row(k).name \in STRING /\ row(k).strict \in BOOLEAN
      BY <1>1, <1>2
    <2>2. at(k) = triple(k)[1] \/ at(k) = triple(k)[2] \/ at(k) = triple(k)[3]
      BY <1>2
    <2>3. (IF row(k).strict THEN "nothing" ELSE "sFA") \in {"nothing", "sFA"}
      OBVIOUS
    <2> HIDE DEF row, at
    <2> DEFINE good(q) == /\ q \in CommandType /\ q.name = row(k).name
                          /\ q.answer \in {"sRA", "sWA"} /\ q.tolerates \in {"nothing", "sFA"}
    <2>4. \A n \in STRING, t \in {"nothing", "sFA"}, a \in {"sRA", "sWA"}, c \in BOOLEAN :
             n = row(k).name => good(Command(n, a, t, c))
      <3> TAKE n \in STRING, t \in {"nothing", "sFA"}, a \in {"sRA", "sWA"}, c \in BOOLEAN
      <3>1. n \in Names /\ a \in Answers /\ t \in {"nothing", "sFA", "all"}
        BY DEF Names, Answers
      <3> QED BY <3>1, CommandFields
    <2> HIDE DEF good
    <2>5. good(triple(k)[1]) /\ good(triple(k)[2]) /\ good(triple(k)[3])
      BY <2>1, <2>3, <2>4
    <2>6. good(at(k))
      BY <2>2, <2>5
    <2> QED BY <2>6 DEF good
  <1>4. ApplyParameters = [k \in 1 .. 3 * Len(Rows) |-> at(k)]
    BY DEF ApplyParameters, RowOf
  <1> HIDE DEF at
  <1>5. 3 * Len(Rows) \in Nat
    BY <1>1
  <1> QED BY <1>2, <1>3, <1>4, <1>5 DEF row

(* What is found where in two sequences put together. *)
LEMMA Joined ==
    ASSUME NEW S, NEW s \in Seq(S), NEW t \in Seq(S)
    PROVE  /\ s \o t \in Seq(S) /\ Len(s \o t) = Len(s) + Len(t)
           /\ Len(s) \in Nat /\ Len(t) \in Nat
           /\ \A k \in 1 .. Len(s) : (s \o t)[k] = s[k]
           /\ \A k \in Len(s) + 1 .. Len(s) + Len(t) :
                 k - Len(s) \in 1 .. Len(t) /\ (s \o t)[k] = t[k - Len(s)]
  <1>1. Len(s) \in Nat /\ Len(t) \in Nat
    BY LenProperties
  <1>2. /\ s \o t \in Seq(S) /\ Len(s \o t) = Len(s) + Len(t)
        /\ \A k \in 1 .. Len(s) + Len(t) :
              (s \o t)[k] = IF k <= Len(s) THEN s[k] ELSE t[k - Len(s)]
    BY ConcatProperties
  <1> QED BY <1>1, <1>2

(* The elements of a sequence of three, and of one. *)
LEMMA Three ==
    ASSUME NEW S, NEW a \in S, NEW b \in S, NEW c \in S
    PROVE  /\ <<a, b, c>> \in Seq(S) /\ Len(<<a, b, c>>) = 3
           /\ <<a, b, c>>[1] = a /\ <<a, b, c>>[2] = b /\ <<a, b, c>>[3] = c
           /\ \A k \in 1 .. 3 : k = 1 \/ k = 2 \/ k = 3
           /\ <<a>> \in Seq(S) /\ Len(<<a>>) = 1 /\ <<a>>[1] = a /\ \A k \in 1 .. 1 : k = 1
  OBVIOUS

(* A command of the configuration whose failure, unless sFA, ends it. *)
Step(c) ==
    /\ c \in CommandType /\ c.tolerates \in {"nothing", "sFA"}
    /\ c.answer \in {"sAN", "sRA", "sWA", "none"} /\ c.name # "LMCstopmeas"

(* The configuration reads the identity, changes the scanner up to the readiness
   poll, and reads the audit. *)
LEMMA ConfigurationSays ==
    /\ Len(Identity) \in Nat /\ Len(Audit) \in Nat /\ ReadyAt \in Nat /\ Len(Identity) + 6 <= ReadyAt
    /\ Configuration \in Seq(CommandType) /\ Len(Configuration) = ReadyAt + Len(Audit)
    /\ \A k \in 1 .. Len(Identity) : Configuration[k] = Command(Identity[k], "sRA", "all", FALSE)
    /\ Configuration[Len(Identity) + 1] = Login
    /\ \A k \in Len(Identity) + 1 .. ReadyAt : Step(Configuration[k])
    /\ \A k \in ReadyAt + 1 .. Len(Configuration) :
          k - ReadyAt \in 1 .. Len(Audit)
          /\ Configuration[k] = Command(Audit[k - ReadyAt], "sRA", "all", FALSE)
  <1> DEFINE A == ReadAll(Identity)
             L == <<Login, Command("mSCloadappdef", "sAN", "nothing", FALSE), Login>>
             P == ApplyParameters
             N == IF Ntp THEN <<Command("probe", "none", "nothing", FALSE)>> ELSE << >>
             S == <<Command("LMCstartmeas", "sAN", "nothing", TRUE),
                    Command("Run", "sAN", "nothing", TRUE),
                    Command("SCdevicestate", "sRA", "nothing", TRUE)>>
             Z == ReadAll(Audit)
             AL == A \o L
             ALP == AL \o P
             ALPN == ALP \o N
             ALPNS == ALPN \o S
  <1>1. Identity \in Seq(STRING) /\ Audit \in Seq(STRING) /\ Len(Rows) \in Nat
        /\ Len(Identity) \in Nat /\ Len(Audit) \in Nat
    BY TablesAssumption, LenProperties
  <1>2. /\ A \in Seq(CommandType) /\ Len(A) = Len(Identity)
        /\ \A k \in 1 .. Len(Identity) : A[k] = Command(Identity[k], "sRA", "all", FALSE)
    BY <1>1, ReadAllReads
  <1>3. /\ Z \in Seq(CommandType) /\ Len(Z) = Len(Audit)
        /\ \A k \in 1 .. Len(Audit) : Z[k] = Command(Audit[k], "sRA", "all", FALSE)
    BY <1>1, ReadAllReads
  <1>4. /\ P \in Seq(CommandType) /\ Len(P) = 3 * Len(Rows)
        /\ \A k \in 1 .. 3 * Len(Rows) : Step(P[k])
    <2>1. \A k \in 1 .. 3 * Len(Rows) : P[k] \in CommandType
      BY ParametersApplied, ElementOfSeq, <1>1
    <2>2. \A k \in 1 .. Len(Rows) : Rows[k].name # "LMCstopmeas"
      BY NamesAssumption
    <2> QED BY <2>1, <2>2, ParametersApplied DEF Step
  <1>5. \A n \in {"SetAccessMode", "mSCloadappdef", "probe", "LMCstartmeas", "Run", "SCdevicestate"},
           a \in {"sAN", "sRA", "none"}, b \in BOOLEAN : Step(Command(n, a, "nothing", b))
    <2> TAKE n \in {"SetAccessMode", "mSCloadappdef", "probe", "LMCstartmeas", "Run", "SCdevicestate"},
             a \in {"sAN", "sRA", "none"}, b \in BOOLEAN
    <2>1. n \in Names /\ a \in Answers /\ n # "LMCstopmeas"
      BY DEF Names, Answers
    <2> QED BY <2>1, CommandFields DEF Step
  <1>6. L \in Seq(CommandType) /\ Len(L) = 3 /\ L[1] = Login /\ \A k \in 1 .. 3 : Step(L[k])
    <2>1. Step(L[1]) /\ Step(L[2]) /\ Step(L[3])
      BY <1>5 DEF Login
    <2>2. L[1] \in CommandType /\ L[2] \in CommandType /\ L[3] \in CommandType
      BY <2>1 DEF Step
    <2> QED BY <2>1, <2>2, Three
  <1>7. S \in Seq(CommandType) /\ Len(S) = 3 /\ \A k \in 1 .. 3 : Step(S[k])
    <2>1. Step(S[1]) /\ Step(S[2]) /\ Step(S[3])
      BY <1>5
    <2>2. S[1] \in CommandType /\ S[2] \in CommandType /\ S[3] \in CommandType
      BY <2>1 DEF Step
    <2> QED BY <2>1, <2>2, Three
  <1>8. N \in Seq(CommandType) /\ Len(N) = (IF Ntp THEN 1 ELSE 0) /\ \A k \in 1 .. Len(N) : Step(N[k])
    <2>1. Step(Command("probe", "none", "nothing", FALSE))
      BY <1>5
    <2>2. Command("probe", "none", "nothing", FALSE) \in CommandType
      BY <2>1 DEF Step
    <2>3. CASE Ntp = TRUE
      <3> DEFINE c == Command("probe", "none", "nothing", FALSE)
      <3>1. N = <<c>>
        BY <2>3
      <3> HIDE DEF N, c
      <3>2. N \in Seq(CommandType) /\ Len(N) = 1 /\ N[1] = c
        BY <3>1, <2>2, Three DEF c
      <3>3. \A k \in 1 .. 1 : k = 1
        OBVIOUS
      <3> QED BY <2>1, <2>3, <3>2, <3>3 DEF c
    <2>4. CASE Ntp = FALSE
      <3>1. N = << >>
        BY <2>4
      <3> HIDE DEF N
      <3> QED BY <2>4, <3>1
    <2> QED BY <2>3, <2>4, NtpAssumption
  <1>9. Configuration = ALPNS \o Z
    BY DEF Configuration
  <1>10. Login = L[1]
    OBVIOUS
  <1> HIDE DEF A, L, P, N, S, Z
  <1>11. /\ AL \in Seq(CommandType) /\ Len(AL) = Len(Identity) + 3
         /\ \A k \in 1 .. Len(Identity) : AL[k] = A[k]
         /\ AL[Len(Identity) + 1] = L[1]
         /\ \A k \in Len(Identity) + 1 .. Len(AL) : Step(AL[k])
    <2>1. /\ AL \in Seq(CommandType) /\ Len(AL) = Len(A) + Len(L)
          /\ \A k \in 1 .. Len(A) : AL[k] = A[k]
          /\ \A k \in Len(A) + 1 .. Len(A) + Len(L) : k - Len(A) \in 1 .. Len(L) /\ AL[k] = L[k - Len(A)]
      <3>1. A \in Seq(CommandType) /\ L \in Seq(CommandType)
        BY <1>2, <1>6
      <3> QED BY <3>1, Joined
    <2> HIDE DEF AL
    <2>2. Len(Identity) + 1 \in Len(A) + 1 .. Len(A) + Len(L) /\ (Len(Identity) + 1) - Len(A) = 1
      BY <1>1, <1>2, <1>6
    <2> QED BY <1>1, <1>2, <1>6, <2>1, <2>2
  <1> HIDE DEF AL
  <1>12. /\ ALP \in Seq(CommandType) /\ Len(ALP) = Len(AL) + 3 * Len(Rows)
         /\ \A k \in 1 .. Len(AL) : ALP[k] = AL[k]
         /\ \A k \in Len(AL) + 1 .. Len(ALP) : Step(ALP[k])
    <2>1. /\ ALP \in Seq(CommandType) /\ Len(ALP) = Len(AL) + Len(P)
          /\ \A k \in 1 .. Len(AL) : ALP[k] = AL[k]
          /\ \A k \in Len(AL) + 1 .. Len(AL) + Len(P) : k - Len(AL) \in 1 .. Len(P) /\ ALP[k] = P[k - Len(AL)]
      BY <1>4, <1>11, Joined
    <2> HIDE DEF ALP
    <2> QED BY <1>1, <1>4, <2>1
  <1> HIDE DEF ALP
  <1>13. /\ ALPN \in Seq(CommandType) /\ Len(ALPN) = Len(ALP) + (IF Ntp THEN 1 ELSE 0)
         /\ \A k \in 1 .. Len(ALP) : ALPN[k] = ALP[k]
         /\ \A k \in Len(ALP) + 1 .. Len(ALPN) : Step(ALPN[k])
    <2>1. /\ ALPN \in Seq(CommandType) /\ Len(ALPN) = Len(ALP) + Len(N)
          /\ \A k \in 1 .. Len(ALP) : ALPN[k] = ALP[k]
          /\ \A k \in Len(ALP) + 1 .. Len(ALP) + Len(N) : k - Len(ALP) \in 1 .. Len(N) /\ ALPN[k] = N[k - Len(ALP)]
      BY <1>8, <1>12, Joined
    <2> HIDE DEF ALPN
    <2> QED BY <1>1, <1>8, <2>1
  <1> HIDE DEF ALPN
  <1>14. /\ ALPNS \in Seq(CommandType) /\ Len(ALPNS) = Len(ALPN) + 3
         /\ \A k \in 1 .. Len(ALPN) : ALPNS[k] = ALPN[k]
         /\ \A k \in Len(ALPN) + 1 .. Len(ALPNS) : Step(ALPNS[k])
    <2>1. /\ ALPNS \in Seq(CommandType) /\ Len(ALPNS) = Len(ALPN) + Len(S)
          /\ \A k \in 1 .. Len(ALPN) : ALPNS[k] = ALPN[k]
          /\ \A k \in Len(ALPN) + 1 .. Len(ALPN) + Len(S) : k - Len(ALPN) \in 1 .. Len(S) /\ ALPNS[k] = S[k - Len(ALPN)]
      BY <1>7, <1>13, Joined
    <2> HIDE DEF ALPNS
    <2> QED BY <1>1, <1>7, <2>1
  <1> HIDE DEF ALPNS
  <1>15. /\ ReadyAt \in Nat /\ Len(ALPNS) = ReadyAt /\ Len(Identity) + 6 <= ReadyAt
         /\ Len(AL) <= Len(ALP) /\ Len(ALP) <= Len(ALPN) /\ Len(ALPN) <= Len(ALPNS)
    BY <1>1, <1>11, <1>12, <1>13, <1>14, NtpAssumption DEF ReadyAt
  <1>16. /\ Configuration \in Seq(CommandType) /\ Len(Configuration) = ReadyAt + Len(Audit)
         /\ \A k \in 1 .. ReadyAt : Configuration[k] = ALPNS[k]
         /\ \A k \in ReadyAt + 1 .. Len(Configuration) :
               k - ReadyAt \in 1 .. Len(Audit) /\ Configuration[k] = Z[k - ReadyAt]
    <2>1. /\ ALPNS \o Z \in Seq(CommandType) /\ Len(ALPNS \o Z) = Len(ALPNS) + Len(Z)
          /\ \A k \in 1 .. Len(ALPNS) : (ALPNS \o Z)[k] = ALPNS[k]
          /\ \A k \in Len(ALPNS) + 1 .. Len(ALPNS) + Len(Z) :
                k - Len(ALPNS) \in 1 .. Len(Z) /\ (ALPNS \o Z)[k] = Z[k - Len(ALPNS)]
      <3>1. ALPNS \in Seq(CommandType) /\ Z \in Seq(CommandType)
        BY <1>3, <1>14
      <3> QED BY <3>1, Joined
    <2> QED BY <1>3, <1>9, <1>15, <2>1
  <1>17. \A k \in Len(Identity) + 1 .. ReadyAt : Step(ALPNS[k])
    <2> TAKE k \in Len(Identity) + 1 .. ReadyAt
    <2>1. CASE k <= Len(AL)
      <3>1. ALPNS[k] = AL[k] /\ k \in Len(Identity) + 1 .. Len(AL)
        BY <2>1, <1>1, <1>11, <1>12, <1>13, <1>14, <1>15
      <3> QED BY <3>1, <1>11
    <2>2. CASE k > Len(AL) /\ k <= Len(ALP)
      <3>1. ALPNS[k] = ALP[k] /\ k \in Len(AL) + 1 .. Len(ALP)
        BY <2>2, <1>1, <1>11, <1>12, <1>13, <1>14, <1>15
      <3> QED BY <3>1, <1>12
    <2>3. CASE k > Len(ALP) /\ k <= Len(ALPN)
      <3>1. ALPNS[k] = ALPN[k] /\ k \in Len(ALP) + 1 .. Len(ALPN)
        BY <2>3, <1>1, <1>11, <1>12, <1>13, <1>14, <1>15
      <3> QED BY <3>1, <1>13
    <2>4. CASE k > Len(ALPN)
      <3>1. k \in Len(ALPN) + 1 .. Len(ALPNS)
        BY <2>4, <1>1, <1>11, <1>12, <1>13, <1>14, <1>15
      <3> QED BY <3>1, <1>14
    <2> QED BY <2>1, <2>2, <2>3, <2>4, <1>1, <1>11, <1>12, <1>13, <1>14, <1>15
  <1>18. \A k \in 1 .. Len(Identity) + 1 : ALPNS[k] = AL[k] /\ k <= ReadyAt
    BY <1>1, <1>11, <1>12, <1>13, <1>14, <1>15
  <1>19. \A k \in 1 .. Len(Identity) : Configuration[k] = Command(Identity[k], "sRA", "all", FALSE)
    <2> TAKE k \in 1 .. Len(Identity)
    <2>1. k \in 1 .. Len(Identity) + 1 /\ k \in 1 .. ReadyAt
      BY <1>1, <1>15
    <2>2. Configuration[k] = ALPNS[k] /\ ALPNS[k] = AL[k] /\ AL[k] = A[k]
      BY <2>1, <1>11, <1>16, <1>18
    <2> QED BY <2>2, <1>2
  <1>20. Configuration[Len(Identity) + 1] = Login
    BY <1>1, <1>10, <1>11, <1>16, <1>18
  <1>21. \A k \in Len(Identity) + 1 .. ReadyAt : Step(Configuration[k])
    BY <1>1, <1>15, <1>16, <1>17
  <1>22. \A k \in ReadyAt + 1 .. Len(Configuration) :
          k - ReadyAt \in 1 .. Len(Audit)
          /\ Configuration[k] = Command(Audit[k - ReadyAt], "sRA", "all", FALSE)
    BY <1>3, <1>16
  <1> QED BY <1>1, <1>15, <1>16, <1>19, <1>20, <1>21, <1>22

(* The command sequences of the owner. *)
LEMMA TodoSays ==
    ASSUME job \in Jobs
    PROVE  /\ Todo \in Seq(CommandType)
           /\ job = "configure" => Todo = Configuration
           /\ job = "messages" => /\ Len(Todo) = 1
                                  /\ Todo[1] = Command("EMActiveCustomerInfo", "sRA", "all", FALSE)
           /\ job = "subscribe" => /\ Len(Todo) = 1
                                   /\ Todo[1] = Command("LMDscandata", "sEA", "nothing", TRUE)
           /\ job = "cleanup" => Len(Todo) = 2 /\ Todo[1] = Login /\ Todo[2] = StopMeas
           /\ job \in {"none", "streamed"} => Todo = << >>
  <1>1. \A n \in Names, a \in Answers, t \in {"nothing", "sFA", "all"}, b \in BOOLEAN :
           Command(n, a, t, b) \in CommandType
    BY CommandFields
  <1>2. /\ Login \in CommandType /\ StopMeas \in CommandType
        /\ Command("EMActiveCustomerInfo", "sRA", "all", FALSE) \in CommandType
        /\ Command("LMDscandata", "sEA", "nothing", TRUE) \in CommandType
    <2>1. /\ {"SetAccessMode", "LMCstopmeas", "EMActiveCustomerInfo", "LMDscandata"} \subseteq Names
          /\ {"sAN", "sRA", "sEA"} \subseteq Answers
      BY DEF Names, Answers
    <2> QED BY <1>1, <2>1 DEF Login, StopMeas
  <1> DEFINE m == Command("EMActiveCustomerInfo", "sRA", "all", FALSE)
             s == Command("LMDscandata", "sEA", "nothing", TRUE)
  <1>3. /\ job = "configure" => Todo = Configuration
        /\ job = "messages" => Todo = <<m>>
        /\ job = "subscribe" => Todo = <<s>>
        /\ job = "cleanup" => Todo = <<Login, StopMeas>>
        /\ job \in {"none", "streamed"} => Todo = << >>
    BY DEF Todo
  <1> HIDE DEF m, s
  <1>4. m \in CommandType /\ s \in CommandType
    BY <1>2 DEF m, s
  <1>5. <<m>> \in Seq(CommandType) /\ Len(<<m>>) = 1 /\ <<m>>[1] = m
    BY <1>4
  <1>6. <<s>> \in Seq(CommandType) /\ Len(<<s>>) = 1 /\ <<s>>[1] = s
    BY <1>4
  <1>7. /\ <<Login, StopMeas>> \in Seq(CommandType) /\ Len(<<Login, StopMeas>>) = 2
        /\ <<Login, StopMeas>>[1] = Login /\ <<Login, StopMeas>>[2] = StopMeas
    BY <1>2
  <1>8. << >> \in Seq(CommandType)
    BY EmptySeq
  <1>9. Configuration \in Seq(CommandType)
    BY ConfigurationSays
  <1>10. job \in {"none", "configure", "messages", "subscribe", "cleanup", "streamed"}
    BY DEF Jobs
  <1> QED BY <1>3, <1>5, <1>6, <1>7, <1>8, <1>9, <1>10 DEF m, s

(* A place in the configuration that is read and may fail, and the others. *)
Reading == i <= Len(Identity) \/ i > ReadyAt

(* The command at hand. *)
LEMMA Current ==
    ASSUME Types, Sequence, pc \in Commanding
    PROVE  /\ job \in {"configure", "messages", "subscribe", "cleanup"}
           /\ i \in 1 .. Len(Todo) /\ Len(Todo) \in Nat
           /\ Todo[i] \in CommandType /\ Todo[i].answer \notin {"sSN", "sFA", "cut"}
           /\ job = "messages" => i = 1 /\ Len(Todo) = 1 /\ Todo[i].tolerates = "all"
                                  /\ Todo[i].name = "EMActiveCustomerInfo"
           /\ job = "subscribe" => /\ i = 1 /\ Len(Todo) = 1 /\ Todo[i].tolerates = "nothing"
                                   /\ Todo[i].name = "LMDscandata" /\ Todo[i].answer = "sEA"
           /\ job = "cleanup" =>
                 /\ i \in {1, 2} /\ Len(Todo) = 2 /\ Todo[i].tolerates = "nothing"
                 /\ Todo[i].answer = "sAN" /\ Todo[i].checks = TRUE
                 /\ Todo[i].name = IF i = 1 THEN "SetAccessMode" ELSE "LMCstopmeas"
           /\ job = "configure" =>
                 /\ Len(Todo) = ReadyAt + Len(Audit) /\ Todo[i].name # "LMCstopmeas"
                 /\ i <= Len(Identity) => Todo[i].name = Identity[i]
                 /\ i > ReadyAt => /\ i - ReadyAt \in 1 .. Len(Audit)
                                   /\ Todo[i].name = Audit[i - ReadyAt]
                 /\ Reading => /\ Todo[i].answer = "sRA" /\ Todo[i].tolerates = "all"
                               /\ Todo[i].checks = FALSE
                 /\ ~Reading => Todo[i].tolerates \in {"nothing", "sFA"}
                 /\ i = Len(Identity) + 1 =>
                       Todo[i].name = "SetAccessMode" /\ Todo[i].answer = "sAN"
                       /\ Todo[i].tolerates = "nothing"
  <1>1. /\ job \in {"configure", "messages", "subscribe", "cleanup"} /\ i \in 1 .. Len(Todo)
        /\ job \in Jobs /\ i \in Nat
    BY DEF Types, OwnerTypes, Sequence
  <1>2. Todo \in Seq(CommandType) /\ Len(Todo) \in Nat
    BY <1>1, TodoSays, LenProperties
  <1>3. Todo[i] \in CommandType
    BY <1>1, <1>2, ElementOfSeq
  <1>4. CASE job = "messages"
    <2>1. Len(Todo) = 1 /\ Todo[1] = Command("EMActiveCustomerInfo", "sRA", "all", FALSE)
      BY <1>1, <1>4, TodoSays
    <2>2. i = 1
      BY <1>1, <2>1
    <2>3. /\ Todo[i].name = "EMActiveCustomerInfo" /\ Todo[i].answer = "sRA"
          /\ Todo[i].tolerates = "all"
      BY <2>1, <2>2 DEF Command
    <2> QED BY <1>1, <1>2, <1>3, <1>4, <2>1, <2>2, <2>3
  <1>5. CASE job = "subscribe"
    <2>1. Len(Todo) = 1 /\ Todo[1] = Command("LMDscandata", "sEA", "nothing", TRUE)
      BY <1>1, <1>5, TodoSays
    <2>2. i = 1
      BY <1>1, <2>1
    <2>3. /\ Todo[i].name = "LMDscandata" /\ Todo[i].answer = "sEA" /\ Todo[i].tolerates = "nothing"
      BY <2>1, <2>2 DEF Command
    <2> QED BY <1>1, <1>2, <1>3, <1>5, <2>1, <2>2, <2>3
  <1>6. CASE job = "cleanup"
    <2>1. /\ Len(Todo) = 2 /\ Todo[1] = Command("SetAccessMode", "sAN", "nothing", TRUE)
          /\ Todo[2] = Command("LMCstopmeas", "sAN", "nothing", TRUE)
      BY <1>1, <1>6, TodoSays DEF Login, StopMeas
    <2>2. i = 1 \/ i = 2
      BY <1>1, <2>1
    <2>3. /\ Todo[1].tolerates = "nothing" /\ Todo[1].answer = "sAN" /\ Todo[1].checks = TRUE
          /\ Todo[1].name = "SetAccessMode"
      BY <2>1 DEF Command
    <2>4. /\ Todo[2].tolerates = "nothing" /\ Todo[2].answer = "sAN" /\ Todo[2].checks = TRUE
          /\ Todo[2].name = "LMCstopmeas"
      BY <2>1 DEF Command
    <2> QED BY <1>1, <1>2, <1>3, <1>6, <2>1, <2>2, <2>3, <2>4
  <1>7. CASE job = "configure"
    <2>1. /\ Todo = Configuration /\ Len(Todo) = ReadyAt + Len(Audit) /\ ReadyAt \in Nat
          /\ Len(Identity) \in Nat /\ Len(Audit) \in Nat /\ Len(Identity) + 6 <= ReadyAt
      BY <1>1, <1>7, TodoSays, ConfigurationSays
    <2>2. CASE i <= Len(Identity)
      <3>1. i \in 1 .. Len(Identity)
        BY <1>1, <2>1, <2>2
      <3>2. Todo[i] = Command(Identity[i], "sRA", "all", FALSE) /\ Identity[i] # "LMCstopmeas"
        BY <2>1, <3>1, ConfigurationSays, NamesAssumption
      <3>3. /\ Todo[i].name = Identity[i] /\ Todo[i].answer = "sRA" /\ Todo[i].tolerates = "all"
            /\ Todo[i].checks = FALSE
        BY <3>2 DEF Command
      <3>4. ~(i > ReadyAt) /\ i # Len(Identity) + 1
        BY <1>1, <2>1, <2>2
      <3> QED BY <1>1, <1>2, <1>3, <1>7, <2>1, <2>2, <3>2, <3>3, <3>4 DEF Reading
    <2>3. CASE i > Len(Identity) /\ i <= ReadyAt
      <3>1. i \in Len(Identity) + 1 .. ReadyAt
        BY <1>1, <2>1, <2>3
      <3>2. Step(Todo[i])
        BY <2>1, <3>1, ConfigurationSays
      <3>3. i = Len(Identity) + 1 => /\ Todo[i].name = "SetAccessMode" /\ Todo[i].answer = "sAN"
                                     /\ Todo[i].tolerates = "nothing"
        <4>1. i = Len(Identity) + 1 => Todo[i] = Login
          BY <2>1, ConfigurationSays
        <4> QED BY <4>1 DEF Login, Command
      <3>4. ~(i <= Len(Identity)) /\ ~(i > ReadyAt)
        BY <1>1, <2>1, <2>3
      <3> QED BY <1>1, <1>2, <1>3, <1>7, <2>1, <3>2, <3>3, <3>4 DEF Reading, Step
    <2>4. CASE i > ReadyAt
      <3>1. i \in ReadyAt + 1 .. Len(Configuration)
        BY <1>1, <2>1, <2>4
      <3>2. i - ReadyAt \in 1 .. Len(Audit) /\ Todo[i] = Command(Audit[i - ReadyAt], "sRA", "all", FALSE)
        BY <2>1, <3>1, ConfigurationSays
      <3>3. Audit[i - ReadyAt] # "LMCstopmeas"
        BY <3>2, NamesAssumption
      <3>4. /\ Todo[i].name = Audit[i - ReadyAt] /\ Todo[i].answer = "sRA" /\ Todo[i].tolerates = "all"
            /\ Todo[i].checks = FALSE
        BY <3>2 DEF Command
      <3>5. ~(i <= Len(Identity)) /\ i # Len(Identity) + 1
        BY <1>1, <2>1, <2>4
      <3>6. i - ReadyAt \in 1 .. Len(Audit) /\ Todo[i].name # "LMCstopmeas" /\ Reading
        BY <3>2, <3>3, <3>4, <2>4 DEF Reading
      <3> QED BY <1>1, <1>2, <1>3, <1>7, <2>1, <3>4, <3>5, <3>6
    <2>5. i <= Len(Identity) \/ (i > Len(Identity) /\ i <= ReadyAt) \/ i > ReadyAt
      BY <1>1, <2>1
    <2> QED BY <2>2, <2>3, <2>4, <2>5
  <1> QED BY <1>1, <1>4, <1>5, <1>6, <1>7

----------------------------------------------------------------------------
(* The ways a command sequence goes on after an outcome. *)

Survives(outcome) ==
    \/ outcome = "ok" \/ Todo[i].tolerates = "all"
    \/ Todo[i].tolerates = "sFA" /\ outcome = "sFA"

Ends(place, m) == pc' = place /\ i' = 0 /\ job' = "none" /\ ms' = m

Advances(outcome, m) ==
    /\ Survives(outcome) /\ i < Len(Todo) /\ job \in {"configure", "cleanup"}
    /\ job = "cleanup" => i = 1 /\ outcome = "ok"
    /\ i' = i + 1 /\ pc' = "ask" /\ stack' = stack /\ job' = job /\ ms' = m
Finishes(outcome, m) ==
    Survives(outcome) /\ job = "configure" /\ i = Len(Todo) /\ Ends("configured", m) /\ stack' = stack
Subscribes(outcome, m) ==
    outcome = "ok" /\ job = "subscribe" /\ Ends("spawn", m) /\ stack' = stack
CleansUp(outcome, m) ==
    /\ job = "cleanup" /\ Return
    /\ \/ i = 2 /\ outcome = "ok" /\ ms' = [m EXCEPT !.confirmed = TRUE, !.error = FALSE]
       \/ ms' = [m EXCEPT !.confirmed = FALSE, !.error = TRUE]
Polls(outcome, m) ==
    /\ outcome = "rejected" /\ job = "configure" /\ i > Len(Identity) + 1 /\ i <= ReadyAt
    /\ pc' = "ready" /\ stack' = stack /\ job' = job /\ i' = i /\ ms' = m
RollsBack(m) ==
    job \in {"configure", "messages"} /\ Ends("rollback", m) /\ stack' = <<"configFailed">>
StartFails(m) ==
    job = "subscribe" /\ Ends("stopScanning", m) /\ stack' = <<"startFailed">>

LEMMA AfterCases ==
    ASSUME Types, Sequence, pc \in Commanding, NEW outcome, NEW m, After(outcome, m)
    PROVE  \/ Advances(outcome, m) \/ Finishes(outcome, m) \/ Subscribes(outcome, m)
           \/ CleansUp(outcome, m) \/ Polls(outcome, m) \/ RollsBack(m) \/ StartFails(m)
  <1> DEFINE c == Todo[i]
             survived == \/ outcome = "ok" \/ c.tolerates = "all"
                         \/ c.tolerates = "sFA" /\ outcome = "sFA"
             done == survived /\ i = Len(Todo)
             polled == job = "configure" /\ c.name = "SCdevicestate" /\ c.checks
                       /\ outcome = "rejected"
  <1>1. survived <=> Survives(outcome)
    BY DEF Survives
  <1>2. /\ job \in {"configure", "messages", "subscribe", "cleanup"}
        /\ i \in 1 .. Len(Todo) /\ Len(Todo) \in Nat
        /\ job = "messages" => i = 1 /\ Len(Todo) = 1 /\ c.tolerates = "all"
        /\ job = "subscribe" => i = 1 /\ Len(Todo) = 1 /\ c.tolerates = "nothing"
        /\ job = "cleanup" => i \in {1, 2} /\ Len(Todo) = 2 /\ c.tolerates = "nothing"
    BY Current
  <1>3. \/ /\ survived /\ ~done
           /\ i' = i + 1 /\ pc' = "ask" /\ UNCHANGED <<stack, job>> /\ ms' = m
        \/ /\ done /\ job \in {"configure", "subscribe"}
           /\ pc' = IF job = "configure" THEN "configured" ELSE "spawn"
           /\ i' = 0 /\ job' = "none" /\ UNCHANGED stack /\ ms' = m
        \/ /\ job = "cleanup" /\ (done \/ ~survived)
           /\ ms' = [m EXCEPT !.confirmed = done, !.error = ~done] /\ Return
        \/ /\ polled
           /\ pc' = "ready" /\ UNCHANGED <<stack, job, i>> /\ ms' = m
        \/ /\ job \in {"configure", "messages"} /\ ~polled /\ (~survived \/ job = "messages")
           /\ pc' = "rollback" /\ stack' = <<"configFailed">> /\ i' = 0 /\ job' = "none" /\ ms' = m
        \/ /\ job = "subscribe" /\ ~survived
           /\ pc' = "stopScanning" /\ stack' = <<"startFailed">> /\ i' = 0 /\ job' = "none" /\ ms' = m
    BY DEF After
  <1>4. polled => i > Len(Identity) + 1 /\ i <= ReadyAt
    <2>1. polled => ~Reading /\ i # Len(Identity) + 1
      BY Current
    <2>2. i \in Nat /\ Len(Identity) \in Nat /\ ReadyAt \in Nat
      BY ConfigurationSays DEF Types, OwnerTypes
    <2> QED BY <2>1, <2>2 DEF Reading
  <1>5. ASSUME survived, ~done, i' = i + 1, pc' = "ask", UNCHANGED <<stack, job>>, ms' = m
        PROVE  Advances(outcome, m)
    <2> DEFINE n == Len(Todo)
    <2>3. i # n
      BY <1>5
    <2>4. i \in 1 .. n /\ n \in Nat /\ (job \in {"messages", "subscribe"} => i = 1 /\ n = 1)
      BY <1>2
    <2> HIDE DEF n
    <2>5. i < n /\ job \in {"configure", "cleanup"}
      BY <1>2, <2>3, <2>4
    <2>1. i < Len(Todo) /\ job \in {"configure", "cleanup"}
      BY <2>5 DEF n
    <2>2. job = "cleanup" => i = 1 /\ outcome = "ok"
      BY <1>2, <1>5, <2>1
    <2> QED BY <1>1, <1>5, <2>1, <2>2 DEF Advances
  <1>6. ASSUME done, job \in {"configure", "subscribe"},
               pc' = IF job = "configure" THEN "configured" ELSE "spawn",
               i' = 0, job' = "none", UNCHANGED stack, ms' = m
        PROVE  Finishes(outcome, m) \/ Subscribes(outcome, m)
    BY <1>1, <1>2, <1>6 DEF Finishes, Subscribes, Ends
  <1>7. ASSUME job = "cleanup", done \/ ~survived,
               ms' = [m EXCEPT !.confirmed = done, !.error = ~done], Return
        PROVE  CleansUp(outcome, m)
    <2>1. CASE done
      <3>1. i = 2 /\ outcome = "ok"
        BY <1>2, <1>7, <2>1
      <3>2. done = TRUE /\ (~done) = FALSE
        BY <2>1
      <3>3. ms' = [m EXCEPT !.confirmed = TRUE, !.error = FALSE]
        BY <1>7, <3>2
      <3> QED BY <1>7, <3>1, <3>3 DEF CleansUp
    <2>2. CASE ~done
      <3>2. done = FALSE /\ (~done) = TRUE
        BY <2>2
      <3>3. ms' = [m EXCEPT !.confirmed = FALSE, !.error = TRUE]
        BY <1>7, <3>2
      <3> QED BY <1>7, <3>3 DEF CleansUp
    <2> QED BY <2>1, <2>2
  <1>8. ASSUME polled, pc' = "ready", UNCHANGED <<stack, job, i>>, ms' = m
        PROVE  Polls(outcome, m)
    BY <1>4, <1>8 DEF Polls
  <1>9. ASSUME job \in {"configure", "messages"}, pc' = "rollback", stack' = <<"configFailed">>,
               i' = 0, job' = "none", ms' = m
        PROVE  RollsBack(m)
    BY <1>9 DEF RollsBack, Ends
  <1>10. ASSUME job = "subscribe", pc' = "stopScanning", stack' = <<"startFailed">>,
                i' = 0, job' = "none", ms' = m
         PROVE  StartFails(m)
    BY <1>10 DEF StartFails, Ends
  <1> HIDE DEF survived, done, polled
  <1> QED BY <1>3, <1>5, <1>6, <1>7, <1>8, <1>9, <1>10

----------------------------------------------------------------------------
(* Where the owner is. *)

USE DEF Ends

(* A return goes to whoever called. *)
LEMMA Returned ==
    ASSUME NEW S, NEW p \in S, stack = <<p>>, Return
    PROVE  pc' = p /\ pc' \in S /\ stack' = << >> /\ job' = "none" /\ i' = 0
  <1>1. Head(<<p>>) = p /\ Tail(<<p>>) = << >>
    OBVIOUS
  <1> QED BY <1>1 DEF Return

(* Outside command sequences and calls there is little to say. *)
LEMMA Elsewhere ==
    ASSUME pc' \in OwnerPlaces \ (Commanding \cup Calling \cup {"reconnect"}),
           job' = "none", i' = 0,
           stack' = << >> \/ \E p \in StopReturns \cup RecorderReturns : stack' = <<p>>,
           pc' \in Unwinding => \E p \in StopReturns : stack' = <<p>>,
           pc' = "stopRecorder" => \E p \in RecorderReturns : stack' = <<p>>
    PROVE  OwnerTypes' /\ Sequence'
  <1>1. OwnerTypes'
    BY DEF OwnerTypes, Jobs
  <1>2. pc' \notin Commanding /\ pc' \notin Calling /\ pc' # "reconnect" /\ pc' # "ready"
    BY DEF Commanding
  <1> QED BY <1>1, <1>2 DEF Sequence

LEMMA AfterSequence ==
    ASSUME Types, Sequence, pc \in {"ask", "reply"}, NEW outcome, NEW m, After(outcome, m)
    PROVE  OwnerTypes' /\ Sequence'
  <1>1. pc \in Commanding
    BY DEF Commanding
  <1>2. /\ i \in Nat /\ i \in 1 .. Len(Todo) /\ Len(Todo) \in Nat /\ job \in Jobs
        /\ stack = << >> \/ \E p \in StopReturns \cup RecorderReturns : stack = <<p>>
        /\ job = "cleanup" => \E p \in StopReturns : stack = <<p>>
    BY <1>1, Current DEF Types, OwnerTypes, Sequence
  <1>3. CASE Advances(outcome, m)
    <2>1. Todo' = Todo /\ i' \in 1 .. Len(Todo) /\ i' \in Nat
      BY <1>2, <1>3 DEF Advances, Todo
    <2> QED BY <1>2, <1>3, <2>1
        DEF Advances, OwnerTypes, OwnerPlaces, Sequence, Commanding, Calling, Unwinding
  <1>4. CASE Finishes(outcome, m)
    BY <1>2, <1>4, Elsewhere DEF Finishes, OwnerPlaces, Commanding, Calling, Unwinding
  <1>5. CASE Subscribes(outcome, m)
    BY <1>2, <1>5, Elsewhere DEF Subscribes, OwnerPlaces, Commanding, Calling, Unwinding
  <1>6. CASE CleansUp(outcome, m)
    <2>1. pc' \in StopReturns /\ stack' = << >> /\ job' = "none" /\ i' = 0
      BY <1>2, <1>6, Returned DEF CleansUp
    <2> QED BY <2>1, Elsewhere DEF StopReturns, OwnerPlaces, Commanding, Calling, Unwinding
  <1>7. CASE Polls(outcome, m)
    <2>1. Todo' = Todo
      BY <1>7 DEF Polls, Todo
    <2> QED BY <1>2, <1>7, <2>1
        DEF Polls, OwnerTypes, OwnerPlaces, Sequence, Commanding, Calling, Unwinding
  <1>8. CASE RollsBack(m)
    BY <1>8, Elsewhere DEF RollsBack, StopReturns, OwnerPlaces, Commanding, Calling, Unwinding
  <1>9. CASE StartFails(m)
    BY <1>9, Elsewhere DEF StartFails, StopReturns, OwnerPlaces, Commanding, Calling, Unwinding
  <1> QED BY <1>1, <1>3, <1>4, <1>5, <1>6, <1>7, <1>8, <1>9, AfterCases

(* In a command sequence. *)
LEMMA Within ==
    ASSUME pc' \in {"ask", "reply"}, job' \in {"configure", "messages", "subscribe", "cleanup"},
           i' \in Nat, i' \in 1 .. Len(Todo'),
           stack' = << >> \/ \E p \in StopReturns \cup RecorderReturns : stack' = <<p>>,
           job' = "cleanup" => \E p \in StopReturns : stack' = <<p>>
    PROVE  OwnerTypes' /\ Sequence'
  <1>1. OwnerTypes'
    BY DEF OwnerTypes, OwnerPlaces, Jobs
  <1> QED BY <1>1 DEF Sequence, Commanding, Calling, Unwinding

(* In a call through the receive thread. *)
LEMMA Through ==
    ASSUME pc' \in Calling, job' = "streamed", i' \in {1, 2},
           \E p \in StopReturns : stack' = <<p>>
    PROVE  OwnerTypes' /\ Sequence'
  <1>1. OwnerTypes'
    BY DEF OwnerTypes, OwnerPlaces, Calling, Jobs
  <1> QED BY <1>1 DEF Sequence, Commanding, Calling, Unwinding

(* A sequence that begins has a first command. *)
LEMMA Begins ==
    ASSUME job' \in {"configure", "messages", "subscribe", "cleanup"}, i' = 1
    PROVE  i' \in Nat /\ i' \in 1 .. Len(Todo')
  <1>1. /\ job' = "configure" => Todo' = Configuration
        /\ job' = "messages" => Len(Todo') = 1
        /\ job' = "subscribe" => Len(Todo') = 1
        /\ job' = "cleanup" => Len(Todo') = 2
    BY DEF Todo
  <1>2. Len(Configuration) \in Nat /\ Len(Configuration) >= 1
    BY ConfigurationSays
  <1> QED BY <1>1, <1>2

LEMMA CommandsSequence ==
    ASSUME Types, Sequence, Commands
    PROVE  OwnerTypes' /\ Sequence'
  <1>1. /\ pc \in OwnerPlaces /\ job \in Jobs /\ i \in Nat
        /\ stack = << >> \/ \E p \in StopReturns \cup RecorderReturns : stack = <<p>>
    BY DEF Types, OwnerTypes
  <1> USE DEF OwnerPlaces, Commanding, Calling, Unwinding, Enter, Call, StopReturns, RecorderReturns
  <1>2. CASE AskWritten
    <2>1. Todo' = Todo
      BY <1>2 DEF AskWritten, Todo
    <2> QED BY <1>1, <1>2, <2>1, Within DEF AskWritten, Sequence
  <1>3. CASE AskNotWritten
    BY <1>3, AfterSequence DEF AskNotWritten
  <1>4. CASE ReplyRead
    BY <1>4, AfterSequence DEF ReplyRead
  <1>5. CASE ReplyTimesOut
    BY <1>5, AfterSequence DEF ReplyTimesOut
  <1>6. CASE ReplyLost
    BY <1>6, AfterSequence DEF ReplyLost
  <1>7. CASE PollAgain
    <2>1. Todo' = Todo
      BY <1>7 DEF PollAgain, Todo
    <2> QED BY <1>1, <1>7, <2>1, Within DEF PollAgain, Sequence
  <1>8. CASE ReadyDeadline
    BY <1>1, <1>8, Begins, Within DEF ReadyDeadline, Sequence
  <1>9. CASE Probe
    BY <1>9, AfterSequence DEF Probe
  <1>10. CASE StopMeasurement
    <2>1. PICK p \in StopReturns : stack = <<p>>
      BY <1>10 DEF StopMeasurement, Sequence
    <2>2. CASE Pending
      <3>1. CASE Reconnects
        BY <1>1, <1>10, <2>1, <2>2, <3>1 DEF StopMeasurement, Sequence, OwnerTypes, Jobs
      <3>2. CASE ~Reconnects
        BY <1>1, <1>10, <2>1, <2>2, <3>2, Begins, Within DEF StopMeasurement
      <3> QED BY <3>1, <3>2
    <2>3. CASE ~Pending
      <3>1. pc' \in StopReturns /\ stack' = << >> /\ job' = "none" /\ i' = 0
        BY <1>10, <2>1, <2>3, Returned DEF StopMeasurement
      <3> QED BY <3>1, Elsewhere
    <2> QED BY <2>2, <2>3
  <1>11. CASE Reconnect
    <2>1. PICK p \in StopReturns : stack = <<p>>
      BY <1>11 DEF Reconnect, Sequence
    <2>2. CASE Return
      <3>1. pc' \in StopReturns /\ stack' = << >> /\ job' = "none" /\ i' = 0
        BY <1>11, <2>1, <2>2, Returned
      <3> QED BY <3>1, Elsewhere
    <2>3. CASE pc' = "ask" /\ UNCHANGED <<stack, job, i>>
      BY <1>1, <1>11, <2>1, <2>3, Begins, Within DEF Reconnect, Sequence
    <2> QED BY <1>11, <2>2, <2>3 DEF Reconnect
  <1> QED BY <1>2, <1>3, <1>4, <1>5, <1>6, <1>7, <1>8, <1>9, <1>10, <1>11 DEF Commands

LEMMA StoppingSequence ==
    ASSUME Types, Sequence, Stopping
    PROVE  OwnerTypes' /\ Sequence'
  <1>1. /\ pc \in OwnerPlaces /\ job \in Jobs /\ i \in Nat
        /\ stack = << >> \/ \E p \in StopReturns \cup RecorderReturns : stack = <<p>>
    BY DEF Types, OwnerTypes
  <1> USE DEF OwnerPlaces, Commanding, Calling, Unwinding, Enter, Call, StopReturns, RecorderReturns
  <1>2. CASE StopScanning
    BY <1>1, <1>2, Elsewhere DEF StopScanning, Sequence
  <1>3. CASE StopStream
    BY <1>1, <1>3, Elsewhere DEF StopStream, Sequence
  <1>4. CASE StreamedStop
    <2>1. CASE Pending
      BY <1>1, <1>4, <2>1, Through DEF StreamedStop, Sequence
    <2>2. CASE ~Pending
      BY <1>1, <1>4, <2>2, Elsewhere DEF StreamedStop, Sequence
    <2> QED BY <2>1, <2>2
  <1>5. CASE ClearSlot
    BY <1>5, Through DEF ClearSlot, Sequence
  <1>6. CASE WriteMethod
    BY <1>6, Through DEF WriteMethod, Sequence
  <1>7. CASE MethodNotSent
    BY <1>1, <1>7, Elsewhere DEF MethodNotSent, Sequence, MethodDone
  <1>8. CASE MethodAnswered
    <2>1. PICK p \in StopReturns : stack = <<p>>
      BY <1>8 DEF MethodAnswered, Sequence
    <2>2. job = "streamed"
      BY <1>8 DEF MethodAnswered, Sequence
    <2>3. CASE pc' = "method" /\ i' = 2 /\ UNCHANGED <<job, stack>>
      BY <2>1, <2>2, <2>3, Through
    <2>4. CASE pc' = "clear" /\ i' = 0 /\ job' = "none" /\ UNCHANGED stack
      BY <2>1, <2>4, Elsewhere
    <2> QED BY <1>8, <2>3, <2>4 DEF MethodAnswered, MethodDone
  <1>9. CASE MethodTimesOut
    BY <1>1, <1>9, Elsewhere DEF MethodTimesOut, Sequence, MethodDone
  <1>10. CASE ClearFlags
    BY <1>1, <1>10, Elsewhere DEF ClearFlags, Sequence
  <1>11. CASE ShutdownReceive
    BY <1>1, <1>11, Elsewhere DEF ShutdownReceive, Sequence
  <1>12. CASE JoinNtp
    BY <1>1, <1>12, Elsewhere DEF JoinNtp, Sequence
  <1>13. CASE JoinReceive
    BY <1>1, <1>13, Elsewhere DEF JoinReceive, Sequence
  <1> QED BY <1>2, <1>3, <1>4, <1>5, <1>6, <1>7, <1>8, <1>9, <1>10, <1>11, <1>12, <1>13 DEF Stopping

LEMMA AppSequence ==
    ASSUME Types, Sequence, App
    PROVE  OwnerTypes' /\ Sequence'
  <1>1. /\ pc \in OwnerPlaces /\ job \in Jobs /\ i \in Nat
        /\ stack = << >> \/ \E p \in StopReturns \cup RecorderReturns : stack = <<p>>
    BY DEF Types, OwnerTypes
  <1> USE DEF OwnerPlaces, Commanding, Calling, Unwinding, Enter, Call, StopReturns, RecorderReturns
  <1>2. CASE InitStopped
    BY <1>1, <1>2, Elsewhere DEF InitStopped, Sequence
  <1>3. CASE Connect
    BY <1>1, <1>3, Elsewhere DEF Connect, Sequence
  <1>4. CASE Configure
    BY <1>1, <1>4, Begins, Within DEF Configure, Sequence
  <1>5. CASE ConfigureFailed
    BY <1>1, <1>5, Elsewhere DEF ConfigureFailed, Sequence
  <1>6. CASE InitDisconnect
    BY <1>1, <1>6, Elsewhere DEF InitDisconnect, Sequence
  <1>7. CASE InitEnds
    BY <1>1, <1>7, Elsewhere DEF InitEnds, Sequence
  <1>8. CASE RunRefused
    BY <1>1, <1>8, Elsewhere DEF RunRefused, Sequence
  <1>9. CASE StartRecorder
    BY <1>1, <1>9, Elsewhere DEF StartRecorder, Sequence
  <1>10. CASE StartScanning
    <2>1. CASE link.up
      BY <1>1, <1>10, <2>1, Begins, Within DEF StartScanning, Sequence
    <2>2. CASE ~link.up
      BY <1>1, <1>10, <2>2, Elsewhere DEF StartScanning, Sequence
    <2> QED BY <2>1, <2>2
  <1>11. CASE SpawnReceive
    BY <1>1, <1>11, Elsewhere DEF SpawnReceive, Sequence
  <1>12. CASE SpawnNtp
    BY <1>1, <1>12, Elsewhere DEF SpawnNtp, Sequence
  <1>13. CASE StartFailed
    BY <1>1, <1>13, Elsewhere DEF StartFailed, Sequence
  <1>14. CASE GiveUp
    BY <1>1, <1>14, Elsewhere DEF GiveUp, Sequence
  <1>15. CASE StopRecorder
    BY <1>1, <1>15, Elsewhere, Returned DEF StopRecorder, Sequence
  <1>16. CASE Arm
    BY <1>1, <1>16, Elsewhere DEF Arm, Sequence
  <1>17. CASE LoopEnds
    BY <1>1, <1>17, Elsewhere DEF LoopEnds, Sequence
  <1>18. CASE Shutdown
    BY <1>1, <1>18, Elsewhere DEF Shutdown, Sequence
  <1>19. CASE Stopped
    BY <1>1, <1>19, Elsewhere DEF Stopped, Sequence
  <1>20. CASE Disconnect
    BY <1>1, <1>20, Elsewhere DEF Disconnect, Sequence
  <1>21. CASE Assess
    BY <1>1, <1>21, Elsewhere DEF Assess, Sequence
  <1> QED BY <1>2, <1>3, <1>4, <1>5, <1>6, <1>7, <1>8, <1>9, <1>10, <1>11, <1>12, <1>13, <1>14,
      <1>15, <1>16, <1>17, <1>18, <1>19, <1>20, <1>21 DEF App

----------------------------------------------------------------------------
(* What the operations on the socket and on the scanner's queue do to the
   elements. *)

LEMMA Pushed ==
    ASSUME NEW S, NEW s \in Seq(S), NEW e \in S
    PROVE  /\ Append(s, e) \in Seq(S) /\ Len(Append(s, e)) = Len(s) + 1 /\ Len(s) \in Nat
           /\ \A k \in 1 .. Len(s) : Append(s, e)[k] = s[k]
           /\ Append(s, e)[Len(s) + 1] = e
  OBVIOUS

LEMMA Popped ==
    ASSUME NEW S, NEW s \in Seq(S), s # << >>
    PROVE  /\ Head(s) = s[1] /\ s[1] \in S /\ Tail(s) \in Seq(S)
           /\ Len(Tail(s)) = Len(s) - 1 /\ Len(s) \in Nat /\ Len(s) >= 1
           /\ \A k \in 1 .. Len(Tail(s)) : Tail(s)[k] = s[k + 1]
  <1>1. Len(s) \in Nat /\ Len(s) >= 1
    OBVIOUS
  <1>2. s[1] \in S
    BY <1>1, ElementOfSeq
  <1> QED BY <1>1, <1>2, HeadTailProperties

(* A record with the mark, and the queue of the marked ones. *)
LEMMA StaleInbox ==
    ASSUME NEW s \in Seq(InboxItem)
    PROVE  /\ Stale(s) \in Seq(InboxItem) /\ Len(Stale(s)) = Len(s)
           /\ \A k \in 1 .. Len(s) :
                 /\ Stale(s)[k].name = s[k].name /\ Stale(s)[k].answer = s[k].answer
                 /\ Stale(s)[k].conn = s[k].conn /\ Stale(s)[k].stale = TRUE
  <1>1. \A x \in InboxItem :
           /\ [x EXCEPT !.stale = TRUE] \in InboxItem
           /\ [x EXCEPT !.stale = TRUE].name = x.name /\ [x EXCEPT !.stale = TRUE].answer = x.answer
           /\ [x EXCEPT !.stale = TRUE].conn = x.conn /\ [x EXCEPT !.stale = TRUE].stale = TRUE
    BY DEF InboxItem
  <1>2. /\ DOMAIN s = 1 .. Len(s) /\ Len(s) \in Nat
        /\ \A k \in 1 .. Len(s) : s[k] \in InboxItem
    BY LenProperties, ElementOfSeq
  <1> DEFINE e(k) == [s[k] EXCEPT !.stale = TRUE]
  <1>3. Stale(s) = [k \in 1 .. Len(s) |-> e(k)]
    BY <1>2 DEF Stale
  <1>4. \A k \in 1 .. Len(s) :
           /\ e(k) \in InboxItem /\ e(k).name = s[k].name /\ e(k).answer = s[k].answer
           /\ e(k).conn = s[k].conn /\ e(k).stale = TRUE
    BY <1>1, <1>2
  <1> HIDE DEF e
  <1> QED BY <1>2, <1>3, <1>4

LEMMA StaleWire ==
    ASSUME NEW s \in Seq(WireItem)
    PROVE  /\ Stale(s) \in Seq(WireItem) /\ Len(Stale(s)) = Len(s)
           /\ \A k \in 1 .. Len(s) :
                 /\ Stale(s)[k].name = s[k].name /\ Stale(s)[k].answer = s[k].answer
                 /\ Stale(s)[k].good = s[k].good /\ Stale(s)[k].stale = TRUE
  <1>1. \A x \in WireItem :
           /\ [x EXCEPT !.stale = TRUE] \in WireItem
           /\ [x EXCEPT !.stale = TRUE].name = x.name /\ [x EXCEPT !.stale = TRUE].answer = x.answer
           /\ [x EXCEPT !.stale = TRUE].good = x.good /\ [x EXCEPT !.stale = TRUE].stale = TRUE
    BY DEF WireItem
  <1>2. /\ DOMAIN s = 1 .. Len(s) /\ Len(s) \in Nat
        /\ \A k \in 1 .. Len(s) : s[k] \in WireItem
    BY LenProperties, ElementOfSeq
  <1> DEFINE e(k) == [s[k] EXCEPT !.stale = TRUE]
  <1>3. Stale(s) = [k \in 1 .. Len(s) |-> e(k)]
    BY <1>2 DEF Stale
  <1>4. \A k \in 1 .. Len(s) :
           /\ e(k) \in WireItem /\ e(k).name = s[k].name /\ e(k).answer = s[k].answer
           /\ e(k).good = s[k].good /\ e(k).stale = TRUE
    BY <1>1, <1>2
  <1> HIDE DEF e
  <1> QED BY <1>2, <1>3, <1>4

(* The socket. *)
LEMMA LinkFields ==
    ASSUME link \in LinkType
    PROVE  /\ link.conn \in Nat /\ link.up \in BOOLEAN /\ link.shut \in BOOLEAN
           /\ link.wire \in Seq(WireItem) /\ Len(link.wire) \in Nat
           /\ \A k \in 1 .. Len(link.wire) : link.wire[k] \in WireItem
           /\ \A w \in Seq(WireItem) :
                 /\ [link EXCEPT !.wire = w] \in LinkType /\ [link EXCEPT !.wire = w].wire = w
                 /\ [link EXCEPT !.wire = w].conn = link.conn /\ [link EXCEPT !.wire = w].up = link.up
                 /\ [link EXCEPT !.up = FALSE, !.wire = w] \in LinkType
                 /\ [link EXCEPT !.up = FALSE, !.wire = w].wire = w
                 /\ [link EXCEPT !.up = FALSE, !.wire = w].conn = link.conn
           /\ [link EXCEPT !.up = FALSE] \in LinkType /\ [link EXCEPT !.up = FALSE].wire = link.wire
           /\ [link EXCEPT !.up = FALSE].conn = link.conn
           /\ [link EXCEPT !.shut = link.up] \in LinkType
           /\ [link EXCEPT !.shut = link.up].wire = link.wire
           /\ [link EXCEPT !.shut = link.up].conn = link.conn
  <1>1. /\ link.conn \in Nat /\ link.up \in BOOLEAN /\ link.shut \in BOOLEAN
        /\ link.wire \in Seq(WireItem)
    BY DEF LinkType
  <1>2. Len(link.wire) \in Nat /\ \A k \in 1 .. Len(link.wire) : link.wire[k] \in WireItem
    BY <1>1, LenProperties, ElementOfSeq
  <1>3. \A w \in Seq(WireItem) :
           /\ [link EXCEPT !.wire = w] \in LinkType /\ [link EXCEPT !.wire = w].wire = w
           /\ [link EXCEPT !.wire = w].conn = link.conn /\ [link EXCEPT !.wire = w].up = link.up
    BY DEF LinkType
  <1>4. \A w \in Seq(WireItem) :
           /\ [link EXCEPT !.up = FALSE, !.wire = w] \in LinkType
           /\ [link EXCEPT !.up = FALSE, !.wire = w].wire = w
           /\ [link EXCEPT !.up = FALSE, !.wire = w].conn = link.conn
    BY DEF LinkType
  <1>5. /\ [link EXCEPT !.up = FALSE] \in LinkType /\ [link EXCEPT !.up = FALSE].wire = link.wire
        /\ [link EXCEPT !.up = FALSE].conn = link.conn
    BY DEF LinkType
  <1>6. \A b \in BOOLEAN :
           /\ [link EXCEPT !.shut = b] \in LinkType /\ [link EXCEPT !.shut = b].wire = link.wire
           /\ [link EXCEPT !.shut = b].conn = link.conn
    BY DEF LinkType
  <1> QED BY <1>1, <1>2, <1>3, <1>4, <1>5, <1>6

(* The ways a step changes what is under way between owner and scanner. *)

Keeps == link'.conn = link.conn /\ link'.wire = link.wire /\ inbox' = inbox /\ dev' = dev

Adds(name, answer) ==
    /\ link'.conn = link.conn /\ dev' = dev
    /\ Len(link'.wire) = Len(link.wire) /\ Len(inbox') = Len(inbox) + 1
    /\ \A k \in 1 .. Len(link.wire) :
          /\ link'.wire[k].name = link.wire[k].name /\ link'.wire[k].answer = link.wire[k].answer
          /\ link'.wire[k].good = link.wire[k].good /\ link'.wire[k].stale = TRUE
    /\ \A k \in 1 .. Len(inbox) :
          /\ inbox'[k].name = inbox[k].name /\ inbox'[k].answer = inbox[k].answer
          /\ inbox'[k].conn = inbox[k].conn /\ inbox'[k].stale = TRUE
    /\ inbox'[Len(inbox) + 1].name = name /\ inbox'[Len(inbox) + 1].answer = answer
    /\ inbox'[Len(inbox) + 1].conn = link.conn /\ inbox'[Len(inbox) + 1].stale = FALSE

Takes ==
    /\ link'.conn = link.conn /\ inbox' = inbox /\ dev' = dev /\ Len(link.wire) >= 1
    /\ Len(link'.wire) = Len(link.wire) - 1
    /\ \A k \in 1 .. Len(link'.wire) : link'.wire[k] = link.wire[k + 1]

Drops ==
    /\ link'.conn = link.conn /\ dev' = dev /\ Len(link'.wire) = 0
    /\ inbox' = inbox \/ Len(inbox') = 0

Renews == link'.conn = link.conn + 1 /\ Len(link'.wire) = 0 /\ inbox' = inbox /\ dev' = dev

Gets(item) ==
    /\ Len(link'.wire) = Len(link.wire) + 1
    /\ \A k \in 1 .. Len(link.wire) : link'.wire[k] = link.wire[k]
    /\ link'.wire[Len(link.wire) + 1] = item

(* The answer to the first command arrives, or nothing does. *)
Brings(ok) ==
    \/ link'.wire = link.wire
    \/ /\ inbox[1].conn = link.conn
       /\ \E item \in WireItem :
             /\ Gets(item) /\ item.name = inbox[1].name /\ item.stale = inbox[1].stale
             /\ item.answer \in {inbox[1].answer, "sFA"} /\ item.good = ok

Executes(ok) ==
    /\ link'.conn = link.conn /\ Len(inbox) >= 1 /\ Len(inbox') = Len(inbox) - 1
    /\ \A k \in 1 .. Len(inbox') : inbox'[k] = inbox[k + 1]
    /\ dev' = Executed(inbox[1], ok)
    /\ Brings(ok) \/ (Len(link.wire) = 0 /\ Gets(Cut))

Scans == link'.conn = link.conn /\ inbox' = inbox /\ dev' = dev /\ Gets(Scan)

(* Writing a command. *)
LEMMA WrittenAdds ==
    ASSUME DeviceTypes, NEW c \in CommandType, Written(c), dev' = dev
    PROVE  DeviceTypes' /\ Adds(c.name, c.answer)
  <1> DEFINE e == [name |-> c.name, answer |-> c.answer, conn |-> link.conn, stale |-> FALSE]
             q == Stale(inbox)
             w == Stale(link.wire)
  <1>1. link \in LinkType /\ inbox \in Seq(InboxItem) /\ dev \in DeviceType
    BY DEF DeviceTypes
  <1>2. /\ e \in InboxItem /\ e.name = c.name /\ e.answer = c.answer /\ e.conn = link.conn
        /\ e.stale = FALSE
    BY <1>1, LinkFields DEF InboxItem, CommandType
  <1>3. inbox' = Append(q, e) /\ link' = [link EXCEPT !.wire = w]
    BY DEF Written
  <1> HIDE DEF e
  <1>4. /\ q \in Seq(InboxItem) /\ Len(q) = Len(inbox)
        /\ \A k \in 1 .. Len(inbox) :
              /\ q[k].name = inbox[k].name /\ q[k].answer = inbox[k].answer
              /\ q[k].conn = inbox[k].conn /\ q[k].stale = TRUE
    BY <1>1, StaleInbox
  <1>5. /\ w \in Seq(WireItem) /\ Len(w) = Len(link.wire)
        /\ \A k \in 1 .. Len(link.wire) :
              /\ w[k].name = link.wire[k].name /\ w[k].answer = link.wire[k].answer
              /\ w[k].good = link.wire[k].good /\ w[k].stale = TRUE
    BY <1>1, LinkFields, StaleWire
  <1> HIDE DEF q, w
  <1>6. /\ inbox' \in Seq(InboxItem) /\ Len(inbox') = Len(q) + 1 /\ Len(q) \in Nat
        /\ \A k \in 1 .. Len(q) : inbox'[k] = q[k]
        /\ inbox'[Len(q) + 1] = e
    BY <1>2, <1>3, <1>4, Pushed
  <1>7. link' \in LinkType /\ link'.conn = link.conn /\ link'.wire = w
    BY <1>1, <1>3, <1>5, LinkFields
  <1> QED BY <1>1, <1>2, <1>4, <1>5, <1>6, <1>7 DEF DeviceTypes, Adds

(* Taking an answer off the socket. *)
LEMMA TailTakes ==
    ASSUME DeviceTypes, link.wire # << >>, link' = [link EXCEPT !.wire = Tail(@)],
           UNCHANGED <<inbox, dev>>
    PROVE  /\ DeviceTypes' /\ Takes /\ Head(link.wire) = link.wire[1]
           /\ link.wire[1] \in WireItem
  <1> DEFINE w == Tail(link.wire)
  <1>1. link \in LinkType /\ inbox \in Seq(InboxItem) /\ dev \in DeviceType
    BY DEF DeviceTypes
  <1>2. link.wire \in Seq(WireItem)
    BY <1>1, LinkFields
  <1>3. /\ w \in Seq(WireItem) /\ Len(w) = Len(link.wire) - 1 /\ Len(link.wire) >= 1
        /\ \A k \in 1 .. Len(w) : w[k] = link.wire[k + 1]
        /\ Head(link.wire) = link.wire[1] /\ link.wire[1] \in WireItem
    BY <1>2, Popped
  <1>4. link' = [link EXCEPT !.wire = w]
    OBVIOUS
  <1> HIDE DEF w
  <1>5. link' \in LinkType /\ link'.conn = link.conn /\ link'.wire = w
    BY <1>1, <1>3, <1>4, LinkFields
  <1> QED BY <1>1, <1>3, <1>5 DEF DeviceTypes, Takes

(* What executing a command does to the scanner. *)
LEMMA ExecutedFields ==
    ASSUME dev \in DeviceType, NEW c \in InboxItem, NEW ok \in BOOLEAN
    PROVE  /\ Executed(c, ok) \in DeviceType
           /\ Executed(c, ok).loggedIn \in {c.conn, 0, dev.loggedIn}
           /\ ok /\ c.name = "LMCstartmeas" => Executed(c, ok).measuring = TRUE
           /\ ok /\ c.name = "LMCstopmeas" => Executed(c, ok).measuring = FALSE
           /\ ~(ok /\ c.name \in {"LMCstartmeas", "LMCstopmeas"}) =>
                 Executed(c, ok).measuring = dev.measuring
  <1> DEFINE l == IF ok /\ c.name = "SetAccessMode" THEN c.conn
                  ELSE IF ok /\ c.name = "Run" THEN 0 ELSE dev.loggedIn
             m == IF ok /\ c.name = "LMCstartmeas" THEN TRUE
                  ELSE IF ok /\ c.name = "LMCstopmeas" THEN FALSE ELSE dev.measuring
             s == IF ok /\ c.name = "LMDscandata" THEN c.conn
                  ELSE IF c.name = "stopStream" THEN 0 ELSE dev.subscribed
  <1>1. dev.loggedIn \in Nat /\ dev.measuring \in BOOLEAN /\ dev.subscribed \in Nat /\ c.conn \in Nat
    BY DEF DeviceType, InboxItem
  <1>2. l \in Nat /\ l \in {c.conn, 0, dev.loggedIn} /\ s \in Nat
    BY <1>1
  <1>3. m \in BOOLEAN
    BY <1>1
  <1>4. Executed(c, ok) = [dev EXCEPT !.loggedIn = l, !.measuring = m, !.subscribed = s]
    BY DEF Executed
  <1>5. /\ ok /\ c.name = "LMCstartmeas" => m = TRUE
        /\ ok /\ c.name = "LMCstopmeas" => m = FALSE
        /\ ~(ok /\ c.name \in {"LMCstartmeas", "LMCstopmeas"}) => m = dev.measuring
    OBVIOUS
  <1> HIDE DEF l, m, s
  <1>6. CASE m = TRUE
    BY <1>2, <1>4, <1>6, <1>5 DEF DeviceType
  <1>7. CASE m = FALSE
    BY <1>2, <1>4, <1>7, <1>5 DEF DeviceType
  <1> QED BY <1>3, <1>6, <1>7

(* An element more on the socket. *)
LEMMA AppendGets ==
    ASSUME link \in LinkType, NEW x \in WireItem, link' = [link EXCEPT !.wire = Append(@, x)]
    PROVE  link' \in LinkType /\ link'.conn = link.conn /\ Gets(x)
  <1> DEFINE w == Append(link.wire, x)
  <1>1. link.wire \in Seq(WireItem)
    BY LinkFields
  <1>2. /\ w \in Seq(WireItem) /\ Len(w) = Len(link.wire) + 1 /\ w[Len(link.wire) + 1] = x
        /\ \A k \in 1 .. Len(link.wire) : w[k] = link.wire[k]
    BY <1>1, Pushed
  <1>3. link' = [link EXCEPT !.wire = w]
    OBVIOUS
  <1> HIDE DEF w
  <1>4. link' \in LinkType /\ link'.conn = link.conn /\ link'.wire = w
    BY <1>2, <1>3, LinkFields
  <1> QED BY <1>2, <1>4 DEF Gets

LEMMA AnswersExecute ==
    ASSUME DeviceTypes, DeviceAnswers
    PROVE  DeviceTypes' /\ \E ok \in BOOLEAN : Executes(ok) /\ Brings(ok)
  <1>1. link \in LinkType /\ inbox \in Seq(InboxItem) /\ dev \in DeviceType /\ inbox # << >>
    BY DEF DeviceTypes, DeviceAnswers
  <1>2. /\ Head(inbox) = inbox[1] /\ inbox[1] \in InboxItem /\ inbox' \in Seq(InboxItem)
        /\ Len(inbox') = Len(inbox) - 1 /\ Len(inbox) >= 1
        /\ \A k \in 1 .. Len(inbox') : inbox'[k] = inbox[k + 1]
    <2>1. inbox' = Tail(inbox)
      BY DEF DeviceAnswers
    <2> QED BY <1>1, <2>1, Popped
  <1> DEFINE c == inbox[1]
  <1>3. PICK verdict \in {"ok", "rejected", "sFA"} :
           /\ dev' = Executed(c, verdict = "ok")
           /\ link' = IF c.conn # link.conn \/ ~link.up THEN link
                      ELSE [link EXCEPT !.wire = Append(@,
                              [name |-> c.name, good |-> verdict = "ok", stale |-> c.stale,
                               answer |-> IF verdict = "sFA" THEN "sFA" ELSE c.answer])]
    BY <1>2 DEF DeviceAnswers
  <1> DEFINE ok == verdict = "ok"
             a == IF verdict = "sFA" THEN "sFA" ELSE c.answer
             x == [name |-> c.name, good |-> ok, stale |-> c.stale, answer |-> a]
  <1>4. ok \in BOOLEAN /\ a \in {c.answer, "sFA"}
    OBVIOUS
  <1>5. /\ link' = link \/ (c.conn = link.conn /\ link' = [link EXCEPT !.wire = Append(@, x)])
        /\ dev' = Executed(c, ok)
    BY <1>3
  <1>6. c \in InboxItem
    BY <1>2
  <1> HIDE DEF ok, a, c
  <1>7. a \in Answers
    BY <1>4, <1>6 DEF InboxItem, Answers
  <1>8. x \in WireItem /\ x.name = c.name /\ x.stale = c.stale /\ x.answer = a /\ x.good = ok
    <2>1. c.name \in Names /\ c.stale \in BOOLEAN
      BY <1>6 DEF InboxItem
    <2> QED BY <1>4, <1>7, <2>1 DEF WireItem
  <1> HIDE DEF x
  <1>9. dev' \in DeviceType
    BY <1>1, <1>4, <1>5, <1>6, ExecutedFields
  <1>10. CASE link' = link
    <2>1. Executes(ok) /\ Brings(ok)
      BY <1>2, <1>5, <1>10 DEF Executes, Brings, c
    <2> QED BY <1>1, <1>2, <1>4, <1>9, <1>10, <2>1 DEF DeviceTypes
  <1>11. CASE c.conn = link.conn /\ link' = [link EXCEPT !.wire = Append(@, x)]
    <2>1. link' \in LinkType /\ link'.conn = link.conn /\ Gets(x)
      BY <1>1, <1>8, <1>11, AppendGets
    <2>2. \E item \in WireItem :
             /\ Gets(item) /\ item.name = inbox[1].name /\ item.stale = inbox[1].stale
             /\ item.answer \in {inbox[1].answer, "sFA"} /\ item.good = ok
      <3>1. /\ Gets(x) /\ x.name = inbox[1].name /\ x.stale = inbox[1].stale
            /\ x.answer \in {inbox[1].answer, "sFA"} /\ x.good = ok
        BY <1>4, <1>8, <2>1 DEF c
      <3> QED BY <1>8, <3>1
    <2>3. Executes(ok) /\ Brings(ok)
      BY <1>2, <1>5, <1>11, <2>1, <2>2 DEF Executes, Brings, c
    <2> QED BY <1>1, <1>2, <1>4, <1>9, <2>1, <2>3 DEF DeviceTypes
  <1> QED BY <1>5, <1>10, <1>11

LEMMA ScansAdd ==
    ASSUME DeviceTypes, DeviceScans
    PROVE  DeviceTypes' /\ Scans
  <1>1. Scan \in WireItem
    BY DEF Scan, WireItem, Names, Answers
  <1>2. link \in LinkType /\ link' = [link EXCEPT !.wire = Append(@, Scan)] /\ UNCHANGED <<inbox, dev>>
    BY DEF DeviceTypes, DeviceScans
  <1>3. link' \in LinkType /\ link'.conn = link.conn /\ Gets(Scan)
    BY <1>1, <1>2, AppendGets
  <1> QED BY <1>2, <1>3 DEF DeviceTypes, Scans

(* The same, action by action. *)

LEMMA NotWrittenKeeps ==
    ASSUME DeviceTypes, link' \in {link, [link EXCEPT !.up = FALSE], [link EXCEPT !.shut = link.up]},
           UNCHANGED <<inbox, dev>>
    PROVE  DeviceTypes' /\ Keeps
  <1>1. link \in LinkType
    BY DEF DeviceTypes
  <1> QED BY <1>1, LinkFields DEF DeviceTypes, Keeps

LEMMA EmptyDrops ==
    ASSUME DeviceTypes,
           link' \in {[link EXCEPT !.up = FALSE, !.wire = << >>], [link EXCEPT !.wire = << >>]},
           inbox' \in {inbox, << >>}, dev' = dev
    PROVE  DeviceTypes' /\ Drops
  <1>1. link \in LinkType /\ inbox \in Seq(InboxItem) /\ dev \in DeviceType
    BY DEF DeviceTypes
  <1>2. << >> \in Seq(WireItem) /\ << >> \in Seq(InboxItem) /\ Len(<< >>) = 0
    BY EmptySeq
  <1>3. link' \in LinkType /\ link'.conn = link.conn /\ link'.wire = << >>
    BY <1>1, <1>2, LinkFields
  <1> QED BY <1>1, <1>2, <1>3 DEF DeviceTypes, Drops

LEMMA ConnectionRenews ==
    ASSUME DeviceTypes, link' \in {NewConnection, NoConnection}, UNCHANGED <<inbox, dev>>
    PROVE  DeviceTypes' /\ Renews
  <1>1. link \in LinkType /\ inbox \in Seq(InboxItem) /\ dev \in DeviceType /\ link.conn \in Nat
    BY LinkFields DEF DeviceTypes
  <1>2. << >> \in Seq(WireItem) /\ Len(<< >>) = 0
    BY EmptySeq
  <1>3. link' \in LinkType /\ link'.conn = link.conn + 1 /\ link'.wire = << >>
    <2>1. \A n \in Nat, w \in Seq(WireItem), b \in BOOLEAN :
             /\ [conn |-> n, up |-> b, shut |-> FALSE, wire |-> w] \in LinkType
             /\ [conn |-> n, up |-> b, shut |-> FALSE, wire |-> w].conn = n
             /\ [conn |-> n, up |-> b, shut |-> FALSE, wire |-> w].wire = w
      BY DEF LinkType
    <2>2. link.conn + 1 \in Nat
      BY <1>1
    <2>3. CASE link' = NewConnection
      BY <1>2, <2>1, <2>2, <2>3 DEF NewConnection
    <2>4. CASE link' = NoConnection
      BY <1>2, <2>1, <2>2, <2>4 DEF NoConnection
    <2> QED BY <2>3, <2>4
  <1> QED BY <1>1, <1>2, <1>3 DEF DeviceTypes, Renews

LEMMA AskWrittenAdds ==
    ASSUME Types, Sequence, AskWritten
    PROVE  DeviceTypes' /\ Adds(Todo[i].name, Todo[i].answer)
  <1>1. Todo[i] \in CommandType /\ DeviceTypes
    BY Current DEF AskWritten, Commanding, Types
  <1> QED BY <1>1, WrittenAdds DEF AskWritten

LEMMA MethodFields ==
    ASSUME i \in {1, 2}
    PROVE  /\ Method \in CommandType /\ Method.answer = "sAN"
           /\ Method.name = IF i = 1 THEN "SetAccessMode" ELSE "LMCstopmeas"
  <1>1. \A n \in Names : /\ Command(n, "sAN", "nothing", TRUE) \in CommandType
                         /\ Command(n, "sAN", "nothing", TRUE).answer = "sAN"
                         /\ Command(n, "sAN", "nothing", TRUE).name = n
    BY DEF Command, CommandType, Answers
  <1>2. "SetAccessMode" \in Names /\ "LMCstopmeas" \in Names
    BY DEF Names
  <1>3. CASE i = 1
    <2>1. Method = Command("SetAccessMode", "sAN", "nothing", TRUE)
      BY <1>3 DEF Method, Login
    <2> QED BY <1>1, <1>2, <1>3, <2>1
  <1>4. CASE i = 2
    <2>1. Method = Command("LMCstopmeas", "sAN", "nothing", TRUE)
      BY <1>4 DEF Method, StopMeas
    <2>2. Method \in CommandType /\ Method.answer = "sAN" /\ Method.name = "LMCstopmeas"
      BY <1>1, <1>2, <2>1
    <2>3. i # 1
      BY <1>4
    <2> QED BY <2>2, <2>3
  <1> QED BY <1>3, <1>4

LEMMA WriteMethodAdds ==
    ASSUME Types, Sequence, WriteMethod
    PROVE  DeviceTypes' /\ Adds(Method.name, Method.answer) /\ i \in {1, 2}
  <1>1. i \in {1, 2} /\ DeviceTypes
    BY DEF WriteMethod, Sequence, Calling, Types
  <1> QED BY <1>1, WrittenAdds, MethodFields DEF WriteMethod

LEMMA StopStreamAdds ==
    ASSUME Types, StopStream
    PROVE  DeviceTypes' /\ (Adds("stopStream", "sEA") \/ Keeps)
  <1> DEFINE c == Command("stopStream", "sEA", "all", FALSE)
  <1>1. c \in CommandType /\ c.name = "stopStream" /\ c.answer = "sEA"
    BY DEF Command, CommandType, Names, Answers
  <1>2. (Written(c) \/ NotWritten) /\ dev' = dev /\ DeviceTypes
    BY DEF StopStream, Types
  <1> HIDE DEF c
  <1>3. CASE Written(c)
    BY <1>1, <1>2, <1>3, WrittenAdds
  <1>4. CASE NotWritten
    BY <1>2, <1>4, NotWrittenKeeps DEF NotWritten
  <1> QED BY <1>2, <1>3, <1>4

LEMMA TelemetryAdds ==
    ASSUME Types, Telemetry
    PROVE  DeviceTypes' /\ (Adds("telemetry", "sRA") \/ Keeps)
  <1> DEFINE c == Command("telemetry", "sRA", "all", FALSE)
  <1>1. c \in CommandType /\ c.name = "telemetry" /\ c.answer = "sRA"
    BY DEF Command, CommandType, Names, Answers
  <1>2. (Written(c) \/ NotWritten) /\ dev' = dev /\ DeviceTypes
    BY DEF Telemetry, Types
  <1> HIDE DEF c
  <1>3. CASE Written(c)
    BY <1>1, <1>2, <1>3, WrittenAdds
  <1>4. CASE NotWritten
    BY <1>2, <1>4, NotWrittenKeeps DEF NotWritten
  <1> QED BY <1>2, <1>3, <1>4

LEMMA TimeoutExecutes ==
    ASSUME Types, ReplyTimesOut
    PROVE  DeviceTypes' /\ (Keeps \/ \E ok \in BOOLEAN : Executes(ok))
  <1>1. /\ link \in LinkType /\ inbox \in Seq(InboxItem) /\ dev \in DeviceType
        /\ link.wire = << >>
    BY DEF Types, DeviceTypes, ReplyTimesOut
  <1>2. CASE UNCHANGED <<link, inbox, dev>>
    BY <1>2, NotWrittenKeeps DEF Types
  <1>3. CASE /\ inbox # << >>
             /\ \E ok \in BOOLEAN : dev' = Executed(Head(inbox), ok)
             /\ inbox' = Tail(inbox)
             /\ link' \in {link, [link EXCEPT !.wire = <<Cut>>]}
    <2>1. PICK ok \in BOOLEAN : dev' = Executed(Head(inbox), ok)
      BY <1>3
    <2>2. /\ Head(inbox) = inbox[1] /\ inbox[1] \in InboxItem /\ inbox' \in Seq(InboxItem)
          /\ Len(inbox') = Len(inbox) - 1 /\ Len(inbox) >= 1
          /\ \A k \in 1 .. Len(inbox') : inbox'[k] = inbox[k + 1]
      BY <1>1, <1>3, Popped
    <2>3. dev' \in DeviceType /\ dev' = Executed(inbox[1], ok)
      BY <1>1, <2>1, <2>2, ExecutedFields
    <2>4. Cut \in WireItem
      BY DEF Cut, WireItem, Names, Answers
    <2>5. <<Cut>> \in Seq(WireItem) /\ Len(<<Cut>>) = 1 /\ <<Cut>>[1] = Cut
      BY <2>4
    <2>6. link' = link \/ (link' \in LinkType /\ link'.conn = link.conn /\ link'.wire = <<Cut>>)
      BY <1>1, <1>3, <2>5, LinkFields
    <2>7. CASE link' = link
      <3>1. Executes(ok)
        BY <2>2, <2>3, <2>7 DEF Executes, Brings
      <3> QED BY <1>1, <2>2, <2>3, <2>7, <3>1 DEF DeviceTypes
    <2>8. CASE link' \in LinkType /\ link'.conn = link.conn /\ link'.wire = <<Cut>>
      <3>1. Len(link.wire) = 0 /\ Gets(Cut)
        BY <1>1, <2>5, <2>8 DEF Gets
      <3>2. Executes(ok)
        BY <2>2, <2>3, <2>8, <3>1 DEF Executes, Brings
      <3> QED BY <2>2, <2>3, <2>8, <3>2 DEF DeviceTypes
    <2> QED BY <2>6, <2>7, <2>8
  <1> QED BY <1>2, <1>3 DEF ReplyTimesOut

LEMMA ReplyTakes ==
    ASSUME Types, ReplyRead
    PROVE  /\ DeviceTypes' /\ (Takes \/ Drops)
           /\ Head(link.wire) = link.wire[1] /\ link.wire[1] \in WireItem /\ Len(link.wire) >= 1
  <1>1. /\ link \in LinkType /\ link.wire # << >> /\ link.wire \in Seq(WireItem)
        /\ UNCHANGED <<inbox, dev>> /\ DeviceTypes
    BY LinkFields DEF Types, DeviceTypes, ReplyRead
  <1>2. Head(link.wire) = link.wire[1] /\ link.wire[1] \in WireItem /\ Len(link.wire) >= 1
    BY <1>1, Popped
  <1>3. link' \in {[link EXCEPT !.wire = << >>], [link EXCEPT !.wire = Tail(@)]}
    BY DEF ReplyRead
  <1>4. CASE link' = [link EXCEPT !.wire = << >>]
    BY <1>1, <1>2, <1>4, EmptyDrops
  <1>5. CASE link' = [link EXCEPT !.wire = Tail(@)]
    BY <1>1, <1>2, <1>5, TailTakes
  <1> QED BY <1>3, <1>4, <1>5

(* Every step keeps the types of what is under way. *)

LEMMA DeviceTypesKept ==
    ASSUME Types, Sequence, [Next]_vars
    PROVE  DeviceTypes'
  <1> USE DEF Types
  <1>1. UNCHANGED deviceVars => DeviceTypes'
    BY DEF deviceVars, DeviceTypes
  <1>2. CASE Device
    <2>1. CASE DeviceAnswers
      BY <2>1, AnswersExecute
    <2>2. CASE DeviceScans
      BY <2>2, ScansAdd
    <2> QED BY <1>2, <2>1, <2>2 DEF Device
  <1>3. CASE Commands
    <2>1. CASE AskWritten
      BY <2>1, AskWrittenAdds
    <2>2. CASE AskNotWritten
      BY <2>2, NotWrittenKeeps DEF AskNotWritten, NotWritten
    <2>3. CASE ReplyRead
      BY <2>3, ReplyTakes
    <2>4. CASE ReplyTimesOut
      BY <2>4, TimeoutExecutes
    <2>5. CASE ReplyLost
      BY <2>5, EmptyDrops DEF ReplyLost
    <2>6. CASE Reconnect
      BY <2>6, ConnectionRenews DEF Reconnect
    <2>7. CASE PollAgain \/ ReadyDeadline \/ Probe \/ StopMeasurement
      BY <1>1, <2>7 DEF PollAgain, ReadyDeadline, Probe, StopMeasurement, deviceVars, appFrame,
          receiveFrame, ntpFrame, recorderFrame, vars
    <2> QED BY <1>3, <2>1, <2>2, <2>3, <2>4, <2>5, <2>6, <2>7 DEF Commands
  <1>4. CASE Stopping
    <2>1. CASE StopStream
      BY <2>1, StopStreamAdds
    <2>2. CASE WriteMethod
      BY <2>2, WriteMethodAdds
    <2>3. CASE MethodNotSent
      BY <2>3, NotWrittenKeeps DEF MethodNotSent, NotWritten
    <2>4. CASE ShutdownReceive
      BY <2>4, NotWrittenKeeps DEF ShutdownReceive
    <2>5. CASE StopScanning \/ StreamedStop \/ ClearSlot \/ MethodAnswered \/ MethodTimesOut \/
            ClearFlags \/ JoinNtp \/ JoinReceive
      BY <1>1, <2>5 DEF StopScanning, StreamedStop, ClearSlot, MethodAnswered, MethodTimesOut,
          ClearFlags, JoinNtp, JoinReceive, deviceVars, appFrame, receiveFrame, ntpFrame,
          recorderFrame, vars
    <2> QED BY <1>4, <2>1, <2>2, <2>3, <2>4, <2>5 DEF Stopping
  <1>5. CASE Receive
    <2>1. CASE ReceiveFrame
      BY <2>1, TailTakes DEF ReceiveFrame, receiveFrame
    <2>2. CASE ReceiveError
      BY <2>2, NotWrittenKeeps DEF ReceiveError, receiveFrame
    <2>3. CASE CheckRunning \/ ReceiveNothing \/ LeaveReceive
      BY <1>1, <2>3 DEF CheckRunning, ReceiveNothing, LeaveReceive, deviceVars, appFrame,
          receiveFrame, ntpFrame, recorderFrame, vars
    <2> QED BY <1>5, <2>1, <2>2, <2>3 DEF Receive
  <1>6. CASE NtpWatch
    <2>1. CASE NtpSleep \/ NtpProbe \/ NtpJudge \/ NtpFault
      BY <1>1, <2>1 DEF NtpSleep, NtpProbe, NtpJudge, NtpFault, deviceVars, appFrame, receiveFrame,
          ntpFrame, recorderFrame, vars
    <2> QED BY <1>6, <2>1 DEF NtpWatch
  <1>7. CASE App
    <2>1. CASE Connect
      BY <2>1, ConnectionRenews DEF Connect
    <2>2. CASE InitDisconnect
      BY <2>2, EmptyDrops DEF InitDisconnect
    <2>3. CASE Assess
      BY <2>3, EmptyDrops DEF Assess
    <2>4. CASE InitStopped \/ Configure \/ ConfigureFailed \/ InitEnds \/ RunRefused \/
            StartRecorder \/ StartScanning \/ SpawnReceive \/ SpawnNtp \/ StartFailed \/ GiveUp \/
            StopRecorder \/ Arm \/ LoopEnds \/ Shutdown \/ Stopped \/ Disconnect
      BY <1>1, <2>4 DEF InitStopped, Configure, ConfigureFailed, InitEnds, RunRefused,
          StartRecorder, StartScanning, SpawnReceive, SpawnNtp, StartFailed, GiveUp, StopRecorder,
          Arm, LoopEnds, Shutdown, Stopped, Disconnect, deviceVars, appFrame, receiveFrame,
          ntpFrame, recorderFrame, vars
    <2> QED BY <1>7, <2>1, <2>2, <2>3, <2>4 DEF App
  <1>8. CASE Telemetry
    BY <1>8, TelemetryAdds
  <1>9. CASE RecorderWrites \/ RecorderFails \/ StopRequested \/ Done \/ UNCHANGED vars
    BY <1>1, <1>9 DEF RecorderWrites, RecorderFails, StopRequested, Done, deviceVars, appFrame,
        receiveFrame, ntpFrame, recorderFrame, vars
  <1> QED BY <1>2, <1>3, <1>4, <1>5, <1>6, <1>7, <1>8, <1>9 DEF Next

----------------------------------------------------------------------------
(* The marks of the measurement shutdown. *)

LEMMA MeasurementFields ==
    ASSUME NEW m \in MeasurementType
    PROVE  /\ m.requested \in BOOLEAN /\ m.cleanup \in BOOLEAN /\ m.attempted \in BOOLEAN
           /\ m.confirmed \in BOOLEAN /\ m.error \in BOOLEAN
           /\ \A b \in BOOLEAN : LET q == [m EXCEPT !.confirmed = b, !.error = ~b] IN
                 /\ q \in MeasurementType /\ q.requested = m.requested /\ q.cleanup = m.cleanup
                 /\ q.attempted = m.attempted /\ q.confirmed = b /\ q.error = ~b
           /\ LET q == [m EXCEPT !.cleanup = TRUE] IN
                 /\ q \in MeasurementType /\ q.requested = m.requested /\ q.cleanup = TRUE
                 /\ q.attempted = m.attempted /\ q.confirmed = m.confirmed /\ q.error = m.error
           /\ LET q == [m EXCEPT !.attempted = TRUE] IN
                 /\ q \in MeasurementType /\ q.requested = m.requested /\ q.cleanup = m.cleanup
                 /\ q.attempted = TRUE /\ q.confirmed = m.confirmed /\ q.error = m.error
           /\ LET q == [m EXCEPT !.error = TRUE] IN
                 /\ q \in MeasurementType /\ q.requested = m.requested /\ q.cleanup = m.cleanup
                 /\ q.attempted = m.attempted /\ q.confirmed = m.confirmed /\ q.error = TRUE
  BY DEF MeasurementType

LEMMA CleanupFields ==
    ASSUME ms \in MeasurementType, ms' = [ms EXCEPT !.cleanup = TRUE]
    PROVE  /\ ms' \in MeasurementType /\ ms'.requested = ms.requested /\ ms'.cleanup = TRUE
           /\ ms'.attempted = ms.attempted /\ ms'.confirmed = ms.confirmed /\ ms'.error = ms.error
  BY DEF MeasurementType

LEMMA ErrorFields ==
    ASSUME ms \in MeasurementType, ms' = [ms EXCEPT !.error = TRUE]
    PROVE  /\ ms' \in MeasurementType /\ ms'.requested = ms.requested /\ ms'.cleanup = ms.cleanup
           /\ ms'.attempted = ms.attempted /\ ms'.confirmed = ms.confirmed /\ ms'.error = TRUE
  BY DEF MeasurementType

(* A start is requested anew. *)
LEMMA RequestFields ==
    LET q == [NoMeasurement EXCEPT !.requested = TRUE] IN
    /\ q \in MeasurementType /\ q.requested = TRUE /\ q.cleanup = FALSE /\ q.attempted = FALSE
    /\ q.confirmed = FALSE /\ q.error = FALSE
  BY DEF NoMeasurement, MeasurementType

(* What is marked before a command is written. *)
LEMMA AskedFields ==
    ASSUME ms \in MeasurementType
    PROVE  /\ Asked \in MeasurementType
           /\ Todo[i].name = "LMCstartmeas" =>
                 /\ Asked.requested = TRUE /\ Asked.cleanup = FALSE /\ Asked.attempted = FALSE
                 /\ Asked.confirmed = FALSE /\ Asked.error = FALSE
           /\ Todo[i].name = "LMCstopmeas" =>
                 /\ Asked.requested = ms.requested /\ Asked.cleanup = ms.cleanup
                 /\ Asked.attempted = TRUE /\ Asked.confirmed = ms.confirmed
                 /\ Asked.error = ms.error
           /\ Todo[i].name \notin {"LMCstartmeas", "LMCstopmeas"} => Asked = ms
  <1>1. CASE Todo[i].name = "LMCstartmeas"
    <2>1. Asked = [NoMeasurement EXCEPT !.requested = TRUE]
      BY <1>1 DEF Asked
    <2> QED BY <1>1, <2>1, RequestFields
  <1>2. CASE Todo[i].name = "LMCstopmeas"
    <2>1. Asked = [ms EXCEPT !.attempted = TRUE]
      BY <1>2 DEF Asked
    <2> QED BY <1>2, <2>1, MeasurementFields
  <1>3. CASE Todo[i].name \notin {"LMCstartmeas", "LMCstopmeas"}
    <2>1. Asked = ms
      BY <1>3 DEF Asked
    <2> QED BY <1>3, <2>1
  <1> QED BY <1>1, <1>2, <1>3

(* The settled measurement. *)
LEMMA CleansUpFields ==
    ASSUME NEW m \in MeasurementType, NEW outcome, CleansUp(outcome, m)
    PROVE  /\ ms' \in MeasurementType /\ ms'.requested = m.requested /\ ms'.cleanup = m.cleanup
           /\ ms'.attempted = m.attempted
           /\ \/ i = 2 /\ outcome = "ok" /\ ms'.confirmed = TRUE /\ ms'.error = FALSE
              \/ ms'.confirmed = FALSE /\ ms'.error = TRUE
  <1>1. /\ [m EXCEPT !.confirmed = TRUE, !.error = FALSE] \in MeasurementType
        /\ [m EXCEPT !.confirmed = FALSE, !.error = TRUE] \in MeasurementType
    BY DEF MeasurementType
  <1>2. CASE i = 2 /\ outcome = "ok" /\ ms' = [m EXCEPT !.confirmed = TRUE, !.error = FALSE]
    BY <1>1, <1>2 DEF MeasurementType
  <1>3. CASE ms' = [m EXCEPT !.confirmed = FALSE, !.error = TRUE]
    BY <1>1, <1>3 DEF MeasurementType
  <1> QED BY <1>2, <1>3 DEF CleansUp

LEMMA AfterMeasurement ==
    ASSUME Types, Sequence, pc \in {"ask", "reply"}, NEW outcome, NEW m \in MeasurementType,
           After(outcome, m)
    PROVE  ms' \in MeasurementType /\ (job # "cleanup" => ms' = m)
  <1>1. CASE CleansUp(outcome, m)
    BY <1>1, CleansUpFields DEF CleansUp
  <1>2. CASE ms' = m
    BY <1>2
  <1> QED BY <1>1, <1>2, AfterCases
      DEF Commanding, Advances, Finishes, Subscribes, Polls, RollsBack, StartFails

(* The end of a call. *)
LEMMA MethodDoneFields ==
    ASSUME ms \in MeasurementType, NEW ok \in BOOLEAN, MethodDone(ok)
    PROVE  /\ ms' \in MeasurementType /\ ms'.requested = ms.requested /\ ms'.cleanup = ms.cleanup
           /\ ok /\ i = 1 =>
                 /\ pc' = "method" /\ i' = 2 /\ job' = job /\ ms'.attempted = TRUE
                 /\ ms'.confirmed = ms.confirmed /\ ms'.error = ms.error
           /\ ~(ok /\ i = 1) =>
                 /\ pc' = "clear" /\ i' = 0 /\ job' = "none" /\ ms'.attempted = ms.attempted
                 /\ ok => ms'.confirmed = TRUE /\ ms'.error = FALSE
                 /\ ~ok => ms'.confirmed = FALSE /\ ms'.error = TRUE
  <1>1. CASE ok /\ i = 1
    <2>1. /\ ms' = [ms EXCEPT !.attempted = TRUE] /\ pc' = "method" /\ i' = 2 /\ job' = job
      BY <1>1 DEF MethodDone
    <2> QED BY <1>1, <2>1, MeasurementFields
  <1>2. CASE ~(ok /\ i = 1)
    <2>1. ms' = [ms EXCEPT !.confirmed = ok, !.error = ~ok] /\ pc' = "clear" /\ i' = 0 /\ job' = "none"
      BY <1>2 DEF MethodDone
    <2>2. CASE ok = TRUE
      <3>1. ms' = [ms EXCEPT !.confirmed = TRUE, !.error = FALSE]
        BY <2>1, <2>2
      <3>2. /\ ms' \in MeasurementType /\ ms'.requested = ms.requested /\ ms'.cleanup = ms.cleanup
            /\ ms'.attempted = ms.attempted /\ ms'.confirmed = TRUE /\ ms'.error = FALSE
        BY <3>1 DEF MeasurementType
      <3> QED BY <1>2, <2>1, <2>2, <3>2
    <2>3. CASE ok = FALSE
      <3>1. ms' = [ms EXCEPT !.confirmed = FALSE, !.error = TRUE]
        BY <2>1, <2>3
      <3>2. /\ ms' \in MeasurementType /\ ms'.requested = ms.requested /\ ms'.cleanup = ms.cleanup
            /\ ms'.attempted = ms.attempted /\ ms'.confirmed = FALSE /\ ms'.error = TRUE
        BY <3>1 DEF MeasurementType
      <3> QED BY <1>2, <2>1, <2>3, <3>2
    <2> QED BY <2>2, <2>3
  <1> QED BY <1>1, <1>2

(* What the receive thread puts into the slot. *)
LEMMA SlotTyped ==
    ASSUME Types, ReceiveFrame
    PROVE  /\ slot' \in SlotType
           /\ \/ slot' = slot
              \/ /\ link.wire[1].answer \in {"sAN", "sFA"}
                 /\ slot'.name = IF link.wire[1].answer = "sFA" THEN "sFA" ELSE link.wire[1].name
                 /\ slot'.good = link.wire[1].good /\ slot'.stale = link.wire[1].stale
  <1>1. link.wire # << >> /\ link.wire \in Seq(WireItem) /\ slot \in SlotType
    BY LinkFields DEF ReceiveFrame, Types, DeviceTypes, StopTypes
  <1>2. Head(link.wire) = link.wire[1] /\ link.wire[1] \in WireItem
    BY <1>1, Popped
  <1> DEFINE h == link.wire[1]
             n == IF h.answer = "sFA" THEN "sFA" ELSE h.name
  <1>3. \/ slot' = slot
        \/ h.answer \in {"sAN", "sFA"} /\ slot' = [name |-> n, good |-> h.good, stale |-> h.stale]
    BY <1>2 DEF ReceiveFrame
  <1>4. h.name \in Names /\ h.good \in BOOLEAN /\ h.stale \in BOOLEAN
    BY <1>2 DEF WireItem
  <1>5. n \in Names
    BY <1>4 DEF Names
  <1> HIDE DEF n, h
  <1>6. CASE slot' = slot
    BY <1>1, <1>6
  <1>7. CASE h.answer \in {"sAN", "sFA"} /\ slot' = [name |-> n, good |-> h.good, stale |-> h.stale]
    <2>1. slot' \in SlotType /\ slot'.name = n /\ slot'.good = h.good /\ slot'.stale = h.stale
      BY <1>4, <1>5, <1>7 DEF SlotType
    <2> QED BY <1>7, <2>1 DEF n, h
  <1> QED BY <1>3, <1>6, <1>7

(* A method is written: what the slot holds is somebody else's, and otherwise the
   same. *)
LEMMA SlotMarked ==
    ASSUME Types, WriteMethod
    PROVE  /\ slot' \in SlotType /\ slot'.name = slot.name /\ slot'.good = slot.good
           /\ slot'.stale = TRUE
  <1>1. slot \in SlotType /\ slot' = [slot EXCEPT !.stale = TRUE]
    BY DEF Types, StopTypes, WriteMethod
  <1> QED BY <1>1 DEF SlotType

(* The types of the remaining variables. *)
LEMMA StopTypesKept ==
    ASSUME Types, Sequence, [Next]_vars
    PROVE  StopTypes'
  <1>1. UNCHANGED stopVars => StopTypes'
    BY DEF Types, StopTypes, stopVars
  <1>2. CASE Device
    BY <1>1, <1>2 DEF Device, DeviceAnswers, DeviceScans, appFrame, receiveFrame, ntpFrame,
        recorderFrame, ownerVars, deviceVars, stopVars, quietVars, receiveVars, ntpVars, appVars,
        vars
  <1>3. CASE Commands
    <2>1. CASE AskWritten
      BY <2>1, AskedFields DEF AskWritten, Types, StopTypes, quietVars
    <2>2. CASE AskNotWritten
      BY <2>2, AskedFields, AfterMeasurement DEF AskNotWritten, Types, StopTypes
    <2>3. CASE ReplyRead
      <3>1. mixed' \in BOOLEAN /\ misread' \subseteq Jobs
        BY <2>3 DEF ReplyRead, Recorded, Types, StopTypes, OwnerTypes
      <3> QED BY <2>3, <3>1, AfterMeasurement DEF ReplyRead, Types, StopTypes
    <2>4. CASE ReplyTimesOut
      BY <2>4, AfterMeasurement DEF ReplyTimesOut, Types, StopTypes
    <2>5. CASE ReplyLost
      BY <2>5, AfterMeasurement DEF ReplyLost, Types, StopTypes
    <2>6. CASE Probe
      BY <2>6, AfterMeasurement DEF Probe, Types, StopTypes
    <2>7. CASE StopMeasurement
      BY <2>7, CleanupFields DEF StopMeasurement, Types, StopTypes
    <2>8. CASE Reconnect
      BY <2>8, ErrorFields DEF Reconnect, Types, StopTypes
    <2>9. CASE PollAgain \/ ReadyDeadline
      BY <1>1, <2>9 DEF PollAgain, ReadyDeadline, appFrame, receiveFrame, ntpFrame, recorderFrame,
          ownerVars, deviceVars, stopVars, quietVars, receiveVars, ntpVars, appVars, vars
    <2> QED BY <1>3, <2>1, <2>2, <2>3, <2>4, <2>5, <2>6, <2>7, <2>8, <2>9 DEF Commands
  <1>4. CASE Stopping
    <2>1. CASE StreamedStop
      BY <2>1, CleanupFields DEF StreamedStop, Types, StopTypes
    <2>2. CASE ClearSlot
      BY <2>2 DEF ClearSlot, Types, StopTypes, NoSlot, SlotType, Names
    <2>3. CASE MethodNotSent
      BY <2>3, MethodDoneFields DEF MethodNotSent, Types, StopTypes
    <2>4. CASE MethodAnswered
      <3>1. mixed' \in BOOLEAN /\ misread' \subseteq Jobs
        BY <2>4 DEF MethodAnswered, SlotRecorded, Types, StopTypes, OwnerTypes
      <3> QED BY <2>4, <3>1, MethodDoneFields DEF MethodAnswered, Types, StopTypes
    <2>5. CASE MethodTimesOut
      BY <2>5, MethodDoneFields DEF MethodTimesOut, Types, StopTypes
    <2>6. CASE WriteMethod
      BY <2>6, SlotMarked DEF WriteMethod, Types, StopTypes
    <2>7. CASE StopScanning \/ StopStream \/ ClearFlags \/ ShutdownReceive \/ JoinNtp
        \/ JoinReceive
      BY <1>1, <2>7 DEF StopScanning, StopStream, ClearFlags, ShutdownReceive, JoinNtp,
          JoinReceive, appFrame, receiveFrame, ntpFrame, recorderFrame, ownerVars, deviceVars,
          stopVars, quietVars, receiveVars, ntpVars, appVars, vars
    <2> QED BY <1>4, <2>1, <2>2, <2>3, <2>4, <2>5, <2>6, <2>7 DEF Stopping
  <1>5. CASE Receive
    <2>1. CASE ReceiveFrame
      BY <2>1, SlotTyped DEF ReceiveFrame, Types, StopTypes, receiveFrame
    <2>2. CASE CheckRunning \/ ReceiveNothing \/ ReceiveError \/ LeaveReceive
      BY <1>1, <2>2 DEF CheckRunning, ReceiveNothing, ReceiveError, LeaveReceive, appFrame,
          receiveFrame, ntpFrame, recorderFrame, ownerVars, deviceVars, stopVars, quietVars,
          receiveVars, ntpVars, appVars, vars
    <2> QED BY <1>5, <2>1, <2>2 DEF Receive
  <1>6. CASE NtpWatch
    BY <1>1, <1>6 DEF NtpWatch, NtpSleep, NtpProbe, NtpJudge, NtpFault, appFrame, receiveFrame,
        ntpFrame, recorderFrame, ownerVars, deviceVars, stopVars, quietVars, receiveVars, ntpVars,
        appVars, vars
  <1>7. CASE App
    BY <1>1, <1>7 DEF App, InitStopped, Connect, Configure, ConfigureFailed, InitDisconnect,
        InitEnds, RunRefused, StartRecorder, StartScanning, SpawnReceive, SpawnNtp, StartFailed,
        GiveUp, StopRecorder, Arm, LoopEnds, Shutdown, Stopped, Disconnect, Assess, appFrame,
        receiveFrame, ntpFrame, recorderFrame, ownerVars, deviceVars, stopVars, quietVars,
        receiveVars, ntpVars, appVars, vars
  <1>8. CASE Telemetry \/ RecorderWrites \/ RecorderFails \/ StopRequested \/ Done \/ UNCHANGED vars
    BY <1>1, <1>8 DEF Telemetry, RecorderWrites, RecorderFails, StopRequested, Done, appFrame,
        receiveFrame, ntpFrame, recorderFrame, ownerVars, deviceVars, stopVars, quietVars,
        receiveVars, ntpVars, appVars, vars
  <1> QED BY <1>2, <1>3, <1>4, <1>5, <1>6, <1>7, <1>8 DEF Next

LEMMA FreshMisses ==
    ASSUME Workers, SpawnNtp
    PROVE  misses = 0 /\ misses # MaxFailures
  BY BoundsAssumption DEF Workers, Fresh, SpawnNtp

LEMMA ThreadTypesKept ==
    ASSUME Types, Sequence, Workers, [Next]_vars
    PROVE  ThreadTypes'
  <1>1. UNCHANGED <<scanning, fault, receiveVars, ntpVars>> => ThreadTypes'
    BY DEF Types, ThreadTypes, receiveVars, ntpVars
  <1>2. CASE Device
    BY <1>1, <1>2 DEF Device, DeviceAnswers, DeviceScans, appFrame, receiveFrame, ntpFrame,
        recorderFrame, ownerVars, deviceVars, stopVars, quietVars, receiveVars, ntpVars, appVars,
        vars
  <1>3. CASE Commands
    BY <1>1, <1>3 DEF Commands, AskWritten, AskNotWritten, ReplyRead, ReplyTimesOut, ReplyLost,
        PollAgain, ReadyDeadline, Probe, StopMeasurement, Reconnect, appFrame, receiveFrame,
        ntpFrame, recorderFrame, ownerVars, deviceVars, stopVars, quietVars, receiveVars, ntpVars,
        appVars, vars
  <1>4. CASE Stopping
    <2>1. CASE ClearFlags
      BY <2>1, BoundsAssumption DEF ClearFlags, Types, ThreadTypes, ReceivePlaces, NtpPlaces,
          receiveVars, ntpVars, receiveFrame, ntpFrame
    <2>2. CASE ShutdownReceive
      BY <2>2, BoundsAssumption DEF ShutdownReceive, Types, ThreadTypes, ReceivePlaces, NtpPlaces,
          receiveVars, ntpVars, receiveFrame, ntpFrame
    <2>3. CASE JoinNtp
      BY <2>3, BoundsAssumption DEF JoinNtp, Types, ThreadTypes, ReceivePlaces, NtpPlaces,
          receiveVars, ntpVars, receiveFrame, ntpFrame
    <2>4. CASE JoinReceive
      BY <2>4, BoundsAssumption DEF JoinReceive, Types, ThreadTypes, ReceivePlaces, NtpPlaces,
          receiveVars, ntpVars, receiveFrame, ntpFrame
    <2>5. CASE StopScanning \/ StopStream \/ StreamedStop \/ ClearSlot \/ WriteMethod \/
        MethodNotSent \/ MethodAnswered \/ MethodTimesOut
      BY <1>1, <2>5 DEF StopScanning, StopStream, StreamedStop, ClearSlot, WriteMethod,
          MethodNotSent, MethodAnswered, MethodTimesOut, appFrame, receiveFrame, ntpFrame,
          recorderFrame, ownerVars, deviceVars, stopVars, quietVars, receiveVars, ntpVars, appVars,
          vars
    <2> QED BY <1>4, <2>1, <2>2, <2>3, <2>4, <2>5 DEF Stopping
  <1>5. CASE Receive
    <2>1. CASE CheckRunning
      BY <2>1, BoundsAssumption DEF CheckRunning, Types, ThreadTypes, ReceivePlaces, NtpPlaces,
          receiveVars, ntpVars, receiveFrame, ntpFrame
    <2>2. CASE ReceiveFrame
      BY <2>2, BoundsAssumption DEF ReceiveFrame, Types, ThreadTypes, ReceivePlaces, NtpPlaces,
          receiveVars, ntpVars, receiveFrame, ntpFrame, quietVars, HandleFrame, Garbage
    <2>3. CASE ReceiveNothing
      BY <2>3, BoundsAssumption DEF ReceiveNothing, Types, ThreadTypes, ReceivePlaces, NtpPlaces,
          receiveVars, ntpVars, receiveFrame, ntpFrame
    <2>4. CASE ReceiveError
      BY <2>4, BoundsAssumption DEF ReceiveError, Types, ThreadTypes, ReceivePlaces, NtpPlaces,
          receiveVars, ntpVars, receiveFrame, ntpFrame
    <2>5. CASE LeaveReceive
      BY <2>5, BoundsAssumption DEF LeaveReceive, Types, ThreadTypes, ReceivePlaces, NtpPlaces,
          receiveVars, ntpVars, receiveFrame, ntpFrame
    <2> QED BY <1>5, <2>1, <2>2, <2>3, <2>4, <2>5 DEF Receive
  <1>6. CASE NtpWatch
    <2>1. CASE NtpSleep
      BY <2>1, BoundsAssumption DEF NtpSleep, Types, ThreadTypes, ReceivePlaces, NtpPlaces,
          receiveVars, ntpVars, receiveFrame, ntpFrame
    <2>2. CASE NtpProbe
      BY <2>2, BoundsAssumption DEF NtpProbe, Types, ThreadTypes, ReceivePlaces, NtpPlaces,
          receiveVars, ntpVars, receiveFrame, ntpFrame
    <2>3. CASE NtpJudge
      BY <2>3, BoundsAssumption DEF NtpJudge, Types, ThreadTypes, ReceivePlaces, NtpPlaces,
          receiveVars, ntpVars, receiveFrame, ntpFrame
    <2>4. CASE NtpFault
      BY <2>4, BoundsAssumption DEF NtpFault, Types, ThreadTypes, ReceivePlaces, NtpPlaces,
          receiveVars, ntpVars, receiveFrame, ntpFrame
    <2> QED BY <1>6, <2>1, <2>2, <2>3, <2>4 DEF NtpWatch
  <1>7. CASE App
    <2>1. CASE SpawnReceive
      BY <2>1, BoundsAssumption DEF SpawnReceive, Types, ThreadTypes, ReceivePlaces, NtpPlaces,
          receiveVars, ntpVars, receiveFrame, ntpFrame
    <2>2. CASE SpawnNtp
      BY <2>2, FreshMisses, BoundsAssumption DEF SpawnNtp, Types, ThreadTypes, ReceivePlaces,
          NtpPlaces, receiveVars, ntpVars, receiveFrame, ntpFrame
    <2>3. CASE InitStopped \/ Connect \/ Configure \/ ConfigureFailed \/ InitDisconnect \/ InitEnds
        \/ RunRefused \/ StartRecorder \/ StartScanning \/ StartFailed \/ GiveUp \/ StopRecorder \/
        Arm \/ LoopEnds \/ Shutdown \/ Stopped \/ Disconnect \/ Assess
      BY <1>1, <2>3 DEF InitStopped, Connect, Configure, ConfigureFailed, InitDisconnect, InitEnds,
          RunRefused, StartRecorder, StartScanning, StartFailed, GiveUp, StopRecorder, Arm,
          LoopEnds, Shutdown, Stopped, Disconnect, Assess, appFrame, receiveFrame, ntpFrame,
          recorderFrame, ownerVars, deviceVars, stopVars, quietVars, receiveVars, ntpVars, appVars,
          vars
    <2> QED BY <1>7, <2>1, <2>2, <2>3 DEF App
  <1>8. CASE Telemetry \/ RecorderWrites \/ RecorderFails \/ StopRequested \/ Done \/ UNCHANGED vars
    BY <1>1, <1>8 DEF Telemetry, RecorderWrites, RecorderFails, StopRequested, Done, appFrame,
        receiveFrame, ntpFrame, recorderFrame, ownerVars, deviceVars, stopVars, quietVars,
        receiveVars, ntpVars, appVars, vars
  <1> QED BY <1>2, <1>3, <1>4, <1>5, <1>6, <1>7, <1>8 DEF Next

(* The recorder and the counters. *)
LEMMA RecorderFields ==
    ASSUME rec \in RecorderType, rec.written <= rec.queued
    PROVE  /\ rec.state \in RecorderStates /\ rec.failed \in BOOLEAN /\ rec.queued \in Nat
           /\ rec.written \in Nat /\ rec.dropped \in Nat
           /\ \A s \in RecorderStates :
                 /\ [rec EXCEPT !.state = s] \in RecorderType
                 /\ [rec EXCEPT !.state = s].queued = rec.queued
                 /\ [rec EXCEPT !.state = s].written = rec.written
           /\ \A s \in RecorderStates, f \in BOOLEAN :
                 /\ [rec EXCEPT !.state = s, !.failed = f] \in RecorderType
                 /\ [rec EXCEPT !.state = s, !.failed = f].queued = rec.queued
                 /\ [rec EXCEPT !.state = s, !.failed = f].written = rec.written
           /\ [rec EXCEPT !.written = @ + 1] \in RecorderType
           /\ [rec EXCEPT !.written = @ + 1].queued = rec.queued
           /\ [rec EXCEPT !.written = @ + 1].written = rec.written + 1
           /\ [rec EXCEPT !.queued = @ + 1] \in RecorderType
           /\ [rec EXCEPT !.queued = @ + 1].queued = rec.queued + 1
           /\ [rec EXCEPT !.queued = @ + 1].written = rec.written
           /\ [rec EXCEPT !.dropped = @ + 1] \in RecorderType
           /\ [rec EXCEPT !.dropped = @ + 1].queued = rec.queued
           /\ [rec EXCEPT !.dropped = @ + 1].written = rec.written
           /\ [rec EXCEPT !.dropped = @ + 1, !.failed = TRUE, !.state = "refusing"] \in RecorderType
           /\ [rec EXCEPT !.dropped = @ + 1, !.failed = TRUE, !.state = "refusing"].queued = rec.queued
           /\ [rec EXCEPT !.dropped = @ + 1, !.failed = TRUE, !.state = "refusing"].written = rec.written
  <1>1. /\ rec.state \in RecorderStates /\ rec.failed \in BOOLEAN /\ rec.queued \in Nat
        /\ rec.written \in Nat /\ rec.dropped \in Nat
    BY DEF RecorderType
  <1>2. \A s \in RecorderStates, f \in BOOLEAN :
           /\ [rec EXCEPT !.state = s] \in RecorderType
           /\ [rec EXCEPT !.state = s].queued = rec.queued
           /\ [rec EXCEPT !.state = s].written = rec.written
           /\ [rec EXCEPT !.state = s, !.failed = f] \in RecorderType
           /\ [rec EXCEPT !.state = s, !.failed = f].queued = rec.queued
           /\ [rec EXCEPT !.state = s, !.failed = f].written = rec.written
    BY <1>1 DEF RecorderType
  <1>3. \A n \in Nat : /\ [rec EXCEPT !.written = n] \in RecorderType
                       /\ [rec EXCEPT !.written = n].queued = rec.queued
                       /\ [rec EXCEPT !.written = n].written = n
                       /\ [rec EXCEPT !.queued = n] \in RecorderType
                       /\ [rec EXCEPT !.queued = n].queued = n
                       /\ [rec EXCEPT !.queued = n].written = rec.written
                       /\ [rec EXCEPT !.dropped = n] \in RecorderType
                       /\ [rec EXCEPT !.dropped = n].queued = rec.queued
                       /\ [rec EXCEPT !.dropped = n].written = rec.written
    BY <1>1 DEF RecorderType
  <1>4. \A n \in Nat, s \in RecorderStates :
           /\ [rec EXCEPT !.dropped = n, !.failed = TRUE, !.state = s] \in RecorderType
           /\ [rec EXCEPT !.dropped = n, !.failed = TRUE, !.state = s].queued = rec.queued
           /\ [rec EXCEPT !.dropped = n, !.failed = TRUE, !.state = s].written = rec.written
    BY <1>1 DEF RecorderType
  <1>5. /\ rec.written + 1 \in Nat /\ rec.queued + 1 \in Nat /\ rec.dropped + 1 \in Nat
        /\ "refusing" \in RecorderStates
    BY <1>1 DEF RecorderStates
  <1> QED BY <1>1, <1>2, <1>3, <1>4, <1>5

(* The owner and the writer. *)
LEMMA RecorderTyped ==
    ASSUME rec \in RecorderType, rec.written <= rec.queued,
           InitEnds \/ StartRecorder \/ StopRecorder \/ RecorderWrites
    PROVE  rec' \in RecorderType /\ rec'.written <= rec'.queued
  <1>1. rec.queued \in Nat /\ rec.written \in Nat /\ rec.failed \in BOOLEAN
    BY RecorderFields
  <1>2. {"made", "open", "closed"} \subseteq RecorderStates
    BY DEF RecorderStates
  <1>3. CASE rec' = rec
    BY <1>3
  <1>4. ASSUME NEW s \in RecorderStates, rec' = [rec EXCEPT !.state = s]
        PROVE  rec' \in RecorderType /\ rec'.written <= rec'.queued
    BY <1>4, RecorderFields
  <1>5. ASSUME NEW s \in RecorderStates, NEW f \in BOOLEAN,
               rec' = [rec EXCEPT !.state = s, !.failed = f]
        PROVE  rec' \in RecorderType /\ rec'.written <= rec'.queued
    BY <1>5, RecorderFields
  <1>6. CASE InitEnds
    BY <1>2, <1>3, <1>4, <1>6 DEF InitEnds
  <1>7. CASE StartRecorder
    <2>1. rec' = [rec EXCEPT !.state = "open"] \/ rec' = [rec EXCEPT !.state = "closed", !.failed = TRUE]
      BY <1>7 DEF StartRecorder
    <2> QED BY <1>2, <1>4, <1>5, <2>1
  <1>8. CASE StopRecorder
    <2>1. CASE rec' = rec
      BY <2>1, <1>3
    <2>2. ASSUME NEW f \in BOOLEAN, rec' = [rec EXCEPT !.state = "closed", !.failed = @ \/ f]
          PROVE  rec' \in RecorderType /\ rec'.written <= rec'.queued
      <3> DEFINE g == rec.failed \/ f
      <3>1. g \in BOOLEAN /\ rec' = [rec EXCEPT !.state = "closed", !.failed = g]
        BY <2>2
      <3> HIDE DEF g
      <3> QED BY <1>2, <1>5, <3>1
    <2> QED BY <1>8, <2>1, <2>2 DEF StopRecorder
  <1>9. CASE RecorderWrites
    <2>1. rec.written < rec.queued /\ rec' = [rec EXCEPT !.written = @ + 1]
      BY <1>9 DEF RecorderWrites
    <2>2. rec' \in RecorderType /\ rec'.queued = rec.queued /\ rec'.written = rec.written + 1
      BY <2>1, RecorderFields
    <2> QED BY <1>1, <2>1, <2>2
  <1> QED BY <1>6, <1>7, <1>8, <1>9

(* A failed write. *)
LEMMA FailsFields ==
    ASSUME rec \in RecorderType, rec.written <= rec.queued, RecorderFails
    PROVE  rec' \in RecorderType /\ rec'.queued = rec.queued /\ rec'.written = rec.written
  <1> DEFINE n == rec.dropped + rec.queued - rec.written
  <1>1. n \in Nat /\ "broken" \in RecorderStates
    BY DEF RecorderType, RecorderStates
  <1>2. rec' = [rec EXCEPT !.failed = TRUE, !.state = "broken", !.dropped = n]
    BY DEF RecorderFails
  <1> HIDE DEF n
  <1> QED BY <1>1, <1>2 DEF RecorderType

LEMMA StatsFields ==
    ASSUME stats \in StatsType
    PROVE  /\ stats.received \in Nat /\ stats.loss \in BOOLEAN /\ stats.doubt \in BOOLEAN
           /\ \A b \in BOOLEAN : /\ [stats EXCEPT !.loss = b] \in StatsType
                                  /\ [stats EXCEPT !.loss = b].received = stats.received
                                  /\ [stats EXCEPT !.loss = b].loss = b
           /\ \A n \in Nat, b, d \in BOOLEAN : [received |-> n, loss |-> b, doubt |-> d] \in StatsType
  BY DEF StatsType

(* A telegram, or bytes of none, is counted once, and recorded at most once. *)
LEMMA FrameTyped ==
    ASSUME Types, ReceiveFrame
    PROVE  /\ stats' \in StatsType /\ rec' \in RecorderType /\ rec'.written <= rec'.queued
           /\ UNCHANGED <<terminate, failed, armed>> /\ fault' \in BOOLEAN
  <1>1. /\ stats \in StatsType /\ rec \in RecorderType /\ rec.written <= rec.queued
        /\ fault \in BOOLEAN
    BY DEF Types, AppTypes, ThreadTypes
  <1>2. /\ stats.received \in Nat /\ stats.loss \in BOOLEAN /\ stats.doubt \in BOOLEAN
        /\ rec.queued \in Nat /\ rec.written \in Nat
    BY <1>1, StatsFields, RecorderFields
  <1>3. UNCHANGED <<terminate, failed, armed>>
    BY DEF ReceiveFrame, receiveFrame, appVars
  <1>4. Garbage \/ \E what : HandleFrame(what)
    BY DEF ReceiveFrame
  <1>5. CASE Garbage
    BY <1>1, <1>3, <1>5, StatsFields DEF Garbage
  <1>6. ASSUME NEW what, HandleFrame(what)
        PROVE  /\ stats' \in StatsType /\ rec' \in RecorderType /\ rec'.written <= rec'.queued
               /\ fault' \in BOOLEAN
    <2> DEFINE l == stats.loss \/ what \in {"parse", "crc"}
               d == stats.doubt \/ what = "doubt"
               f == fault \/ what = "fault"
    <2>1. l \in BOOLEAN /\ d \in BOOLEAN /\ f \in BOOLEAN
      OBVIOUS
    <2>2. stats' = [received |-> stats.received + 1, loss |-> l, doubt |-> d] /\ fault' = f
      BY <1>6 DEF HandleFrame
    <2> HIDE DEF l, d, f
    <2>3. stats' \in StatsType /\ fault' \in BOOLEAN
      BY <1>1, <1>2, <2>1, <2>2 DEF StatsType
    <2>4. rec' \in OnFrame(rec)
      BY <1>6 DEF HandleFrame
    <2>5. rec' \in RecorderType /\ rec'.written <= rec'.queued
      <3>1. rec' \in {[rec EXCEPT !.dropped = @ + 1], [rec EXCEPT !.queued = @ + 1],
                      [rec EXCEPT !.dropped = @ + 1, !.failed = TRUE, !.state = "refusing"]}
        BY <2>4 DEF OnFrame
      <3>2. /\ rec' \in RecorderType /\ rec'.written = rec.written
            /\ rec'.queued \in {rec.queued, rec.queued + 1}
        BY <1>1, <3>1, RecorderFields
      <3> QED BY <1>1, <1>2, <3>2
    <2> QED BY <2>3, <2>5
  <1> QED BY <1>3, <1>4, <1>5, <1>6

LEMMA AppTypesKept ==
    ASSUME Types, Sequence, [Next]_vars
    PROVE  AppTypes'
  <1>1. UNCHANGED <<rec, stats, appVars>> => AppTypes'
    BY DEF Types, AppTypes, appVars
  <1>2. CASE Device
    BY <1>1, <1>2 DEF Device, DeviceAnswers, DeviceScans, appFrame, receiveFrame, ntpFrame,
        recorderFrame, ownerVars, deviceVars, stopVars, quietVars, receiveVars, ntpVars, appVars,
        vars
  <1>3. CASE Commands
    BY <1>1, <1>3 DEF Commands, AskWritten, AskNotWritten, ReplyRead, ReplyTimesOut, ReplyLost,
        PollAgain, ReadyDeadline, Probe, StopMeasurement, Reconnect, appFrame, receiveFrame,
        ntpFrame, recorderFrame, ownerVars, deviceVars, stopVars, quietVars, receiveVars, ntpVars,
        appVars, vars
  <1>4. CASE Stopping
    <2>1. CASE JoinReceive
      BY <2>1, StatsFields DEF JoinReceive, Types, AppTypes, appVars
    <2>2. CASE StopScanning \/ StopStream \/ StreamedStop \/ ClearSlot \/ WriteMethod \/
        MethodNotSent \/ MethodAnswered \/ MethodTimesOut \/ ClearFlags \/ ShutdownReceive \/
        JoinNtp
      BY <1>1, <2>2 DEF StopScanning, StopStream, StreamedStop, ClearSlot, WriteMethod,
          MethodNotSent, MethodAnswered, MethodTimesOut, ClearFlags, ShutdownReceive, JoinNtp,
          appFrame, receiveFrame, ntpFrame, recorderFrame, ownerVars, deviceVars, stopVars,
          quietVars, receiveVars, ntpVars, appVars, vars
    <2> QED BY <1>4, <2>1, <2>2 DEF Stopping
  <1>5. CASE Receive
    <2>1. CASE ReceiveFrame
      BY <2>1, FrameTyped DEF Types, AppTypes
    <2>2. CASE CheckRunning \/ ReceiveNothing \/ ReceiveError \/ LeaveReceive
      BY <1>1, <2>2 DEF CheckRunning, ReceiveNothing, ReceiveError, LeaveReceive, appFrame,
          receiveFrame, ntpFrame, recorderFrame, ownerVars, deviceVars, stopVars, quietVars,
          receiveVars, ntpVars, appVars, vars
    <2> QED BY <1>5, <2>1, <2>2 DEF Receive
  <1>6. CASE NtpWatch
    BY <1>1, <1>6 DEF NtpWatch, NtpSleep, NtpProbe, NtpJudge, NtpFault, appFrame, receiveFrame,
        ntpFrame, recorderFrame, ownerVars, deviceVars, stopVars, quietVars, receiveVars, ntpVars,
        appVars, vars
  <1>7. CASE App
    <2>1. CASE ConfigureFailed
      BY <2>1 DEF ConfigureFailed, Types, AppTypes, appVars, appFrame
    <2>2. CASE InitEnds
      BY <2>2, RecorderTyped DEF InitEnds, Types, AppTypes, appVars, appFrame
    <2>3. CASE StartRecorder
      BY <2>3, RecorderTyped DEF StartRecorder, Types, AppTypes, appVars, appFrame
    <2>4. CASE GiveUp
      BY <2>4 DEF GiveUp, Types, AppTypes, appVars, appFrame
    <2>5. CASE StopRecorder
      BY <2>5, RecorderTyped DEF StopRecorder, Types, AppTypes, appVars, appFrame
    <2>6. CASE Arm
      BY <2>6 DEF Arm, Types, AppTypes, appVars, appFrame
    <2>7. CASE LoopEnds
      BY <2>7 DEF LoopEnds, Types, AppTypes, appVars, appFrame
    <2>8. CASE Shutdown
      BY <2>8 DEF Shutdown, Types, AppTypes, appVars, appFrame
    <2>9. CASE Stopped
      BY <2>9 DEF Stopped, Types, AppTypes, appVars, appFrame
    <2>10. CASE Assess
      BY <2>10 DEF Assess, Types, AppTypes, appVars, appFrame
    <2>11. CASE InitStopped \/ Connect \/ Configure \/ InitDisconnect \/ RunRefused \/ StartScanning
        \/ SpawnReceive \/ SpawnNtp \/ StartFailed \/ Disconnect
      BY <1>1, <2>11 DEF InitStopped, Connect, Configure, InitDisconnect, RunRefused, StartScanning,
          SpawnReceive, SpawnNtp, StartFailed, Disconnect, appFrame, receiveFrame, ntpFrame,
          recorderFrame, ownerVars, deviceVars, stopVars, quietVars, receiveVars, ntpVars, appVars,
          vars
    <2> QED BY <1>7, <2>1, <2>2, <2>3, <2>4, <2>5, <2>6, <2>7, <2>8, <2>9, <2>10, <2>11 DEF App
  <1>8. CASE RecorderWrites
    BY <1>8, RecorderTyped DEF RecorderWrites, Types, AppTypes, recorderFrame, appVars
  <1>9. CASE RecorderFails
    BY <1>9, FailsFields DEF RecorderFails, Types, AppTypes, recorderFrame, appVars
  <1>10. CASE StopRequested
    BY <1>10 DEF StopRequested, Types, AppTypes, appVars, appFrame
  <1>11. CASE Telemetry \/ Done \/ UNCHANGED vars
    BY <1>1, <1>11 DEF Telemetry, Done, appFrame, receiveFrame, ntpFrame, recorderFrame, ownerVars,
        deviceVars, stopVars, quietVars, receiveVars, ntpVars, appVars, vars
  <1> QED BY <1>2, <1>3, <1>4, <1>5, <1>6, <1>7, <1>8, <1>9, <1>10, <1>11 DEF Next

(* Types are kept, and so is the place in the sequences. *)
LEMMA SequenceKept ==
    ASSUME Types, Sequence, [Next]_vars
    PROVE  OwnerTypes' /\ Sequence'
  <1>1. CASE UNCHANGED ownerVars
    <2>1. Todo' = Todo
      BY <1>1 DEF ownerVars, Todo
    <2> QED BY <1>1, <2>1 DEF ownerVars, Types, OwnerTypes, Sequence
  <1>2. CASE Device
    BY <1>1, <1>2 DEF Device, DeviceAnswers, DeviceScans
  <1>3. CASE Receive
    BY <1>1, <1>3 DEF Receive, CheckRunning, ReceiveFrame, ReceiveNothing, ReceiveError,
                      LeaveReceive, receiveFrame
  <1>4. CASE NtpWatch
    BY <1>1, <1>4 DEF NtpWatch, NtpSleep, NtpProbe, NtpJudge, NtpFault, ntpFrame
  <1>5. CASE Telemetry \/ RecorderWrites \/ RecorderFails \/ StopRequested \/ Done \/ UNCHANGED vars
    BY <1>1, <1>5 DEF Telemetry, RecorderWrites, RecorderFails, StopRequested, Done, recorderFrame,
                      vars
  <1> QED BY <1>2, <1>3, <1>4, <1>5, CommandsSequence, StoppingSequence, AppSequence DEF Next

LEMMA TypesKept ==
    ASSUME Types, Sequence, Workers, [Next]_vars
    PROVE  Types' /\ Sequence'
  BY SequenceKept, DeviceTypesKept, StopTypesKept, ThreadTypesKept, AppTypesKept DEF Types

----------------------------------------------------------------------------
(* Where the workers are. *)

(* A return from a stop, and from the recorder's. *)
LEMMA CalledFrom ==
    ASSUME Sequence, Return
    PROVE  /\ pc \in Unwinding \/ job = "cleanup" => pc' \in StopReturns /\ job' = "none" /\ i' = 0
           /\ pc = "stopRecorder" => pc' \in RecorderReturns /\ job' = "none" /\ i' = 0
  BY Returned DEF Sequence

(* The workers' own steps end nothing that the owner waits for. *)
LEMMA ReceiveWorks ==
    ASSUME Workers, Receive
    PROVE  Workers'
  <1>1. /\ rpc \in {"check", "read", "leave"} /\ rpc' \in {"check", "read", "leave", "exit"}
        /\ UNCHANGED <<pc, job, npc, misses, scanning, streamReq, armed>>
    BY DEF Receive, CheckRunning, ReceiveFrame, ReceiveNothing, ReceiveError, LeaveReceive,
           receiveFrame, ownerVars, ntpVars, appVars
  <1>2. Joinable(rpc) /\ Joinable(rpc)' /\ (Joinable(npc)' <=> Joinable(npc))
    BY <1>1 DEF Joinable
  <1> QED BY <1>1, <1>2 DEF Workers

LEMMA WatchWorks ==
    ASSUME Workers, NtpWatch
    PROVE  Workers'
  <1>1. /\ npc \in {"sleep", "probe", "hit", "miss", "latch"}
        /\ npc' \in {"sleep", "probe", "hit", "miss", "latch", "exit"}
        /\ UNCHANGED <<pc, job, rpc, scanning, streamReq, armed>>
    BY DEF NtpWatch, NtpSleep, NtpProbe, NtpJudge, NtpFault, ntpFrame, ownerVars, stopVars,
           receiveVars, appVars
  <1>2. Joinable(npc) /\ Joinable(npc)' /\ (Joinable(rpc)' <=> Joinable(rpc)) /\ npc # "none"
    BY <1>1 DEF Joinable
  <1> QED BY <1>1, <1>2 DEF Workers

LEMMA AfterWorkers ==
    ASSUME Types, Sequence, Workers, pc \in {"ask", "reply"}, NEW outcome, NEW m,
           After(outcome, m), UNCHANGED <<scanning, rpc, npc, misses, armed>>,
           streamReq => streamReq', job = "subscribe" => streamReq'
    PROVE  Workers'
  <1>1. /\ ~Joinable(rpc) /\ ~Joinable(npc) /\ ~scanning /\ ~armed
        /\ job \in {"configure", "messages", "subscribe"} => npc = "none" /\ misses = 0
    BY DEF Workers, Quiet
  <1>2. pc \in Commanding
    BY DEF Commanding
  <1>3. /\ ~Joinable(rpc)' /\ ~Joinable(npc)' /\ ~scanning' /\ ~armed'
    BY <1>1 DEF Joinable
  <1>4. CASE Advances(outcome, m)
    BY <1>1, <1>3, <1>4 DEF Advances, Workers, Quiet, Calling, Fresh
  <1>5. CASE Finishes(outcome, m)
    BY <1>1, <1>3, <1>5 DEF Finishes, Workers, Quiet, Calling, Fresh
  <1>6. CASE Subscribes(outcome, m)
    BY <1>1, <1>3, <1>6 DEF Subscribes, Workers, Quiet, Calling, Fresh
  <1>7. CASE CleansUp(outcome, m)
    <2>1. PICK p \in StopReturns : stack = <<p>>
      BY <1>7 DEF CleansUp, Sequence
    <2>2. pc' \in StopReturns /\ job' = "none"
      BY <1>7, <2>1, Returned DEF CleansUp
    <2> QED BY <1>1, <1>3, <2>2 DEF Workers, Quiet, Calling, Fresh, StopReturns
  <1>8. CASE Polls(outcome, m)
    BY <1>1, <1>3, <1>8 DEF Polls, Workers, Quiet, Calling, Fresh
  <1>9. CASE RollsBack(m)
    BY <1>1, <1>3, <1>9 DEF RollsBack, Workers, Quiet, Calling, Fresh
  <1>10. CASE StartFails(m)
    BY <1>1, <1>3, <1>10 DEF StartFails, Workers, Quiet, Calling, Fresh
  <1> QED BY <1>2, <1>4, <1>5, <1>6, <1>7, <1>8, <1>9, <1>10, AfterCases

LEMMA WorkersKept ==
    ASSUME Types, Sequence, Workers, [Next]_vars
    PROVE  Workers'
  <1>1. UNCHANGED <<pc, job, rpc, npc, misses, scanning, streamReq, armed>> => Workers'
    BY DEF Workers, Joinable
  <1>2. CASE Device
    BY <1>1, <1>2 DEF Device, DeviceAnswers, DeviceScans, appFrame, receiveFrame, ntpFrame,
        recorderFrame, ownerVars, deviceVars, stopVars, quietVars, receiveVars, ntpVars, appVars,
        vars
  <1>3. CASE Commands
    <2>1. CASE AskWritten
      BY <2>1 DEF AskWritten, Workers, Quiet, Calling, Fresh, Joinable, Enter, Call, receiveVars,
          ntpVars, stopVars, appVars, quietVars, appFrame, receiveFrame, ntpFrame, Sequence
    <2>2. CASE AskNotWritten
      BY <2>2, AfterWorkers DEF AskNotWritten, quietVars, receiveVars, ntpVars, appVars, Workers,
          Types, StopTypes
    <2>3. CASE ReplyRead
      BY <2>3, AfterWorkers DEF ReplyRead, quietVars, receiveVars, ntpVars, appVars, Workers, Types,
          StopTypes
    <2>4. CASE ReplyTimesOut
      BY <2>4, AfterWorkers DEF ReplyTimesOut, quietVars, receiveVars, ntpVars, appVars, Workers,
          Types, StopTypes
    <2>5. CASE ReplyLost
      BY <2>5, AfterWorkers DEF ReplyLost, quietVars, receiveVars, ntpVars, appVars, Workers, Types,
          StopTypes
    <2>6. CASE PollAgain
      BY <2>6 DEF PollAgain, Workers, Quiet, Calling, Fresh, Joinable, Enter, Call, receiveVars,
          ntpVars, stopVars, appVars, quietVars, appFrame, receiveFrame, ntpFrame, Sequence
    <2>7. CASE ReadyDeadline
      BY <2>7 DEF ReadyDeadline, Workers, Quiet, Calling, Fresh, Joinable, Enter, Call, receiveVars,
          ntpVars, stopVars, appVars, quietVars, appFrame, receiveFrame, ntpFrame, Sequence
    <2>8. CASE Probe
      BY <2>8, AfterWorkers, Current DEF Probe, quietVars, receiveVars, ntpVars, appVars, Workers,
          Types, StopTypes, Commanding
    <2>9. CASE StopMeasurement
      BY <2>9, CalledFrom DEF StopMeasurement, Workers, Quiet, Calling, Fresh, Joinable, Enter,
          Call, receiveVars, ntpVars, stopVars, appVars, quietVars, appFrame, receiveFrame,
          ntpFrame, Sequence, StopReturns, RecorderReturns, Unwinding
    <2>10. CASE Reconnect
      BY <2>10, CalledFrom DEF Reconnect, Workers, Quiet, Calling, Fresh, Joinable, Enter, Call,
          receiveVars, ntpVars, stopVars, appVars, quietVars, appFrame, receiveFrame, ntpFrame,
          Sequence, StopReturns, RecorderReturns, Unwinding
    <2> QED BY <1>3, <2>1, <2>2, <2>3, <2>4, <2>5, <2>6, <2>7, <2>8, <2>9, <2>10 DEF Commands
  <1>4. CASE Stopping
    <2>1. CASE StopScanning
      BY <2>1 DEF StopScanning, Workers, Quiet, Calling, Fresh, Joinable, Enter, Call, receiveVars,
          ntpVars, stopVars, appVars, quietVars, appFrame, receiveFrame, ntpFrame, Sequence
    <2>2. CASE StopStream
      BY <2>2 DEF StopStream, Workers, Quiet, Calling, Fresh, Joinable, Enter, Call, receiveVars,
          ntpVars, stopVars, appVars, quietVars, appFrame, receiveFrame, ntpFrame, Sequence
    <2>3. CASE StreamedStop
      BY <2>3 DEF StreamedStop, Workers, Quiet, Calling, Fresh, Joinable, Enter, Call, receiveVars,
          ntpVars, stopVars, appVars, quietVars, appFrame, receiveFrame, ntpFrame, Sequence
    <2>4. CASE ClearSlot
      BY <2>4 DEF ClearSlot, Workers, Quiet, Calling, Fresh, Joinable, Enter, Call, receiveVars,
          ntpVars, stopVars, appVars, quietVars, appFrame, receiveFrame, ntpFrame, Sequence
    <2>5. CASE WriteMethod
      BY <2>5 DEF WriteMethod, Workers, Quiet, Calling, Fresh, Joinable, Enter, Call, receiveVars,
          ntpVars, stopVars, appVars, quietVars, appFrame, receiveFrame, ntpFrame, Sequence
    <2>6. CASE MethodNotSent
      BY <2>6 DEF MethodNotSent, Workers, Quiet, Calling, Fresh, Joinable, Enter, Call, receiveVars,
          ntpVars, stopVars, appVars, quietVars, appFrame, receiveFrame, ntpFrame, Sequence,
          MethodDone
    <2>7. CASE MethodAnswered
      BY <2>7 DEF MethodAnswered, Workers, Quiet, Calling, Fresh, Joinable, Enter, Call,
          receiveVars, ntpVars, stopVars, appVars, quietVars, appFrame, receiveFrame, ntpFrame,
          Sequence, MethodDone
    <2>8. CASE MethodTimesOut
      BY <2>8 DEF MethodTimesOut, Workers, Quiet, Calling, Fresh, Joinable, Enter, Call,
          receiveVars, ntpVars, stopVars, appVars, quietVars, appFrame, receiveFrame, ntpFrame,
          Sequence, MethodDone
    <2>9. CASE ClearFlags
      BY <2>9 DEF ClearFlags, Workers, Quiet, Calling, Fresh, Joinable, Enter, Call, receiveVars,
          ntpVars, stopVars, appVars, quietVars, appFrame, receiveFrame, ntpFrame, Sequence
    <2>10. CASE ShutdownReceive
      BY <2>10 DEF ShutdownReceive, Workers, Quiet, Calling, Fresh, Joinable, Enter, Call,
          receiveVars, ntpVars, stopVars, appVars, quietVars, appFrame, receiveFrame, ntpFrame,
          Sequence
    <2>11. CASE JoinNtp
      BY <2>11 DEF JoinNtp, Workers, Quiet, Calling, Fresh, Joinable, Enter, Call, receiveVars,
          ntpVars, stopVars, appVars, quietVars, appFrame, receiveFrame, ntpFrame, Sequence
    <2>12. CASE JoinReceive
      BY <2>12 DEF JoinReceive, Workers, Quiet, Calling, Fresh, Joinable, Enter, Call, receiveVars,
          ntpVars, stopVars, appVars, quietVars, appFrame, receiveFrame, ntpFrame, Sequence
    <2> QED BY <1>4, <2>1, <2>2, <2>3, <2>4, <2>5, <2>6, <2>7, <2>8, <2>9, <2>10, <2>11, <2>12 DEF
        Stopping
  <1>5. CASE Receive
    BY <1>5, ReceiveWorks
  <1>6. CASE NtpWatch
    BY <1>6, WatchWorks
  <1>7. CASE App
    <2>1. CASE InitStopped
      BY <2>1 DEF InitStopped, Workers, Quiet, Calling, Fresh, Joinable, Enter, Call, receiveVars,
          ntpVars, stopVars, appVars, quietVars, appFrame, receiveFrame, ntpFrame, Sequence
    <2>2. CASE Connect
      BY <2>2 DEF Connect, Workers, Quiet, Calling, Fresh, Joinable, Enter, Call, receiveVars,
          ntpVars, stopVars, appVars, quietVars, appFrame, receiveFrame, ntpFrame, Sequence
    <2>3. CASE Configure
      BY <2>3 DEF Configure, Workers, Quiet, Calling, Fresh, Joinable, Enter, Call, receiveVars,
          ntpVars, stopVars, appVars, quietVars, appFrame, receiveFrame, ntpFrame, Sequence
    <2>4. CASE ConfigureFailed
      BY <2>4 DEF ConfigureFailed, Workers, Quiet, Calling, Fresh, Joinable, Enter, Call,
          receiveVars, ntpVars, stopVars, appVars, quietVars, appFrame, receiveFrame, ntpFrame,
          Sequence
    <2>5. CASE InitDisconnect
      BY <2>5 DEF InitDisconnect, Workers, Quiet, Calling, Fresh, Joinable, Enter, Call,
          receiveVars, ntpVars, stopVars, appVars, quietVars, appFrame, receiveFrame, ntpFrame,
          Sequence
    <2>6. CASE InitEnds
      BY <2>6 DEF InitEnds, Workers, Quiet, Calling, Fresh, Joinable, Enter, Call, receiveVars,
          ntpVars, stopVars, appVars, quietVars, appFrame, receiveFrame, ntpFrame, Sequence
    <2>7. CASE RunRefused
      BY <2>7 DEF RunRefused, Workers, Quiet, Calling, Fresh, Joinable, Enter, Call, receiveVars,
          ntpVars, stopVars, appVars, quietVars, appFrame, receiveFrame, ntpFrame, Sequence
    <2>8. CASE StartRecorder
      BY <2>8 DEF StartRecorder, Workers, Quiet, Calling, Fresh, Joinable, Enter, Call, receiveVars,
          ntpVars, stopVars, appVars, quietVars, appFrame, receiveFrame, ntpFrame, Sequence
    <2>9. CASE StartScanning
      BY <2>9 DEF StartScanning, Workers, Quiet, Calling, Fresh, Joinable, Enter, Call, receiveVars,
          ntpVars, stopVars, appVars, quietVars, appFrame, receiveFrame, ntpFrame, Sequence
    <2>10. CASE SpawnReceive
      BY <2>10 DEF SpawnReceive, Workers, Quiet, Calling, Fresh, Joinable, Enter, Call, receiveVars,
          ntpVars, stopVars, appVars, quietVars, appFrame, receiveFrame, ntpFrame, Sequence
    <2>11. CASE SpawnNtp
      BY <2>11 DEF SpawnNtp, Workers, Quiet, Calling, Fresh, Joinable, Enter, Call, receiveVars,
          ntpVars, stopVars, appVars, quietVars, appFrame, receiveFrame, ntpFrame, Sequence,
          Commanding
    <2>12. CASE StartFailed
      BY <2>12 DEF StartFailed, Workers, Quiet, Calling, Fresh, Joinable, Enter, Call, receiveVars,
          ntpVars, stopVars, appVars, quietVars, appFrame, receiveFrame, ntpFrame, Sequence
    <2>13. CASE GiveUp
      BY <2>13 DEF GiveUp, Workers, Quiet, Calling, Fresh, Joinable, Enter, Call, receiveVars,
          ntpVars, stopVars, appVars, quietVars, appFrame, receiveFrame, ntpFrame, Sequence
    <2>14. CASE StopRecorder
      BY <2>14, CalledFrom DEF StopRecorder, Workers, Quiet, Calling, Fresh, Joinable, Enter, Call,
          receiveVars, ntpVars, stopVars, appVars, quietVars, appFrame, receiveFrame, ntpFrame,
          Sequence, StopReturns, RecorderReturns, Unwinding
    <2>15. CASE Arm
      BY <2>15 DEF Arm, Workers, Quiet, Calling, Fresh, Joinable, Enter, Call, receiveVars, ntpVars,
          stopVars, appVars, quietVars, appFrame, receiveFrame, ntpFrame, Sequence
    <2>16. CASE LoopEnds
      BY <2>16 DEF LoopEnds, Workers, Quiet, Calling, Fresh, Joinable, Enter, Call, receiveVars,
          ntpVars, stopVars, appVars, quietVars, appFrame, receiveFrame, ntpFrame, Sequence
    <2>17. CASE Shutdown
      BY <2>17 DEF Shutdown, Workers, Quiet, Calling, Fresh, Joinable, Enter, Call, receiveVars,
          ntpVars, stopVars, appVars, quietVars, appFrame, receiveFrame, ntpFrame, Sequence
    <2>18. CASE Stopped
      BY <2>18 DEF Stopped, Workers, Quiet, Calling, Fresh, Joinable, Enter, Call, receiveVars,
          ntpVars, stopVars, appVars, quietVars, appFrame, receiveFrame, ntpFrame, Sequence
    <2>19. CASE Disconnect
      BY <2>19 DEF Disconnect, Workers, Quiet, Calling, Fresh, Joinable, Enter, Call, receiveVars,
          ntpVars, stopVars, appVars, quietVars, appFrame, receiveFrame, ntpFrame, Sequence
    <2>20. CASE Assess
      BY <2>20 DEF Assess, Workers, Quiet, Calling, Fresh, Joinable, Enter, Call, receiveVars,
          ntpVars, stopVars, appVars, quietVars, appFrame, receiveFrame, ntpFrame, Sequence
    <2> QED BY <1>7, <2>1, <2>2, <2>3, <2>4, <2>5, <2>6, <2>7, <2>8, <2>9, <2>10, <2>11, <2>12,
        <2>13, <2>14, <2>15, <2>16, <2>17, <2>18, <2>19, <2>20 DEF App
  <1>8. CASE Telemetry \/ RecorderWrites \/ RecorderFails \/ StopRequested \/ Done \/ UNCHANGED vars
    BY <1>1, <1>8 DEF Telemetry, RecorderWrites, RecorderFails, StopRequested, Done, appFrame,
        receiveFrame, ntpFrame, recorderFrame, ownerVars, deviceVars, stopVars, quietVars,
        receiveVars, ntpVars, appVars, vars
  <1> QED BY <1>2, <1>3, <1>4, <1>5, <1>6, <1>7, <1>8 DEF Next

----------------------------------------------------------------------------
(* What is known of the stop of the measurement. *)

(* The marks while a command sequence runs. *)
Marks(m) ==
    /\ m \in MeasurementType
    /\ job = "cleanup" => m.requested /\ m.cleanup /\ ~m.confirmed /\ ~m.error
    /\ job # "cleanup" => ~m.cleanup /\ ~m.attempted /\ ~m.confirmed /\ ~m.error

LEMMA MarksHold ==
    ASSUME Types, Sequence, Measurement, pc \in Commanding
    PROVE  Marks(ms) /\ Marks(Asked)
  <1>1. /\ job \in {"configure", "messages", "subscribe", "cleanup"} /\ ms \in MeasurementType
        /\ job = "cleanup" => Todo[i].name \in {"SetAccessMode", "LMCstopmeas"}
        /\ job # "cleanup" => Todo[i].name # "LMCstopmeas"
    BY Current DEF Types, StopTypes
  <1>2. Marks(ms)
    BY <1>1 DEF Marks, Measurement, Trying
  <1>3. Asked \in MeasurementType
    BY <1>1, AskedFields
  <1>4. CASE Todo[i].name = "LMCstartmeas"
    BY <1>1, <1>2, <1>3, <1>4, AskedFields DEF Marks
  <1>5. CASE Todo[i].name = "LMCstopmeas"
    BY <1>1, <1>2, <1>3, <1>5, AskedFields DEF Marks
  <1>6. CASE Todo[i].name \notin {"LMCstartmeas", "LMCstopmeas"}
    <2>1. Asked = ms
      BY <1>1, <1>6, AskedFields
    <2> QED BY <1>2, <2>1
  <1> QED BY <1>2, <1>4, <1>5, <1>6

LEMMA AfterMarks ==
    ASSUME Types, Sequence, pc \in {"ask", "reply"}, NEW outcome, NEW m, Marks(m),
           After(outcome, m)
    PROVE  Measurement'
  <1>1. pc \in Commanding
    BY DEF Commanding
  <1> USE DEF Marks, Measurement, Trying, Untouched, Settled, Calling
  <1>2. CASE Advances(outcome, m)
    BY <1>2 DEF Advances
  <1>3. CASE Finishes(outcome, m)
    BY <1>3 DEF Finishes
  <1>4. CASE Subscribes(outcome, m)
    BY <1>4 DEF Subscribes
  <1>5. CASE CleansUp(outcome, m)
    <2>1. pc' \in StopReturns /\ job' = "none" /\ i' = 0
      BY <1>5, CalledFrom DEF CleansUp
    <2>2. /\ ms' \in MeasurementType /\ ms'.requested = m.requested /\ ms'.cleanup = m.cleanup
          /\ ms'.attempted = m.attempted /\ (ms'.confirmed \/ ms'.error)
          /\ job = "cleanup"
      BY <1>5, CleansUpFields DEF CleansUp
    <2> QED BY <2>1, <2>2 DEF StopReturns
  <1>6. CASE Polls(outcome, m)
    BY <1>6 DEF Polls
  <1>7. CASE RollsBack(m)
    BY <1>7 DEF RollsBack
  <1>8. CASE StartFails(m)
    BY <1>8 DEF StartFails
  <1> QED BY <1>1, <1>2, <1>3, <1>4, <1>5, <1>6, <1>7, <1>8, AfterCases

LEMMA MethodMarks ==
    ASSUME Types, Sequence, Measurement, pc \in Calling, NEW ok \in BOOLEAN, MethodDone(ok)
    PROVE  Measurement'
  <1>1. /\ ms \in MeasurementType /\ ms.cleanup /\ ms.requested /\ ~ms.confirmed /\ ~ms.error
        /\ job = "streamed"
    BY DEF Measurement, Trying, Types, StopTypes, Sequence
  <1>2. CASE ok /\ i = 1
    BY <1>1, <1>2, MethodDoneFields DEF Measurement, Trying, Untouched, Settled, Calling
  <1>3. CASE ~(ok /\ i = 1)
    <2>1. ms'.cleanup /\ ms'.requested /\ (ms'.confirmed \/ ms'.error) /\ pc' = "clear" /\ job' = "none"
      BY <1>1, <1>3, MethodDoneFields
    <2> QED BY <2>1 DEF Measurement, Trying, Untouched, Settled, Calling
  <1> QED BY <1>2, <1>3

LEMMA MeasurementKept ==
    ASSUME Types, Sequence, Measurement, [Next]_vars
    PROVE  Measurement'
  <1>1. UNCHANGED <<pc, job, i, ms>> /\ (failed => failed') => Measurement'
    BY DEF Measurement, Trying
  <1>2. CASE Device
    BY <1>1, <1>2 DEF Device, DeviceAnswers, DeviceScans, appFrame, receiveFrame, ntpFrame,
        recorderFrame, ownerVars, deviceVars, stopVars, quietVars, receiveVars, ntpVars, appVars,
        vars
  <1>3. CASE Commands
    <2>1. CASE AskWritten
      <3>1. Marks(Asked) /\ pc' = "reply" /\ ms' = Asked /\ UNCHANGED <<job, i, failed>>
        /\ job \in {"configure", "messages", "subscribe", "cleanup"}
        BY <2>1, MarksHold DEF AskWritten, Commanding, Sequence, quietVars, appVars
      <3> QED BY <3>1 DEF Marks, Measurement, Trying, Untouched, Settled, Calling
    <2>2. CASE AskNotWritten
      BY <2>2, MarksHold, AfterMarks DEF AskNotWritten, Commanding
    <2>3. CASE ReplyRead
      BY <2>3, MarksHold, AfterMarks DEF ReplyRead, Commanding
    <2>4. CASE ReplyTimesOut
      BY <2>4, MarksHold, AfterMarks DEF ReplyTimesOut, Commanding
    <2>5. CASE ReplyLost
      BY <2>5, MarksHold, AfterMarks DEF ReplyLost, Commanding
    <2>6. CASE PollAgain
      BY <2>6 DEF PollAgain, Measurement, Trying, Untouched, Settled, Calling, Enter, Call,
          Sequence, Commanding, appFrame, stopVars, quietVars, appVars
    <2>7. CASE ReadyDeadline
      BY <2>7 DEF ReadyDeadline, Measurement, Trying, Untouched, Settled, Calling, Enter, Call,
          Sequence, Commanding, appFrame, stopVars, quietVars, appVars
    <2>8. CASE Probe
      BY <2>8, MarksHold, AfterMarks DEF Probe, Commanding
    <2>9. CASE StopMeasurement
      <3>1. CASE Pending
        <4>1. /\ ms'.requested = ms.requested /\ ms'.cleanup = TRUE /\ ms'.attempted = ms.attempted
              /\ ms'.confirmed = ms.confirmed /\ ms'.error = ms.error
          BY <2>9, <3>1, CleanupFields DEF StopMeasurement, Types, StopTypes
        <4> QED BY <2>9, <3>1, <4>1 DEF StopMeasurement, Pending, Measurement, Trying, Untouched,
            Settled,
              Calling, Commanding, Sequence
      <3>2. CASE ~Pending
        <4>1. pc' \in StopReturns /\ job' = "none" /\ i' = 0 /\ ms' = ms
          BY <2>9, <3>2, CalledFrom DEF StopMeasurement, Unwinding
        <4> QED BY <2>9, <3>2, <4>1 DEF StopMeasurement, Pending, Measurement, Trying, Untouched,
            Settled,
              Calling, Commanding, Sequence, StopReturns
      <3> QED BY <3>1, <3>2
    <2>10. CASE Reconnect
      <3>1. CASE Return /\ ms' = [ms EXCEPT !.error = TRUE]
        <4>1. /\ ms'.requested = ms.requested /\ ms'.cleanup = ms.cleanup
              /\ ms'.attempted = ms.attempted /\ ms'.confirmed = ms.confirmed /\ ms'.error = TRUE
          BY <3>1, ErrorFields DEF Types, StopTypes
        <4>2. pc' \in StopReturns /\ job' = "none" /\ i' = 0
          BY <2>10, <3>1, CalledFrom DEF Reconnect, Unwinding
        <4> QED BY <2>10, <4>1, <4>2 DEF Reconnect, Measurement, Trying, Untouched, Settled,
              Calling, StopReturns
      <3>2. CASE pc' = "ask" /\ UNCHANGED <<job, i, ms>>
        BY <2>10, <3>2 DEF Reconnect, Measurement, Trying, Untouched, Settled, Calling, Sequence
      <3> QED BY <2>10, <3>1, <3>2 DEF Reconnect
    <2> QED BY <1>3, <2>1, <2>2, <2>3, <2>4, <2>5, <2>6, <2>7, <2>8, <2>9, <2>10 DEF Commands
  <1>4. CASE Stopping
    <2>1. CASE StopScanning
      BY <2>1 DEF StopScanning, Measurement, Trying, Untouched, Settled, Calling, Enter, Call,
          Sequence, Commanding, appFrame, stopVars, quietVars, appVars
    <2>2. CASE StopStream
      BY <2>2 DEF StopStream, Measurement, Trying, Untouched, Settled, Calling, Enter, Call,
          Sequence, Commanding, appFrame, stopVars, quietVars, appVars
    <2>3. CASE StreamedStop
      <3>1. CASE Pending
        <4>1. /\ ms'.requested = ms.requested /\ ms'.cleanup = TRUE /\ ms'.attempted = ms.attempted
              /\ ms'.confirmed = ms.confirmed /\ ms'.error = ms.error
          BY <2>3, <3>1, CleanupFields DEF StreamedStop, Types, StopTypes
        <4> QED BY <2>3, <3>1, <4>1 DEF StreamedStop, Pending, Measurement, Trying, Untouched,
            Settled,
              Calling, Commanding, Sequence
      <3>2. CASE ~Pending
        BY <2>3, <3>2 DEF StreamedStop, Pending, Measurement, Trying, Untouched, Settled, Calling,
              Commanding, Sequence
      <3> QED BY <3>1, <3>2
    <2>4. CASE ClearSlot
      BY <2>4 DEF ClearSlot, Measurement, Trying, Untouched, Settled, Calling, Enter, Call,
          Sequence, Commanding, appFrame, stopVars, quietVars, appVars
    <2>5. CASE WriteMethod
      BY <2>5 DEF WriteMethod, Measurement, Trying, Untouched, Settled, Calling, Enter, Call,
          Sequence, Commanding, appFrame, stopVars, quietVars, appVars
    <2>6. CASE MethodNotSent
      BY <2>6, MethodMarks DEF MethodNotSent, Calling
    <2>7. CASE MethodAnswered
      <3>1. PICK ok \in BOOLEAN : MethodDone(ok)
        BY <2>7 DEF MethodAnswered
      <3> QED BY <2>7, <3>1, MethodMarks DEF MethodAnswered, Calling
    <2>8. CASE MethodTimesOut
      BY <2>8, MethodMarks DEF MethodTimesOut, Calling
    <2>9. CASE ClearFlags
      BY <2>9 DEF ClearFlags, Measurement, Trying, Untouched, Settled, Calling, Enter, Call,
          Sequence, Commanding, appFrame, stopVars, quietVars, appVars
    <2>10. CASE ShutdownReceive
      BY <2>10 DEF ShutdownReceive, Measurement, Trying, Untouched, Settled, Calling, Enter, Call,
          Sequence, Commanding, appFrame, stopVars, quietVars, appVars
    <2>11. CASE JoinNtp
      BY <2>11 DEF JoinNtp, Measurement, Trying, Untouched, Settled, Calling, Enter, Call, Sequence,
          Commanding, appFrame, stopVars, quietVars, appVars
    <2>12. CASE JoinReceive
      BY <2>12 DEF JoinReceive, Measurement, Trying, Untouched, Settled, Calling, Enter, Call,
          Sequence, Commanding, appFrame, stopVars, quietVars, appVars
    <2> QED BY <1>4, <2>1, <2>2, <2>3, <2>4, <2>5, <2>6, <2>7, <2>8, <2>9, <2>10, <2>11, <2>12 DEF
        Stopping
  <1>5. CASE Receive
    BY <1>1, <1>5 DEF Receive, CheckRunning, ReceiveFrame, ReceiveNothing, ReceiveError,
        LeaveReceive, appFrame, receiveFrame, ntpFrame, recorderFrame, ownerVars, deviceVars,
        stopVars, quietVars, receiveVars, ntpVars, appVars, vars
  <1>6. CASE NtpWatch
    BY <1>1, <1>6 DEF NtpWatch, NtpSleep, NtpProbe, NtpJudge, NtpFault, appFrame, receiveFrame,
        ntpFrame, recorderFrame, ownerVars, deviceVars, stopVars, quietVars, receiveVars, ntpVars,
        appVars, vars
  <1>7. CASE App
    <2>1. CASE InitStopped
      BY <2>1 DEF InitStopped, Measurement, Trying, Untouched, Settled, Calling, Enter, Call,
          Sequence, Commanding, appFrame, stopVars, quietVars, appVars
    <2>2. CASE Connect
      BY <2>2 DEF Connect, Measurement, Trying, Untouched, Settled, Calling, Enter, Call, Sequence,
          Commanding, appFrame, stopVars, quietVars, appVars
    <2>3. CASE Configure
      BY <2>3 DEF Configure, Measurement, Trying, Untouched, Settled, Calling, Enter, Call,
          Sequence, Commanding, appFrame, stopVars, quietVars, appVars
    <2>4. CASE ConfigureFailed
      BY <2>4 DEF ConfigureFailed, Measurement, Trying, Untouched, Settled, Calling, Enter, Call,
          Sequence, Commanding, appFrame, stopVars, quietVars, appVars
    <2>5. CASE InitDisconnect
      BY <2>5 DEF InitDisconnect, Measurement, Trying, Untouched, Settled, Calling, Enter, Call,
          Sequence, Commanding, appFrame, stopVars, quietVars, appVars
    <2>6. CASE InitEnds
      BY <2>6 DEF InitEnds, Measurement, Trying, Untouched, Settled, Calling, Enter, Call, Sequence,
          Commanding, appFrame, stopVars, quietVars, appVars
    <2>7. CASE RunRefused
      BY <2>7 DEF RunRefused, Measurement, Trying, Untouched, Settled, Calling, Enter, Call,
          Sequence, Commanding, appFrame, stopVars, quietVars, appVars
    <2>8. CASE StartRecorder
      BY <2>8 DEF StartRecorder, Measurement, Trying, Untouched, Settled, Calling, Enter, Call,
          Sequence, Commanding, appFrame, stopVars, quietVars, appVars
    <2>9. CASE StartScanning
      BY <2>9 DEF StartScanning, Measurement, Trying, Untouched, Settled, Calling, Enter, Call,
          Sequence, Commanding, appFrame, stopVars, quietVars, appVars
    <2>10. CASE SpawnReceive
      BY <2>10 DEF SpawnReceive, Measurement, Trying, Untouched, Settled, Calling, Enter, Call,
          Sequence, Commanding, appFrame, stopVars, quietVars, appVars
    <2>11. CASE SpawnNtp
      BY <2>11 DEF SpawnNtp, Measurement, Trying, Untouched, Settled, Calling, Enter, Call,
          Sequence, Commanding, appFrame, stopVars, quietVars, appVars
    <2>12. CASE StartFailed
      BY <2>12 DEF StartFailed, Measurement, Trying, Untouched, Settled, Calling, Enter, Call,
          Sequence, Commanding, appFrame, stopVars, quietVars, appVars
    <2>13. CASE GiveUp
      BY <2>13 DEF GiveUp, Measurement, Trying, Untouched, Settled, Calling, Enter, Call, Sequence,
          Commanding, appFrame, stopVars, quietVars, appVars
    <2>14. CASE StopRecorder
      BY <2>14, CalledFrom DEF StopRecorder, RecorderReturns, Measurement, Trying, Untouched,
          Settled, Calling, Enter, Call, Sequence, Commanding, appFrame, stopVars, quietVars,
          appVars
    <2>15. CASE Arm
      BY <2>15 DEF Arm, Measurement, Trying, Untouched, Settled, Calling, Enter, Call, Sequence,
          Commanding, appFrame, stopVars, quietVars, appVars
    <2>16. CASE LoopEnds
      BY <2>16 DEF LoopEnds, Measurement, Trying, Untouched, Settled, Calling, Enter, Call,
          Sequence, Commanding, appFrame, stopVars, quietVars, appVars
    <2>17. CASE Shutdown
      BY <2>17 DEF Shutdown, Measurement, Trying, Untouched, Settled, Calling, Enter, Call,
          Sequence, Commanding, appFrame, stopVars, quietVars, appVars
    <2>18. CASE Stopped
      BY <2>18 DEF Stopped, Measurement, Trying, Untouched, Settled, Calling, Enter, Call, Sequence,
          Commanding, appFrame, stopVars, quietVars, appVars
    <2>19. CASE Disconnect
      BY <2>19 DEF Disconnect, Measurement, Trying, Untouched, Settled, Calling, Enter, Call,
          Sequence, Commanding, appFrame, stopVars, quietVars, appVars
    <2>20. CASE Assess
      BY <2>20 DEF Assess, Measurement, Trying, Untouched, Settled, Calling, Enter, Call, Sequence,
          Commanding, appFrame, stopVars, quietVars, appVars
    <2> QED BY <1>7, <2>1, <2>2, <2>3, <2>4, <2>5, <2>6, <2>7, <2>8, <2>9, <2>10, <2>11, <2>12,
        <2>13, <2>14, <2>15, <2>16, <2>17, <2>18, <2>19, <2>20 DEF App
  <1>8. CASE Telemetry \/ StopRequested
    <2>1. UNCHANGED <<pc, job, i, ms, failed>>
      BY <1>8 DEF Telemetry, StopRequested, ownerVars, stopVars, appVars, appFrame
    <2> QED BY <1>1, <2>1
  <1>9. CASE RecorderWrites \/ RecorderFails
    <2>1. UNCHANGED <<pc, job, i, ms, failed>>
      BY <1>9 DEF RecorderWrites, RecorderFails, ownerVars, stopVars, appVars, recorderFrame
    <2> QED BY <1>1, <2>1
  <1>10. CASE Done \/ UNCHANGED vars
    <2>1. UNCHANGED <<pc, job, i, ms, failed>>
      BY <1>10 DEF Done, ownerVars, stopVars, appVars, vars
    <2> QED BY <1>1, <2>1
  <1> QED BY <1>2, <1>3, <1>4, <1>5, <1>6, <1>7, <1>8, <1>9, <1>10 DEF Next

----------------------------------------------------------------------------
(* What a step changes between owner and scanner, and what that leaves of the
   order of the answers. *)

Sends == \E name \in Names, answer \in Answers \ {"sSN", "sFA", "cut"} : Adds(name, answer)
Answered == \E ok \in BOOLEAN : Executes(ok)
Reopens == Renews /\ (Connect \/ Reconnect)
Effect == Keeps \/ Sends \/ Takes \/ Drops \/ Reopens \/ Answered \/ Scans

LEMMA EffectOfStep ==
    ASSUME Types, Sequence, [Next]_vars
    PROVE  Effect
  <1> USE DEF Types, Effect
  <1>1. UNCHANGED deviceVars => Effect
    BY DEF deviceVars, Keeps
  <1>2. CASE Device
    <2>1. CASE DeviceAnswers
      BY <2>1, AnswersExecute DEF Answered
    <2>2. CASE DeviceScans
      BY <2>2, ScansAdd
    <2> QED BY <1>2, <2>1, <2>2 DEF Device
  <1>3. CASE Commands
    <2>1. CASE AskWritten
      <3>1. Adds(Todo[i].name, Todo[i].answer)
        BY <2>1, AskWrittenAdds
      <3>2. Todo[i].name \in Names /\ Todo[i].answer \in Answers \ {"sSN", "sFA", "cut"}
        BY <2>1, Current DEF AskWritten, Commanding, CommandType
      <3> QED BY <3>1, <3>2 DEF Sends
    <2>2. CASE AskNotWritten
      BY <2>2, NotWrittenKeeps DEF AskNotWritten, NotWritten
    <2>3. CASE ReplyRead
      BY <2>3, ReplyTakes
    <2>4. CASE ReplyTimesOut
      BY <2>4, TimeoutExecutes DEF Answered
    <2>5. CASE ReplyLost
      BY <2>5, EmptyDrops DEF ReplyLost
    <2>6. CASE Reconnect
      BY <2>6, ConnectionRenews DEF Reconnect, Reopens
    <2>7. CASE PollAgain \/ ReadyDeadline \/ Probe \/ StopMeasurement
      BY <1>1, <2>7 DEF PollAgain, ReadyDeadline, Probe, StopMeasurement, appFrame, receiveFrame,
          ntpFrame, recorderFrame, ownerVars, deviceVars, stopVars, quietVars, receiveVars, ntpVars,
          appVars, vars
    <2> QED BY <1>3, <2>1, <2>2, <2>3, <2>4, <2>5, <2>6, <2>7 DEF Commands
  <1>4. CASE Stopping
    <2>1. CASE StopStream
      BY <2>1, StopStreamAdds DEF Sends, Names, Answers
    <2>2. CASE WriteMethod
      <3>1. Adds(Method.name, Method.answer) /\ i \in {1, 2}
        BY <2>2, WriteMethodAdds
      <3>2. Method.name \in Names /\ Method.answer \in Answers \ {"sSN", "sFA", "cut"}
        BY <3>1, MethodFields DEF CommandType, Answers
      <3> QED BY <3>1, <3>2 DEF Sends
    <2>3. CASE MethodNotSent
      BY <2>3, NotWrittenKeeps DEF MethodNotSent, NotWritten
    <2>4. CASE ShutdownReceive
      BY <2>4, NotWrittenKeeps DEF ShutdownReceive
    <2>5. CASE StopScanning \/ StreamedStop \/ ClearSlot \/ MethodAnswered \/ MethodTimesOut \/
        ClearFlags \/ JoinNtp \/ JoinReceive
      BY <1>1, <2>5 DEF StopScanning, StreamedStop, ClearSlot, MethodAnswered, MethodTimesOut,
          ClearFlags, JoinNtp, JoinReceive, appFrame, receiveFrame, ntpFrame, recorderFrame,
          ownerVars, deviceVars, stopVars, quietVars, receiveVars, ntpVars, appVars, vars
    <2> QED BY <1>4, <2>1, <2>2, <2>3, <2>4, <2>5 DEF Stopping
  <1>5. CASE Receive
    <2>1. CASE ReceiveFrame
      BY <2>1, TailTakes DEF ReceiveFrame, receiveFrame
    <2>2. CASE ReceiveError
      BY <2>2, NotWrittenKeeps DEF ReceiveError, receiveFrame
    <2>3. CASE CheckRunning \/ ReceiveNothing \/ LeaveReceive
      BY <1>1, <2>3 DEF CheckRunning, ReceiveNothing, LeaveReceive, appFrame, receiveFrame,
          ntpFrame, recorderFrame, ownerVars, deviceVars, stopVars, quietVars, receiveVars, ntpVars,
          appVars, vars
    <2> QED BY <1>5, <2>1, <2>2, <2>3 DEF Receive
  <1>6. CASE NtpWatch
    BY <1>1, <1>6 DEF NtpWatch, NtpSleep, NtpProbe, NtpJudge, NtpFault, appFrame, receiveFrame,
        ntpFrame, recorderFrame, ownerVars, deviceVars, stopVars, quietVars, receiveVars, ntpVars,
        appVars, vars
  <1>7. CASE App
    <2>1. CASE Connect
      BY <2>1, ConnectionRenews DEF Connect, Reopens
    <2>2. CASE InitDisconnect
      BY <2>2, EmptyDrops DEF InitDisconnect
    <2>3. CASE Assess
      BY <2>3, EmptyDrops DEF Assess
    <2>4. CASE InitStopped \/ Configure \/ ConfigureFailed \/ InitEnds \/ RunRefused \/
        StartRecorder \/ StartScanning \/ SpawnReceive \/ SpawnNtp \/ StartFailed \/ GiveUp \/
        StopRecorder \/ Arm \/ LoopEnds \/ Shutdown \/ Stopped \/ Disconnect
      BY <1>1, <2>4 DEF InitStopped, Configure, ConfigureFailed, InitEnds, RunRefused,
          StartRecorder, StartScanning, SpawnReceive, SpawnNtp, StartFailed, GiveUp, StopRecorder,
          Arm, LoopEnds, Shutdown, Stopped, Disconnect, appFrame, receiveFrame, ntpFrame,
          recorderFrame, ownerVars, deviceVars, stopVars, quietVars, receiveVars, ntpVars, appVars,
          vars
    <2> QED BY <1>7, <2>1, <2>2, <2>3, <2>4 DEF App
  <1>8. CASE Telemetry
    BY <1>8, TelemetryAdds DEF Sends, Names, Answers
  <1>9. CASE RecorderWrites \/ RecorderFails \/ StopRequested \/ Done \/ UNCHANGED vars
    BY <1>1, <1>9 DEF RecorderWrites, RecorderFails, StopRequested, Done, appFrame, receiveFrame,
        ntpFrame, recorderFrame, ownerVars, deviceVars, stopVars, quietVars, receiveVars, ntpVars,
        appVars, vars
  <1> QED BY <1>2, <1>3, <1>4, <1>5, <1>6, <1>7, <1>8, <1>9 DEF Next

(* The stop is marked once and for all, and it is what leads to a new connection. *)
Persists ==
    /\ ms.cleanup => ms'.cleanup /\ (pc' = "reconnect" => pc = "reconnect")
    /\ pc' = "init" => pc = "init"

LEMMA AfterPersists ==
    ASSUME Types, Sequence, Measurement, pc \in {"ask", "reply"}, NEW outcome, NEW m, Marks(m),
           After(outcome, m)
    PROVE  Persists
  <1>1. pc \in Commanding
    BY DEF Commanding
  <1>2. Marks(ms)
    BY <1>1, MarksHold
  <1>3. CASE CleansUp(outcome, m)
    <2>1. pc' \in StopReturns
      BY <1>3, CalledFrom DEF CleansUp
    <2>2. ms'.cleanup = m.cleanup /\ job = "cleanup"
      BY <1>3, CleansUpFields DEF CleansUp, Marks
    <2> QED BY <2>1, <2>2 DEF Marks, Persists, StopReturns
  <1>4. CASE ms' = m /\ pc' \in {"ask", "configured", "spawn", "ready", "rollback", "stopScanning"}
    BY <1>2, <1>4 DEF Marks, Persists
  <1> QED BY <1>1, <1>3, <1>4, AfterCases
      DEF Advances, Finishes, Subscribes, Polls, RollsBack, StartFails

LEMMA StepPersists ==
    ASSUME Types, Sequence, Measurement, [Next]_vars
    PROVE  Persists
  <1>1. UNCHANGED <<pc, ms>> => Persists
    BY DEF Persists
  <1>2. CASE Device
    BY <1>1, <1>2 DEF Device, DeviceAnswers, DeviceScans, appFrame, receiveFrame, ntpFrame,
        recorderFrame, ownerVars, deviceVars, stopVars, quietVars, receiveVars, ntpVars, appVars,
        vars
  <1>3. CASE Commands
    <2>1. CASE AskWritten
      BY <2>1, MarksHold DEF AskWritten, Commanding, Sequence, Marks, Persists
    <2>2. CASE AskNotWritten
      BY <2>2, MarksHold, AfterPersists DEF AskNotWritten, Commanding
    <2>3. CASE ReplyRead
      BY <2>3, MarksHold, AfterPersists DEF ReplyRead, Commanding
    <2>4. CASE ReplyTimesOut
      BY <2>4, MarksHold, AfterPersists DEF ReplyTimesOut, Commanding
    <2>5. CASE ReplyLost
      BY <2>5, MarksHold, AfterPersists DEF ReplyLost, Commanding
    <2>6. CASE PollAgain
      BY <2>6 DEF PollAgain, Persists, Enter, Call, appFrame, stopVars
    <2>7. CASE ReadyDeadline
      BY <2>7 DEF ReadyDeadline, Persists, Enter, Call, appFrame, stopVars
    <2>8. CASE Probe
      BY <2>8, MarksHold, AfterPersists DEF Probe, Commanding
    <2>9. CASE StopMeasurement
      <3>1. CASE Pending
        BY <2>9, <3>1, CleanupFields DEF StopMeasurement, Types, StopTypes, Pending, Persists
      <3>2. CASE ~Pending
        BY <2>9, <3>2, CalledFrom DEF StopMeasurement, Unwinding, Persists, StopReturns
      <3> QED BY <3>1, <3>2
    <2>10. CASE Reconnect
      BY <2>10, ErrorFields, CalledFrom DEF Reconnect, Types, StopTypes, Persists, Unwinding,
          StopReturns
    <2> QED BY <1>3, <2>1, <2>2, <2>3, <2>4, <2>5, <2>6, <2>7, <2>8, <2>9, <2>10 DEF Commands
  <1>4. CASE Stopping
    <2>1. CASE StopScanning
      BY <2>1 DEF StopScanning, Persists, Enter, Call, appFrame, stopVars
    <2>2. CASE StopStream
      BY <2>2 DEF StopStream, Persists, Enter, Call, appFrame, stopVars
    <2>3. CASE StreamedStop
      BY <2>3, CleanupFields DEF StreamedStop, Types, StopTypes, Persists
    <2>4. CASE ClearSlot
      BY <2>4 DEF ClearSlot, Persists, Enter, Call, appFrame, stopVars
    <2>5. CASE WriteMethod
      BY <2>5 DEF WriteMethod, Persists, Enter, Call, appFrame, stopVars
    <2>6. CASE MethodNotSent
      BY <2>6, MethodDoneFields DEF MethodNotSent, Types, StopTypes, Persists
    <2>7. CASE MethodAnswered
      BY <2>7, MethodDoneFields DEF MethodAnswered, Types, StopTypes, Persists
    <2>8. CASE MethodTimesOut
      BY <2>8, MethodDoneFields DEF MethodTimesOut, Types, StopTypes, Persists
    <2>9. CASE ClearFlags
      BY <2>9 DEF ClearFlags, Persists, Enter, Call, appFrame, stopVars
    <2>10. CASE ShutdownReceive
      BY <2>10 DEF ShutdownReceive, Persists, Enter, Call, appFrame, stopVars
    <2>11. CASE JoinNtp
      BY <2>11 DEF JoinNtp, Persists, Enter, Call, appFrame, stopVars
    <2>12. CASE JoinReceive
      BY <2>12 DEF JoinReceive, Persists, Enter, Call, appFrame, stopVars
    <2> QED BY <1>4, <2>1, <2>2, <2>3, <2>4, <2>5, <2>6, <2>7, <2>8, <2>9, <2>10, <2>11, <2>12 DEF
        Stopping
  <1>5. CASE Receive
    BY <1>1, <1>5 DEF Receive, CheckRunning, ReceiveFrame, ReceiveNothing, ReceiveError,
        LeaveReceive, appFrame, receiveFrame, ntpFrame, recorderFrame, ownerVars, deviceVars,
        stopVars, quietVars, receiveVars, ntpVars, appVars, vars
  <1>6. CASE NtpWatch
    BY <1>1, <1>6 DEF NtpWatch, NtpSleep, NtpProbe, NtpJudge, NtpFault, appFrame, receiveFrame,
        ntpFrame, recorderFrame, ownerVars, deviceVars, stopVars, quietVars, receiveVars, ntpVars,
        appVars, vars
  <1>7. CASE App
    <2>1. CASE InitStopped
      BY <2>1 DEF InitStopped, Persists, Enter, Call, appFrame, stopVars
    <2>2. CASE Connect
      BY <2>2 DEF Connect, Persists, Enter, Call, appFrame, stopVars
    <2>3. CASE Configure
      BY <2>3 DEF Configure, Persists, Enter, Call, appFrame, stopVars
    <2>4. CASE ConfigureFailed
      BY <2>4 DEF ConfigureFailed, Persists, Enter, Call, appFrame, stopVars
    <2>5. CASE InitDisconnect
      BY <2>5 DEF InitDisconnect, Persists, Enter, Call, appFrame, stopVars
    <2>6. CASE InitEnds
      BY <2>6 DEF InitEnds, Persists, Enter, Call, appFrame, stopVars
    <2>7. CASE RunRefused
      BY <2>7 DEF RunRefused, Persists, Enter, Call, appFrame, stopVars
    <2>8. CASE StartRecorder
      BY <2>8 DEF StartRecorder, Persists, Enter, Call, appFrame, stopVars
    <2>9. CASE StartScanning
      BY <2>9 DEF StartScanning, Persists, Enter, Call, appFrame, stopVars
    <2>10. CASE SpawnReceive
      BY <2>10 DEF SpawnReceive, Persists, Enter, Call, appFrame, stopVars
    <2>11. CASE SpawnNtp
      BY <2>11 DEF SpawnNtp, Persists, Enter, Call, appFrame, stopVars
    <2>12. CASE StartFailed
      BY <2>12 DEF StartFailed, Persists, Enter, Call, appFrame, stopVars
    <2>13. CASE GiveUp
      BY <2>13 DEF GiveUp, Persists, Enter, Call, appFrame, stopVars
    <2>14. CASE StopRecorder
      BY <2>14, CalledFrom DEF StopRecorder, RecorderReturns, Persists, Enter, Call, appFrame,
          stopVars
    <2>15. CASE Arm
      BY <2>15 DEF Arm, Persists, Enter, Call, appFrame, stopVars
    <2>16. CASE LoopEnds
      BY <2>16 DEF LoopEnds, Persists, Enter, Call, appFrame, stopVars
    <2>17. CASE Shutdown
      BY <2>17 DEF Shutdown, Persists, Enter, Call, appFrame, stopVars
    <2>18. CASE Stopped
      BY <2>18 DEF Stopped, Persists, Enter, Call, appFrame, stopVars
    <2>19. CASE Disconnect
      BY <2>19 DEF Disconnect, Persists, Enter, Call, appFrame, stopVars
    <2>20. CASE Assess
      BY <2>20 DEF Assess, Persists, Enter, Call, appFrame, stopVars
    <2> QED BY <1>7, <2>1, <2>2, <2>3, <2>4, <2>5, <2>6, <2>7, <2>8, <2>9, <2>10, <2>11, <2>12,
        <2>13, <2>14, <2>15, <2>16, <2>17, <2>18, <2>19, <2>20 DEF App
  <1>8. CASE Telemetry
    BY <1>1, <1>8 DEF Telemetry, ownerVars, stopVars, recorderFrame, appFrame, appVars, vars
  <1>9. CASE RecorderWrites
    BY <1>1, <1>9 DEF RecorderWrites, ownerVars, stopVars, recorderFrame, appFrame, appVars, vars
  <1>10. CASE RecorderFails
    BY <1>1, <1>10 DEF RecorderFails, ownerVars, stopVars, recorderFrame, appFrame, appVars, vars
  <1>11. CASE StopRequested
    BY <1>1, <1>11 DEF StopRequested, ownerVars, stopVars, recorderFrame, appFrame, appVars, vars
  <1>12. CASE Done
    BY <1>1, <1>12 DEF Done, ownerVars, stopVars, recorderFrame, appFrame, appVars, vars
  <1>13. CASE UNCHANGED vars
    BY <1>1, <1>13 DEF appFrame, receiveFrame, ntpFrame, recorderFrame, ownerVars, deviceVars,
        stopVars, quietVars, receiveVars, ntpVars, appVars, vars
  <1> QED BY <1>2, <1>3, <1>4, <1>5, <1>6, <1>7, <1>8, <1>9, <1>10, <1>11, <1>12, <1>13 DEF Next

LEMMA ConnectionsKept ==
    ASSUME Types, Sequence, Measurement, Connections, [Next]_vars
    PROVE  Connections'
  <1>1. /\ link \in LinkType /\ inbox \in Seq(InboxItem) /\ dev \in DeviceType /\ link.conn \in Nat
        /\ Len(inbox) \in Nat /\ \A k \in 1 .. Len(inbox) : inbox[k] \in InboxItem
        /\ dev.loggedIn \in Nat
    BY LinkFields, LenProperties, ElementOfSeq DEF Types, DeviceTypes, DeviceType
  <1>2. /\ DeviceTypes' /\ Effect /\ Persists
    BY DeviceTypesKept, EffectOfStep, StepPersists
  <1>3. /\ link.conn <= 2 /\ (link.conn = 2 => ms.cleanup /\ pc # "reconnect")
        /\ pc = "init" => link.conn = 0
        /\ dev.loggedIn <= link.conn /\ \A k \in 1 .. Len(inbox) : inbox[k].conn <= link.conn
    BY DEF Connections
  <1>4. CASE Reopens
    <2>1. link'.conn = link.conn + 1 /\ inbox' = inbox /\ dev' = dev
      BY <1>4 DEF Reopens, Renews
    <2>4. /\ dev'.loggedIn <= link'.conn
          /\ \A k \in 1 .. Len(inbox') : inbox'[k].conn <= link'.conn
      <3>1. \A k \in 1 .. Len(inbox) : inbox[k].conn \in Nat
        BY <1>1 DEF InboxItem
      <3> QED BY <1>1, <1>3, <2>1, <3>1
    <2>2. CASE Connect
      <3>1. pc = "init" /\ pc' # "init" /\ pc' # "reconnect"
        BY <2>2 DEF Connect, Enter
      <3> QED BY <1>1, <1>3, <2>1, <2>4, <3>1 DEF Connections
    <2>3. CASE Reconnect
      <3>1. pc = "reconnect" /\ ms.cleanup /\ pc' # "reconnect" /\ pc' # "init"
        BY <2>3, CalledFrom DEF Reconnect, Measurement, Trying, Unwinding, StopReturns
      <3>2. ms'.cleanup
        BY <1>2, <3>1 DEF Persists
      <3> QED BY <1>1, <1>3, <2>1, <2>4, <3>1, <3>2 DEF Connections
    <2> QED BY <1>4, <2>2, <2>3 DEF Reopens
  <1>5. ASSUME link'.conn = link.conn, dev'.loggedIn <= link.conn,
               \A k \in 1 .. Len(inbox') : inbox'[k].conn <= link.conn
        PROVE  Connections'
    BY <1>1, <1>2, <1>3, <1>5 DEF Connections, Persists
  <1>6. CASE Keeps \/ Takes \/ Scans
    BY <1>3, <1>5, <1>6 DEF Keeps, Takes, Scans
  <1>7. CASE Drops
    BY <1>3, <1>5, <1>7 DEF Drops
  <1>8. CASE Sends
    <2>1. PICK name, answer : Adds(name, answer)
      BY <1>8 DEF Sends
    <2>2. \A k \in 1 .. Len(inbox') : inbox'[k].conn <= link.conn
      BY <1>1, <1>3, <2>1 DEF Adds
    <2> QED BY <1>3, <1>5, <2>1, <2>2 DEF Adds
  <1>9. CASE Answered
    <2>1. PICK ok \in BOOLEAN : Executes(ok)
      BY <1>9 DEF Answered
    <2>2. /\ Len(inbox) >= 1 /\ Len(inbox') = Len(inbox) - 1
          /\ \A k \in 1 .. Len(inbox') : inbox'[k] = inbox[k + 1]
          /\ link'.conn = link.conn /\ dev' = Executed(inbox[1], ok)
      BY <2>1 DEF Executes
    <2>3. \A k \in 1 .. Len(inbox') : inbox'[k].conn <= link.conn
      BY <1>1, <1>3, <2>2
    <2>4. inbox[1] \in InboxItem /\ inbox[1].conn <= link.conn
      BY <1>1, <1>3, <2>2
    <2>5. dev'.loggedIn \in {inbox[1].conn, 0, dev.loggedIn}
      BY <1>1, <2>2, <2>4, ExecutedFields
    <2>6. dev'.loggedIn <= link.conn
      BY <1>1, <1>3, <2>4, <2>5
    <2> QED BY <1>5, <2>2, <2>3, <2>6
  <1> QED BY <1>2, <1>4, <1>6, <1>7, <1>8, <1>9 DEF Effect

(* Only the last command is not stale, whatever the step. *)
LEMMA OrderedKept ==
    ASSUME Types, Connections, Ordered, Effect
    PROVE  Ordered'
  <1>1. /\ link \in LinkType /\ inbox \in Seq(InboxItem) /\ link.conn \in Nat
        /\ Len(inbox) \in Nat /\ Len(link.wire) \in Nat
    BY LinkFields, LenProperties DEF Types, DeviceTypes
  <1>2. CASE Keeps
    BY <1>2 DEF Keeps, Ordered
  <1>3. CASE Sends
    <2>1. PICK name \in Names, answer \in Answers \ {"sSN", "sFA", "cut"} : Adds(name, answer)
      BY <1>3 DEF Sends
    <2>2. \A k \in 1 .. Len(inbox') : k < Len(inbox') => inbox'[k].stale
      BY <1>1, <2>1 DEF Adds
    <2>3. \A k \in 1 .. Len(inbox') : inbox'[k].answer \notin {"sSN", "sFA", "cut"}
      BY <1>1, <2>1 DEF Adds, Ordered
    <2>4. \A j \in 1 .. Len(link'.wire) : link'.wire[j].stale
      BY <1>1, <2>1 DEF Adds
    <2> QED BY <2>2, <2>3, <2>4 DEF Ordered
  <1>4. CASE Takes
    <2>1. /\ link'.conn = link.conn /\ inbox' = inbox /\ Len(link'.wire) = Len(link.wire) - 1
          /\ \A k \in 1 .. Len(link'.wire) :
                k + 1 \in 1 .. Len(link.wire) /\ link'.wire[k] = link.wire[k + 1]
      BY <1>1, <1>4 DEF Takes
    <2>2. \A j \in 1 .. Len(link'.wire), k \in 1 .. Len(inbox) :
             inbox[k].conn = link.conn => link'.wire[j].stale \/ link'.wire[j].answer = "sSN"
      BY <2>1 DEF Ordered
    <2>3. \A j, k \in 1 .. Len(link'.wire) :
             j < k => \/ link'.wire[j].stale \/ link'.wire[j].answer = "sSN"
                      \/ link'.wire[k].answer = "sSN"
      <3> TAKE j, k \in 1 .. Len(link'.wire)
      <3> HAVE j < k
      <3>1. j + 1 \in 1 .. Len(link.wire) /\ link'.wire[j] = link.wire[j + 1]
        BY <2>1
      <3>2. k + 1 \in 1 .. Len(link.wire) /\ link'.wire[k] = link.wire[k + 1]
        BY <2>1
      <3>3. j + 1 < k + 1
        OBVIOUS
      <3> QED BY <3>1, <3>2, <3>3 DEF Ordered
    <2> QED BY <2>1, <2>2, <2>3 DEF Ordered
  <1>5. CASE Drops
    BY <1>5 DEF Drops, Ordered
  <1>6. CASE Reopens
    BY <1>6 DEF Reopens, Renews, Ordered
  <1>7. CASE Scans
    <2>1. Scan.answer = "sSN"
      BY DEF Scan
    <2>2. /\ link'.conn = link.conn /\ inbox' = inbox /\ Len(link'.wire) = Len(link.wire) + 1
          /\ \A k \in 1 .. Len(link.wire) : link'.wire[k] = link.wire[k]
          /\ link'.wire[Len(link.wire) + 1].answer = "sSN"
      BY <1>7, <2>1 DEF Scans, Gets
    <2>3. \A j \in 1 .. Len(link'.wire) : j \in 1 .. Len(link.wire) \/ link'.wire[j].answer = "sSN"
      BY <1>1, <2>2
    <2>4. \A j \in 1 .. Len(link'.wire), k \in 1 .. Len(inbox) :
             inbox[k].conn = link.conn => link'.wire[j].stale \/ link'.wire[j].answer = "sSN"
      BY <2>2, <2>3 DEF Ordered
    <2>5. \A j, k \in 1 .. Len(link'.wire) :
             j < k => \/ link'.wire[j].stale \/ link'.wire[j].answer = "sSN"
                      \/ link'.wire[k].answer = "sSN"
      BY <2>2, <2>3 DEF Ordered
    <2> QED BY <2>2, <2>4, <2>5 DEF Ordered
  <1>8. CASE Answered
    <2>1. PICK ok \in BOOLEAN : Executes(ok)
      BY <1>8 DEF Answered
    <2>2. /\ Len(inbox) >= 1 /\ Len(inbox') = Len(inbox) - 1
          /\ \A k \in 1 .. Len(inbox') : inbox'[k] = inbox[k + 1]
          /\ link'.conn = link.conn
      BY <2>1 DEF Executes
    <2>3. /\ \A k \in 1 .. Len(inbox') : k < Len(inbox') => inbox'[k].stale
          /\ \A k \in 1 .. Len(inbox') : inbox'[k].answer \notin {"sSN", "sFA", "cut"}
      BY <1>1, <2>2 DEF Ordered
    <2>4. CASE link'.wire = link.wire
      <3>1. \A j \in 1 .. Len(link'.wire), k \in 1 .. Len(inbox') :
               inbox'[k].conn = link'.conn => link'.wire[j].stale \/ link'.wire[j].answer = "sSN"
        BY <1>1, <2>2, <2>4 DEF Ordered
      <3> QED BY <2>2, <2>3, <2>4, <3>1 DEF Ordered
    <2>5. ASSUME NEW item, Gets(item), item.stale \/ Len(inbox') = 0,
                 \A j \in 1 .. Len(link.wire) : link.wire[j].stale \/ link.wire[j].answer = "sSN"
          PROVE  Ordered'
      <3>1. \A j \in 1 .. Len(link'.wire), k \in 1 .. Len(inbox') :
               link'.wire[j].stale \/ link'.wire[j].answer = "sSN"
        <4> TAKE j \in 1 .. Len(link'.wire), k \in 1 .. Len(inbox')
        <4>1. item.stale
          BY <2>5
        <4>2. CASE j <= Len(link.wire)
          BY <1>1, <2>5, <4>2 DEF Gets
        <4>3. CASE j = Len(link.wire) + 1
          BY <1>1, <2>5, <4>1, <4>3 DEF Gets
        <4> QED BY <1>1, <2>5, <4>2, <4>3 DEF Gets
      <3>2. \A j, k \in 1 .. Len(link'.wire) :
               j < k => link'.wire[j].stale \/ link'.wire[j].answer = "sSN"
        BY <1>1, <2>5 DEF Gets
      <3> QED BY <2>3, <3>1, <3>2 DEF Ordered
    <2>6. CASE /\ inbox[1].conn = link.conn
               /\ \E item \in WireItem :
                     /\ Gets(item) /\ item.name = inbox[1].name /\ item.stale = inbox[1].stale
                     /\ item.answer \in {inbox[1].answer, "sFA"} /\ item.good = ok
      <3>1. PICK item \in WireItem : Gets(item) /\ item.stale = inbox[1].stale
        BY <2>6
      <3>2. item.stale \/ Len(inbox') = 0
        BY <1>1, <2>2, <3>1 DEF Ordered
      <3>3. \A j \in 1 .. Len(link.wire) : link.wire[j].stale \/ link.wire[j].answer = "sSN"
        BY <1>1, <2>2, <2>6 DEF Ordered
      <3> QED BY <2>5, <3>1, <3>2, <3>3
    <2>7. CASE Len(link.wire) = 0 /\ Gets(Cut)
      <3>1. Cut.stale = TRUE
        BY DEF Cut
      <3> QED BY <2>5, <2>7, <3>1
    <2> QED BY <2>1, <2>4, <2>6, <2>7 DEF Executes, Brings
  <1> QED BY <1>2, <1>3, <1>4, <1>5, <1>6, <1>7, <1>8 DEF Effect

----------------------------------------------------------------------------
(* Which answers may still arrive. *)

(* Scans are always expected, and so is a refusal in the place of an answer. *)
LEMMA ScanExpected ==
    ASSUME NEW n, NEW a, NEW s, a = "sSN"
    PROVE  Expected(n, a, s) /\ Expected(n, a, s)'
  BY DEF Expected, Unread, Aside

LEMMA RefusalExpected ==
    ASSUME NEW n, NEW a, NEW b, NEW s, a = "sFA", b # "sSN", Expected(n, b, s)'
    PROVE  Expected(n, a, s)'
  BY DEF Expected, Unread, Aside

(* Everything that is under way is expected. *)
Seen(name, answer, stale) ==
    \/ \E k \in 1 .. Len(link.wire) : /\ name = link.wire[k].name /\ answer = link.wire[k].answer
                                      /\ stale = link.wire[k].stale
    \/ \E k \in 1 .. Len(inbox) : /\ inbox[k].conn = link.conn /\ name = inbox[k].name
                                  /\ answer = inbox[k].answer /\ stale = inbox[k].stale

LEMMA SeenIsExpected ==
    Delivers <=> \A n, a, s : Seen(n, a, s) => Expected(n, a, s)
  BY DEF Delivers, Seen

LEMMA SeenIsExpectedNext ==
    (\A n, a, s : Seen(n, a, s)' => Expected(n, a, s)') => Delivers'
  BY DEF Delivers, Seen

(* A step that reads, loses or leaves alone what is under way. *)
Quietly == Keeps \/ Takes \/ Drops

LEMMA QuietlySeen ==
    ASSUME Types, Quietly, NEW n, NEW a, NEW s, Seen(n, a, s)'
    PROVE  Seen(n, a, s)
  <1>1. Len(link.wire) \in Nat /\ Len(inbox) \in Nat
    BY LinkFields, LenProperties DEF Types, DeviceTypes
  <1>2. CASE Keeps
    BY <1>2 DEF Keeps, Seen
  <1>3. CASE Takes
    <2>1. /\ link'.conn = link.conn /\ inbox' = inbox
          /\ \A k \in 1 .. Len(link'.wire) :
                k + 1 \in 1 .. Len(link.wire) /\ link'.wire[k] = link.wire[k + 1]
      BY <1>1, <1>3 DEF Takes
    <2> QED BY <2>1 DEF Seen
  <1>4. CASE Drops
    BY <1>4 DEF Drops, Seen
  <1> QED BY <1>2, <1>3, <1>4 DEF Quietly

LEMMA Carried ==
    ASSUME Types, Quietly, Delivers,
           \A n, a, s : Seen(n, a, s) => (Expected(n, a, s) => Expected(n, a, s)')
    PROVE  Delivers'
  <1>1. \A n, a, s : Seen(n, a, s)' => Expected(n, a, s)'
    BY QuietlySeen, SeenIsExpected
  <1> QED BY <1>1, SeenIsExpectedNext

(* A command is written: what was under way is stale. *)
LEMMA CarriedAfterWrite ==
    ASSUME Types, Delivers, NEW name, NEW answer, Adds(name, answer),
           \A n, a, s : Seen(n, a, s) => (Expected(n, a, s) => Expected(n, a, TRUE)'),
           Expected(name, answer, FALSE)'
    PROVE  Delivers'
  <1>1. Len(link.wire) \in Nat /\ Len(inbox) \in Nat
    BY LinkFields, LenProperties DEF Types, DeviceTypes
  <1>2. \A n, a, s : Seen(n, a, s) => Expected(n, a, TRUE)'
    BY SeenIsExpected
  <1>3. ASSUME NEW n, NEW a, NEW s, Seen(n, a, s)'
        PROVE  (n = name /\ a = answer /\ s = FALSE) \/ (s = TRUE /\ \E b : Seen(n, a, b))
    <2>1. CASE \E k \in 1 .. Len(link'.wire) : /\ n = link'.wire[k].name /\ a = link'.wire[k].answer
                                               /\ s = link'.wire[k].stale
      <3>1. PICK k \in 1 .. Len(link'.wire) : /\ n = link'.wire[k].name /\ a = link'.wire[k].answer
                                              /\ s = link'.wire[k].stale
        BY <2>1
      <3>2. k \in 1 .. Len(link.wire) /\ n = link.wire[k].name /\ a = link.wire[k].answer /\ s = TRUE
        BY <1>1, <3>1 DEF Adds
      <3>3. Seen(n, a, link.wire[k].stale)
        BY <3>2 DEF Seen
      <3> QED BY <3>2, <3>3
    <2>2. CASE \E k \in 1 .. Len(inbox') : /\ inbox'[k].conn = link'.conn /\ n = inbox'[k].name
                                           /\ a = inbox'[k].answer /\ s = inbox'[k].stale
      <3>1. PICK k \in 1 .. Len(inbox') : /\ inbox'[k].conn = link'.conn /\ n = inbox'[k].name
                                          /\ a = inbox'[k].answer /\ s = inbox'[k].stale
        BY <2>2
      <3>2. CASE k \in 1 .. Len(inbox)
        <4>1. /\ inbox[k].conn = link.conn /\ n = inbox[k].name /\ a = inbox[k].answer /\ s = TRUE
          BY <3>1, <3>2 DEF Adds
        <4>2. Seen(n, a, inbox[k].stale)
          BY <3>2, <4>1 DEF Seen
        <4> QED BY <4>1, <4>2
      <3>3. CASE k = Len(inbox) + 1
        BY <3>1, <3>3 DEF Adds
      <3>4. k \in 1 .. Len(inbox) \/ k = Len(inbox) + 1
        BY <1>1, <3>1 DEF Adds
      <3> QED BY <3>2, <3>3, <3>4
    <2> QED BY <1>3, <2>1, <2>2 DEF Seen
  <1>4. \A n, a, s : Seen(n, a, s)' => Expected(n, a, s)'
    <2> SUFFICES ASSUME NEW n, NEW a, NEW s, Seen(n, a, s)'
                 PROVE  Expected(n, a, s)'
      OBVIOUS
    <2>1. CASE n = name /\ a = answer /\ s = FALSE
      BY <2>1
    <2>2. CASE s = TRUE /\ \E b : Seen(n, a, b)
      BY <1>2, <2>2
    <2>3. (n = name /\ a = answer /\ s = FALSE) \/ (s = TRUE /\ \E b : Seen(n, a, b))
      BY <1>3
    <2> QED BY <2>1, <2>2, <2>3
  <1> QED BY <1>4, SeenIsExpectedNext

(* The scanner executes a command. *)
AnswerSeen(name, stale) == \E b : b # "sSN" /\ Seen(name, b, stale)
LateRest(ok, answer, stale) == ~Brings(ok) /\ answer = "cut" /\ stale = TRUE

LEMMA ExecutedSeen ==
    ASSUME Types, Ordered, NEW ok, Executes(ok)
    PROVE  \A n, a, s : Seen(n, a, s)' =>
              \/ Seen(n, a, s)
              \/ a = "sFA" /\ AnswerSeen(n, s)
              \/ LateRest(ok, a, s)
  <1> SUFFICES ASSUME NEW n, NEW a, NEW s, Seen(n, a, s)'
               PROVE  \/ Seen(n, a, s)
                      \/ a = "sFA" /\ AnswerSeen(n, s)
                      \/ LateRest(ok, a, s)
    OBVIOUS
  <1>1. Len(link.wire) \in Nat /\ Len(inbox) \in Nat
    BY LinkFields, LenProperties DEF Types, DeviceTypes
  <1>2. /\ link'.conn = link.conn /\ Len(inbox) >= 1 /\ 1 \in 1 .. Len(inbox)
        /\ \A k \in 1 .. Len(inbox') : k + 1 \in 1 .. Len(inbox) /\ inbox'[k] = inbox[k + 1]
    BY <1>1 DEF Executes
  <1>3. CASE \E k \in 1 .. Len(inbox') : /\ inbox'[k].conn = link'.conn /\ n = inbox'[k].name
                                         /\ a = inbox'[k].answer /\ s = inbox'[k].stale
    BY <1>2, <1>3 DEF Seen
  <1>4. CASE \E k \in 1 .. Len(link'.wire) : /\ n = link'.wire[k].name /\ a = link'.wire[k].answer
                                             /\ s = link'.wire[k].stale
    <2>1. PICK k \in 1 .. Len(link'.wire) : /\ n = link'.wire[k].name /\ a = link'.wire[k].answer
                                            /\ s = link'.wire[k].stale
      BY <1>4
    <2>2. CASE link'.wire = link.wire
      BY <2>1, <2>2 DEF Seen
    <2>3. ASSUME NEW item, Gets(item)
          PROVE  Seen(n, a, s) \/ (n = item.name /\ a = item.answer /\ s = item.stale)
      <3>1. k \in 1 .. Len(link.wire) \/ k = Len(link.wire) + 1
        BY <1>1, <2>1, <2>3 DEF Gets
      <3>2. CASE k \in 1 .. Len(link.wire)
        BY <2>1, <2>3, <3>2 DEF Gets, Seen
      <3>3. CASE k = Len(link.wire) + 1
        BY <2>1, <2>3, <3>3 DEF Gets
      <3> QED BY <3>1, <3>2, <3>3
    <2>4. CASE /\ inbox[1].conn = link.conn
               /\ \E item \in WireItem :
                     /\ Gets(item) /\ item.name = inbox[1].name /\ item.stale = inbox[1].stale
                     /\ item.answer \in {inbox[1].answer, "sFA"} /\ item.good = ok
      <3>1. PICK item \in WireItem :
                     /\ Gets(item) /\ item.name = inbox[1].name /\ item.stale = inbox[1].stale
                     /\ item.answer \in {inbox[1].answer, "sFA"}
        BY <2>4
      <3>2. Seen(inbox[1].name, inbox[1].answer, inbox[1].stale) /\ inbox[1].answer # "sSN"
        BY <1>2, <2>4 DEF Seen, Ordered
      <3> QED BY <2>3, <3>1, <3>2 DEF AnswerSeen
    <2>5. CASE Gets(Cut) /\ ~Brings(ok)
      BY <2>3, <2>5 DEF Cut, LateRest
    <2> QED BY <2>2, <2>4, <2>5 DEF Executes, Brings
  <1> QED BY <1>3, <1>4 DEF Seen

LEMMA CarriedAfterExecution ==
    ASSUME Types, Ordered, Delivers, NEW ok, Executes(ok),
           \A n, a, s : Seen(n, a, s) => (Expected(n, a, s) => Expected(n, a, s)'),
           Brings(ok) \/ \A n, a, s : a = "cut" /\ s = TRUE => Expected(n, a, s)'
    PROVE  Delivers'
  <1>2. \A n, a, s : Seen(n, a, s)' =>
           \/ Seen(n, a, s)
           \/ a = "sFA" /\ AnswerSeen(n, s)
           \/ LateRest(ok, a, s)
    BY ExecutedSeen
  <1>1. \A n, a, s : Seen(n, a, s)' => Expected(n, a, s)'
    <2> SUFFICES ASSUME NEW n, NEW a, NEW s, Seen(n, a, s)'
                 PROVE  Expected(n, a, s)'
      OBVIOUS
    <2>1. CASE Seen(n, a, s)
      BY <2>1, SeenIsExpected
    <2>2. CASE a = "sFA" /\ AnswerSeen(n, s)
      <3>1. PICK b : b # "sSN" /\ Seen(n, b, s)
        BY <2>2 DEF AnswerSeen
      <3>2. Expected(n, b, s)'
        BY <3>1, SeenIsExpected
      <3> QED BY <2>2, <3>1, <3>2, RefusalExpected
    <2>3. CASE LateRest(ok, a, s)
      BY <2>3 DEF LateRest
    <2> QED BY <1>2, <2>1, <2>2, <2>3
  <1> QED BY <1>1, SeenIsExpectedNext

LEMMA CarriedAfterScan ==
    ASSUME Types, Delivers, Scans,
           \A n, a, s : Seen(n, a, s) => (Expected(n, a, s) => Expected(n, a, s)')
    PROVE  Delivers'
  <1>1. Len(link.wire) \in Nat
    BY LinkFields DEF Types, DeviceTypes
  <1>2. ASSUME NEW n, NEW a, NEW s, Seen(n, a, s)'
        PROVE  Seen(n, a, s) \/ a = "sSN"
    <2>1. CASE \E k \in 1 .. Len(inbox') : /\ inbox'[k].conn = link'.conn /\ n = inbox'[k].name
                                           /\ a = inbox'[k].answer /\ s = inbox'[k].stale
      BY <2>1 DEF Seen, Scans
    <2>2. CASE \E k \in 1 .. Len(link'.wire) : /\ n = link'.wire[k].name /\ a = link'.wire[k].answer
                                               /\ s = link'.wire[k].stale
      <3>1. PICK k \in 1 .. Len(link'.wire) : /\ n = link'.wire[k].name /\ a = link'.wire[k].answer
                                              /\ s = link'.wire[k].stale
        BY <2>2
      <3>2. k \in 1 .. Len(link.wire) \/ k = Len(link.wire) + 1
        BY <1>1, <3>1 DEF Scans, Gets
      <3>3. CASE k \in 1 .. Len(link.wire)
        BY <3>1, <3>3 DEF Scans, Gets, Seen
      <3>4. CASE k = Len(link.wire) + 1
        BY <3>1, <3>4 DEF Scans, Gets, Scan
      <3> QED BY <3>2, <3>3, <3>4
    <2> QED BY <1>2, <2>1, <2>2 DEF Seen
  <1>3. \A n, a, s : Seen(n, a, s)' => Expected(n, a, s)'
    <2> SUFFICES ASSUME NEW n, NEW a, NEW s, Seen(n, a, s)'
                 PROVE  Expected(n, a, s)'
      OBVIOUS
    <2>1. CASE Seen(n, a, s)
      BY <2>1, SeenIsExpected
    <2>2. CASE a = "sSN"
      BY <2>2, ScanExpected
    <2> QED BY <1>2, <2>1, <2>2
  <1> QED BY <1>3, SeenIsExpectedNext

(* A new connection has nothing under way. *)
LEMMA NothingSeen ==
    ASSUME Types, Connections, Renews
    PROVE  Delivers'
  <1>1. /\ link.conn \in Nat /\ \A k \in 1 .. Len(inbox) : inbox[k].conn \in Nat
    <2>1. link.conn \in Nat /\ inbox \in Seq(InboxItem)
      BY LinkFields DEF Types, DeviceTypes
    <2>2. \A k \in 1 .. Len(inbox) : inbox[k] \in InboxItem
      BY <2>1, ElementOfSeq
    <2> QED BY <2>1, <2>2 DEF InboxItem
  <1>2. /\ Len(link'.wire) = 0 /\ inbox' = inbox
        /\ \A k \in 1 .. Len(inbox) : inbox[k].conn # link'.conn
    BY <1>1 DEF Renews, Connections
  <1> QED BY <1>2 DEF Delivers

(* Nothing but scans is under way. *)
LEMMA OnlyScans ==
    ASSUME Types, Quietly, \A n, a, s : Seen(n, a, s) => a = "sSN"
    PROVE  Delivers'
  <1>1. \A n, a, s : Seen(n, a, s)' => Expected(n, a, s)'
    BY QuietlySeen, ScanExpected
  <1> QED BY <1>1, SeenIsExpectedNext

(* Where the owner is, the threads being there or not, decides what is
   expected. *)
LEMMA SameExpected ==
    ASSUME UNCHANGED <<pc, job, i, uncertain, streamReq>>, Joinable(rpc') <=> Joinable(rpc)
    PROVE  \A n, a, s : Expected(n, a, s) => Expected(n, a, s)'
  <1>1. Todo' = Todo /\ Method' = Method
    BY DEF Todo, Method
  <1>2. (InStep' <=> InStep) /\ (InIdentity' <=> InIdentity) /\ (InAudit' <=> InAudit)
    BY DEF InStep, InIdentity, InAudit
  <1>3. Streaming' <=> Streaming
    BY DEF Streaming
  <1> QED BY <1>1, <1>2, <1>3 DEF Expected

(* Places where nothing is waited for. *)
Expecting == Commanding \cup Calling \cup {"configured", "initialized", "startScanning"}

LEMMA NothingExpected ==
    ASSUME NEW n, NEW a, NEW s, pc' \notin Expecting, ~Streaming',
           uncertain' \/ streamReq' \/ a = "sSN"
    PROVE  Expected(n, a, s)'
  <1>1. pc' \notin Commanding /\ pc' \notin {"ask", "reply", "method", "writeMethod", "awaitMethod"}
    BY DEF Expecting, Commanding, Calling
  <1>2. InStep' => a = "sSN"
    BY <1>1 DEF InStep
  <1> QED BY <1>1, <1>2 DEF Expected, Expecting

LEMMA Unsettled ==
    ASSUME NEW n, NEW a, NEW s, Expected(n, a, s), pc # "reply"
    PROVE  uncertain \/ streamReq \/ a = "sSN"
  BY DEF Expected, InStep

(* What a read that survives its failure leaves behind. *)
Remains(name, answer) ==
    /\ job = "configure" /\ i <= Len(Identity) => Unread(name, answer, Identity, i + 1)
    /\ InAudit => Unread(name, answer, Audit, i + 1 - ReadyAt)

LEMMA ExpectedRemains ==
    ASSUME Types, Sequence, pc \in {"ask", "reply"}, NEW n, NEW a, NEW s, Expected(n, a, s)
    PROVE  Remains(n, a)
  <1>1. pc \in Commanding
    BY DEF Commanding
  <1>2. /\ Len(Identity) \in Nat /\ Len(Audit) \in Nat /\ ReadyAt \in Nat /\ Len(Identity) + 6 <= ReadyAt
        /\ i \in Nat /\ i \in 1 .. Len(Todo)
    BY <1>1, Current, ConfigurationSays DEF Types, OwnerTypes
  <1>3. ASSUME NEW table, NEW k \in Nat, Unread(n, a, table, k)
        PROVE  Unread(n, a, table, k + 1)
    BY <1>3 DEF Unread
  <1>4. ASSUME job = "configure", i <= Len(Identity)
        PROVE  Unread(n, a, Identity, i + 1)
    <2>1. CASE pc = "ask" \/ (pc = "reply" /\ s)
      <3>1. Unread(n, a, Identity, i)
        BY <1>2, <1>4, <2>1 DEF Expected, InIdentity
      <3> QED BY <1>2, <1>3, <3>1
    <2>2. CASE pc = "reply" /\ ~s
      <3>1. a = "sSN" \/ (n = Todo[i].name /\ a \in {Todo[i].answer, "sFA"})
        BY <2>2 DEF Expected
      <3>2. Todo[i].answer = "sRA" /\ Todo[i].name = Identity[i] /\ i \in 1 .. Len(Identity)
        BY <1>1, <1>2, <1>4, Current DEF Reading
      <3> QED BY <1>2, <3>1, <3>2 DEF Unread
    <2> QED BY <2>1, <2>2
  <1>5. ASSUME InAudit
        PROVE  Unread(n, a, Audit, i + 1 - ReadyAt)
    <2>1. i + 1 - ReadyAt = (i - ReadyAt) + 1 /\ i - ReadyAt \in Nat
      BY <1>2, <1>5 DEF InAudit
    <2>2. CASE pc = "ask" \/ (pc = "reply" /\ s)
      <3>1. Unread(n, a, Audit, i - ReadyAt)
        BY <1>5, <2>2 DEF Expected
      <3> QED BY <1>3, <2>1, <3>1
    <2>3. CASE pc = "reply" /\ ~s
      <3>1. a = "sSN" \/ (n = Todo[i].name /\ a \in {Todo[i].answer, "sFA"})
        BY <2>3 DEF Expected
      <3>2. /\ Todo[i].answer = "sRA" /\ Todo[i].name = Audit[i - ReadyAt]
            /\ i - ReadyAt \in 1 .. Len(Audit)
        BY <1>1, <1>2, <1>5, Current DEF Reading, InAudit
      <3> QED BY <1>2, <2>1, <3>1, <3>2 DEF Unread
    <2> QED BY <2>2, <2>3
  <1> QED BY <1>4, <1>5 DEF Remains

(* After a failure the owner expects what remains, unless it was in step. *)
LEMMA FailureExpected ==
    ASSUME Types, Sequence, Workers, pc \in {"ask", "reply"}, NEW outcome \in {"error", "sFA"}, NEW m,
           After(outcome, m), outcome = "error" \/ ~InStep, uncertain' \/ streamReq',
           rpc' = rpc, NEW n, NEW a, NEW s, Remains(n, a)
    PROVE  Expected(n, a, s)'
  <1>1. pc \in Commanding /\ pc \in Quiet
    BY DEF Commanding, Quiet
  <1>2. /\ Len(Identity) \in Nat /\ Len(Audit) \in Nat /\ ReadyAt \in Nat /\ Len(Identity) + 6 <= ReadyAt
        /\ i \in Nat /\ i \in 1 .. Len(Todo) /\ Len(Todo) \in Nat
    BY <1>1, Current, ConfigurationSays DEF Types, OwnerTypes
  <1>3. ~Joinable(rpc')
    BY <1>1 DEF Workers, Joinable
  <1>4. Survives(outcome) /\ job = "configure" => Reading
    <2>1. CASE ~Reading
      <3>1. job = "configure" => Todo[i].tolerates \in {"nothing", "sFA"}
        BY <1>1, <2>1, Current
      <3>2. outcome = "sFA" /\ job = "configure" => i <= Len(Identity) + 1
        BY <1>1, <1>2, <2>1 DEF InStep, Reading
      <3>3. i <= Len(Identity) + 1 /\ job = "configure" => Todo[i].tolerates = "nothing"
        <4>1. i <= Len(Identity) + 1 => i = Len(Identity) + 1
          BY <1>2, <2>1 DEF Reading
        <4> QED BY <1>1, <4>1, Current
      <3> QED BY <3>1, <3>2, <3>3 DEF Survives
    <2> QED BY <2>1
  <1>5. CASE Advances(outcome, m)
    <2>1. job = "configure" /\ i' = i + 1 /\ pc' = "ask" /\ job' = "configure" /\ Reading
      BY <1>4, <1>5 DEF Advances
    <2>2. ~InStep'
      BY <1>2, <2>1 DEF InStep, Reading
    <2>3. InIdentity' => Unread(n, a, Identity, i')
      BY <1>2, <2>1 DEF InIdentity, Reading, Remains
    <2>4. InAudit' => Unread(n, a, Audit, i' - ReadyAt)
      BY <1>2, <2>1 DEF InAudit, Reading, Remains
    <2> QED BY <2>1, <2>2, <2>3, <2>4 DEF Expected, Streaming
  <1>6. CASE Finishes(outcome, m)
    <2>1. job = "configure" /\ i = Len(Todo) /\ pc' = "configured" /\ Reading
      BY <1>4, <1>6 DEF Finishes
    <2>2. Len(Todo) = ReadyAt + Len(Audit)
      BY <1>1, <2>1, Current
    <2>3. InAudit
      BY <1>2, <2>1, <2>2 DEF InAudit, Reading
    <2>4. Aside(a)
      BY <2>3 DEF Remains, Unread, Aside
    <2>5. ~InStep'
      BY <2>1 DEF InStep, Commanding
    <2> QED BY <2>1, <2>4, <2>5 DEF Expected, Streaming
  <1>7. ASSUME pc' \in StopReturns \cup {"rollback", "stopScanning"}
        PROVE  Expected(n, a, s)'
    BY <1>3, <1>7, NothingExpected DEF StopReturns, Expecting, Commanding, Calling, Streaming
  <1>8. CASE CleansUp(outcome, m)
    BY <1>7, <1>8, CalledFrom DEF CleansUp
  <1>9. CASE RollsBack(m)
    BY <1>7, <1>9 DEF RollsBack
  <1>10. CASE StartFails(m)
    BY <1>7, <1>10 DEF StartFails
  <1> QED BY <1>1, <1>5, <1>6, <1>8, <1>9, <1>10, AfterCases DEF Subscribes, Polls

(* The first answer on the socket, if it is not stale and no scan, is followed
   by scans only. *)
LEMMA ScansFollow ==
    ASSUME Types, Ordered, Len(link.wire) >= 1, ~link.wire[1].stale, link.wire[1].answer # "sSN",
           Takes \/ Drops, UNCHANGED inbox
    PROVE  Delivers'
  <1>1. Len(link.wire) \in Nat /\ Len(inbox) \in Nat
    BY LinkFields, LenProperties DEF Types, DeviceTypes
  <1>2. /\ \A k \in 1 .. Len(inbox) : inbox[k].conn # link.conn
        /\ \A k \in 1 .. Len(link.wire) : k > 1 => link.wire[k].answer = "sSN"
    <2>1. 1 \in 1 .. Len(link.wire)
      BY <1>1
    <2> QED BY <1>1, <2>1 DEF Ordered
  <1>3. CASE Takes
    <2>1. /\ link'.conn = link.conn /\ inbox' = inbox
          /\ \A k \in 1 .. Len(link'.wire) :
                /\ k + 1 \in 1 .. Len(link.wire) /\ k + 1 > 1 /\ link'.wire[k] = link.wire[k + 1]
      BY <1>1, <1>3 DEF Takes
    <2>2. \A n, a, s : Seen(n, a, s)' => a = "sSN"
      BY <1>2, <2>1 DEF Seen
    <2> QED BY <2>2, ScanExpected, SeenIsExpectedNext
  <1>4. CASE Drops
    <2>1. \A n, a, s : ~Seen(n, a, s)'
      BY <1>2, <1>4 DEF Drops, Seen
    <2> QED BY <2>1, SeenIsExpectedNext
  <1> QED BY <1>3, <1>4

(* The first answer on the socket is expected. *)
LEMMA HeadExpected ==
    ASSUME Delivers, Len(link.wire) >= 1, Types
    PROVE  Expected(link.wire[1].name, link.wire[1].answer, link.wire[1].stale)
  <1>1. Len(link.wire) \in Nat
    BY LinkFields DEF Types, DeviceTypes
  <1> QED BY <1>1 DEF Delivers

(* An answer that fits the command is its answer. *)
LEMMA MatchIsFresh ==
    ASSUME Types, Sequence, pc = "reply", NEW n, NEW a, NEW s, Expected(n, a, s),
           a = Todo[i].answer, n = Todo[i].name
    PROVE  ~s
  <1>1. pc \in Commanding
    BY DEF Commanding
  <1>2. /\ Len(Identity) \in Nat /\ Len(Audit) \in Nat /\ ReadyAt \in Nat /\ Len(Identity) + 6 <= ReadyAt
        /\ i \in Nat /\ i \in 1 .. Len(Todo) /\ a \notin {"sSN", "sFA", "cut"}
    BY <1>1, Current, ConfigurationSays DEF Types, OwnerTypes
  <1> SUFFICES ASSUME s PROVE FALSE
    OBVIOUS
  <1>3. ~InStep
    BY <1>2 DEF Expected
  <1>4. CASE job = "subscribe"
    <2>1. a = "sEA"
      BY <1>1, <1>4, Current
    <2> QED BY <1>4, <2>1 DEF Expected, Aside
  <1>5. CASE job = "configure" /\ i <= Len(Identity)
    <2>1. Unread(n, a, Identity, i)
      BY <1>2, <1>5 DEF Expected, InIdentity
    <2>2. PICK k \in 1 .. Len(Identity) : k < i /\ n = Identity[k]
      BY <1>2, <2>1 DEF Unread
    <2>3. n = Identity[i] /\ i \in 1 .. Len(Identity)
      BY <1>1, <1>2, <1>5, Current
    <2>4. k = i
      BY <2>2, <2>3, NamesAssumption
    <2> QED BY <1>2, <2>2, <2>4
  <1>6. CASE job = "configure" /\ i = Len(Identity) + 1
    <2>1. Unread(n, a, Identity, i)
      BY <1>2, <1>6 DEF Expected, InIdentity
    <2>2. a = "sAN"
      BY <1>1, <1>6, Current
    <2> QED BY <2>1, <2>2 DEF Unread
  <1>7. CASE job = "configure" /\ i > ReadyAt
    <2>1. Unread(n, a, Audit, i - ReadyAt)
      BY <1>7 DEF Expected, InAudit
    <2>2. PICK k \in 1 .. Len(Audit) : k < i - ReadyAt /\ n = Audit[k]
      BY <1>2, <2>1 DEF Unread
    <2>3. n = Audit[i - ReadyAt] /\ i - ReadyAt \in 1 .. Len(Audit)
      BY <1>1, <1>7, Current
    <2>4. k = i - ReadyAt
      BY <2>2, <2>3, NamesAssumption
    <2> QED BY <1>2, <2>2, <2>4
  <1>8. job \in {"configure", "messages", "subscribe", "cleanup"}
    BY <1>1, Current
  <1>9. job \notin {"messages", "cleanup"}
    BY <1>1, <1>3 DEF InStep
  <1>10. job = "configure" => i <= Len(Identity) + 1 \/ i > ReadyAt
    BY <1>1, <1>2, <1>3 DEF InStep
  <1> QED BY <1>2, <1>4, <1>5, <1>6, <1>7, <1>8, <1>9, <1>10

(* A failure is carried: the answers that may still come are known. *)
LEMMA FailureCarries ==
    ASSUME Types, Sequence, Workers, pc \in {"ask", "reply"}, NEW outcome \in {"error", "sFA"}, NEW m,
           After(outcome, m), outcome = "error" \/ ~InStep, uncertain' \/ streamReq', rpc' = rpc
    PROVE  /\ \A n, a, s : Expected(n, a, s) => Expected(n, a, s)'
           /\ \A n, a, s : a = "cut" => Expected(n, a, s)'
  <1>1. \A n, a, s : Expected(n, a, s) => Remains(n, a)
    BY ExpectedRemains
  <1>2. \A n, a, s : a = "cut" => Remains(n, a)
    BY DEF Remains, Unread
  <1>3. \A n, a, s : Remains(n, a) => Expected(n, a, s)'
    BY FailureExpected
  <1> QED BY <1>1, <1>2, <1>3

(* A refusal is tolerated only where no earlier answer can be outstanding. *)
LEMMA TolerantIsInStep ==
    ASSUME Types, Sequence, pc = "reply", Todo[i].tolerates = "sFA"
    PROVE  InStep
  <1>1. pc \in Commanding
    BY DEF Commanding
  <1>2. /\ Len(Identity) \in Nat /\ ReadyAt \in Nat /\ Len(Identity) + 6 <= ReadyAt
        /\ i \in Nat /\ i \in 1 .. Len(Todo)
    BY <1>1, Current, ConfigurationSays DEF Types, OwnerTypes
  <1>3. job = "configure" /\ ~Reading /\ i # Len(Identity) + 1
    BY <1>1, Current
  <1> QED BY <1>1, <1>2, <1>3 DEF Reading, InStep

LEMMA ReplyReadDelivers ==
    ASSUME Types, Sequence, Workers, Ordered, Line, ReplyRead
    PROVE  Delivers' /\ mixed' = FALSE
  <1> DEFINE h == link.wire[1]
             c == Todo[i]
             matches == Matches(h, c)
  <1>1. /\ (Takes \/ Drops) /\ Head(link.wire) = h /\ h \in WireItem /\ Len(link.wire) >= 1
    BY ReplyTakes
  <1>2. /\ pc = "reply" /\ pc \in Commanding /\ rpc' = rpc /\ streamReq' = streamReq /\ inbox' = inbox
        /\ Delivers /\ ~mixed /\ mixed \in BOOLEAN
    BY DEF ReplyRead, Commanding, quietVars, receiveVars, Line, Types, StopTypes
  <1>3. Expected(h.name, h.answer, h.stale)
    BY <1>1, <1>2, HeadExpected
  <1>4. c.answer \notin {"sSN", "sFA", "cut"}
    BY <1>2, Current
  <1>5. Quietly
    BY <1>1 DEF Quietly
  <1>6. ASSUME matches
        PROVE  ~h.stale
    BY <1>2, <1>3, <1>6, MatchIsFresh DEF Matches
  <1>7. CASE /\ h.answer \notin {"sFA", "cut"} /\ matches
             /\ Recorded(h, c)
    <2>1. ~h.stale /\ h.answer # "sSN"
      BY <1>4, <1>6, <1>7 DEF Matches
    <2>2. Delivers'
      BY <1>1, <1>2, <2>1, ScansFollow
    <2> QED BY <1>2, <1>7, <2>1, <2>2 DEF Recorded
  <1>8. CASE /\ h.answer \notin {"sFA", "cut"} /\ ~matches /\ After("error", ms)
             /\ uncertain' = (uncertain \/ ~matches) /\ Recorded(h, c)
    <2>1. uncertain'
      BY <1>8
    <2>2. mixed' = FALSE
      BY <1>2, <1>8 DEF Recorded
    <2> QED BY <1>2, <1>5, <1>8, <2>1, <2>2, FailureCarries, Carried
  <1>9. CASE h.answer = "sFA" /\ After("sFA", ms) /\ Recorded(h, c) /\ UNCHANGED uncertain
    <2>1. CASE InStep
      <3>1. ~h.stale
        BY <1>3, <1>9, <2>1 DEF Expected
      <3> QED BY <1>1, <1>2, <1>9, <3>1, ScansFollow DEF Recorded
    <2>2. CASE ~InStep
      <3>1. uncertain' \/ streamReq'
        BY <1>2, <1>9, <2>2 DEF InStep
      <3>2. ~matches /\ c.tolerates # "sFA"
        BY <1>2, <1>4, <1>9, <2>2, TolerantIsInStep DEF Matches
      <3>3. mixed' = FALSE
        BY <1>2, <1>9, <3>2 DEF Recorded
      <3> QED BY <1>2, <1>5, <1>9, <2>2, <3>1, <3>3, FailureCarries, Carried
    <2> QED BY <2>1, <2>2
  <1>10. CASE After("error", ms) /\ uncertain' = TRUE /\ UNCHANGED historyVars
    BY <1>2, <1>5, <1>10, FailureCarries, Carried
  <1>11. \/ /\ h.answer \notin {"sFA", "cut"}
            /\ After(IF ~matches THEN "error" ELSE IF c.checks /\ ~h.good THEN "rejected" ELSE "ok", ms)
            /\ uncertain' = (uncertain \/ ~matches) /\ Recorded(h, c)
         \/ h.answer = "sFA" /\ After("sFA", ms) /\ Recorded(h, c) /\ UNCHANGED uncertain
         \/ After("error", ms) /\ uncertain' = TRUE /\ UNCHANGED historyVars
    BY <1>1 DEF ReplyRead
  <1> HIDE DEF matches, c, h
  <1>12. \/ h.answer \notin {"sFA", "cut"} /\ matches /\ Recorded(h, c)
         \/ /\ h.answer \notin {"sFA", "cut"} /\ ~matches /\ After("error", ms)
            /\ uncertain' = (uncertain \/ ~matches) /\ Recorded(h, c)
         \/ h.answer = "sFA" /\ After("sFA", ms) /\ Recorded(h, c) /\ UNCHANGED uncertain
         \/ After("error", ms) /\ uncertain' = TRUE /\ UNCHANGED historyVars
    BY <1>11
  <1> QED BY <1>7, <1>8, <1>9, <1>10, <1>12

(* The other steps of a command. *)
LEMMA AskDelivers ==
    ASSUME Types, Sequence, Workers, Delivers, AskWritten
    PROVE  Delivers'
  <1>1. /\ pc = "ask" /\ pc' = "reply" /\ UNCHANGED <<job, i, uncertain>>
        /\ streamReq' = (streamReq \/ job = "subscribe") /\ streamReq \in BOOLEAN
        /\ Adds(Todo[i].name, Todo[i].answer)
    BY AskWrittenAdds DEF AskWritten, Types, StopTypes
  <1>2. /\ Todo' = Todo /\ (InIdentity' <=> InIdentity) /\ (InAudit' <=> InAudit)
    BY <1>1 DEF Todo, InIdentity, InAudit
  <1>3. InStep' => InStep
    BY <1>1 DEF InStep, Commanding
  <1>4. \A n, a, s, t : t = TRUE => (Expected(n, a, s) => Expected(n, a, t)')
    <2> SUFFICES ASSUME NEW n, NEW a, NEW s, Expected(n, a, s)
                 PROVE  Expected(n, a, TRUE)'
      OBVIOUS
    <2> QED BY <1>1, <1>2, <1>3 DEF Expected, Streaming
  <1>5. \A n, a, s : n = Todo[i].name /\ a = Todo[i].answer /\ s = FALSE => Expected(n, a, s)'
    <2> SUFFICES ASSUME NEW n, NEW a, n = Todo[i].name, a = Todo[i].answer
                 PROVE  Expected(n, a, FALSE)'
      OBVIOUS
    <2> QED BY <1>1, <1>2 DEF Expected, Streaming
  <1> QED BY <1>1, <1>4, <1>5, CarriedAfterWrite

LEMMA ProbeDelivers ==
    ASSUME Types, Sequence, Workers, Delivers, Probe
    PROVE  Delivers'
  <1>1. PICK outcome \in {"ok", "rejected"} : After(outcome, ms)
    BY DEF Probe
  <1>2. /\ pc = "ask" /\ pc \in Commanding /\ pc \in Quiet /\ Todo[i].name = "probe"
        /\ UNCHANGED <<uncertain, streamReq, rpc>> /\ Keeps
    BY NotWrittenKeeps DEF Probe, Commanding, Quiet, quietVars, receiveVars, deviceVars, Types
  <1>3. /\ Len(Identity) \in Nat /\ Len(Audit) \in Nat /\ ReadyAt \in Nat /\ Len(Identity) + 6 <= ReadyAt
        /\ i \in Nat /\ i \in 1 .. Len(Todo)
    BY <1>2, Current, ConfigurationSays DEF Types, OwnerTypes
  <1>4. job = "configure" /\ i # Len(Identity) + 1 /\ Len(Todo) = ReadyAt + Len(Audit)
    <2>1. job \in {"configure", "messages", "subscribe", "cleanup"}
      BY <1>2, Current
    <2>2. job \notin {"messages", "subscribe", "cleanup"}
      BY <1>2, Current
    <2>3. job = "configure"
      BY <2>1, <2>2
    <2>4. i # Len(Identity) + 1 /\ Len(Todo) = ReadyAt + Len(Audit)
      BY <1>2, <2>3, Current
    <2> QED BY <2>3, <2>4
  <1>5. ~Joinable(rpc')
    BY <1>2 DEF Workers, Joinable
  <1>6. ASSUME NEW n, NEW a, NEW s, Expected(n, a, s)
        PROVE  Expected(n, a, s)'
    <2>1. InStep => a = "sSN"
      BY <1>2, <1>6 DEF Expected
    <2>2. Remains(n, a)
      BY <1>2, <1>6, ExpectedRemains
    <2>3. CASE a = "sSN"
      BY <2>3, ScanExpected
    <2>4. CASE ~InStep
      <3>1. uncertain' \/ streamReq'
        BY <1>2, <2>4 DEF InStep
      <3>2. i <= Len(Identity) \/ InAudit
        BY <1>2, <1>3, <1>4, <2>4 DEF InStep, InAudit
      <3>3. CASE Advances(outcome, ms)
        <4>1. i' = i + 1 /\ pc' = "ask" /\ job' = "configure"
          BY <1>4, <3>3 DEF Advances
        <4>2. ~InStep'
          BY <1>3, <3>1, <3>2, <4>1 DEF InStep, InAudit
        <4>3. InIdentity' => Unread(n, a, Identity, i')
          BY <1>3, <1>4, <2>2, <3>2, <4>1 DEF InIdentity, Remains, InAudit
        <4>4. InAudit' => Unread(n, a, Audit, i' - ReadyAt)
          BY <1>3, <1>4, <2>2, <3>2, <4>1 DEF InAudit, Remains
        <4> QED BY <4>1, <4>2, <4>3, <4>4 DEF Expected, Streaming
      <3>4. CASE Finishes(outcome, ms)
        <4>1. InAudit /\ pc' = "configured"
          BY <1>3, <1>4, <3>2, <3>4 DEF Finishes
        <4>2. Aside(a)
          BY <2>2, <4>1 DEF Remains, Unread, Aside
        <4>3. ~InStep'
          BY <3>1, <4>1 DEF InStep, Commanding
        <4> QED BY <4>1, <4>2, <4>3 DEF Expected, Streaming
      <3>5. ~Polls(outcome, ms)
        BY <1>3, <3>2 DEF Polls, InAudit
      <3>6. CASE RollsBack(ms)
        BY <1>5, <3>1, <3>6, NothingExpected DEF RollsBack, Expecting, Commanding, Calling,
            Streaming
      <3> QED BY <1>1, <1>2, <1>4, <3>3, <3>4, <3>5, <3>6, AfterCases
          DEF Subscribes, CleansUp, StartFails
    <2> QED BY <2>1, <2>3, <2>4
  <1> QED BY <1>2, <1>6, Carried DEF Quietly

LEMMA TimeoutDelivers ==
    ASSUME Types, Sequence, Workers, Ordered, Delivers, ReplyTimesOut
    PROVE  Delivers'
  <1>1. /\ After("error", ms) /\ pc = "reply" /\ uncertain' = TRUE /\ rpc' = rpc
    BY DEF ReplyTimesOut, quietVars, receiveVars
  <1>2. /\ \A n, a, s : Expected(n, a, s) => Expected(n, a, s)'
        /\ \A n, a, s : a = "cut" => Expected(n, a, s)'
    BY <1>1, FailureCarries
  <1>3. CASE Keeps
    BY <1>2, <1>3, Carried DEF Quietly
  <1>4. CASE \E ok \in BOOLEAN : Executes(ok)
    <2>1. PICK ok \in BOOLEAN : Executes(ok)
      BY <1>4
    <2> QED BY <1>2, <2>1, CarriedAfterExecution
  <1> QED BY <1>3, <1>4, TimeoutExecutes

LEMMA CommandsDeliver ==
    ASSUME Types, Sequence, Workers, Measurement, Connections, Ordered, Line, Commands
    PROVE  Delivers'
  <1>1. Delivers
    BY DEF Line
  <1>2. CASE AskWritten
    BY <1>1, <1>2, AskDelivers
  <1>3. CASE AskNotWritten \/ ReplyLost
    <2>1. PICK m : After("error", m)
      BY <1>3 DEF AskNotWritten, ReplyLost
    <2>2. pc \in {"ask", "reply"} /\ uncertain' = TRUE /\ rpc' = rpc
      BY <1>3 DEF AskNotWritten, ReplyLost, quietVars, receiveVars
    <2>3. Quietly
      BY <1>3, NotWrittenKeeps, EmptyDrops DEF AskNotWritten, NotWritten, ReplyLost, Types, Quietly
    <2> QED BY <1>1, <2>1, <2>2, <2>3, FailureCarries, Carried
  <1>4. CASE ReplyRead
    BY <1>4, ReplyReadDelivers
  <1>5. CASE ReplyTimesOut
    BY <1>1, <1>5, TimeoutDelivers
  <1>6. CASE PollAgain \/ ReadyDeadline
    <2>1. pc = "ready" /\ Keeps
      BY <1>6, NotWrittenKeeps DEF PollAgain, ReadyDeadline, deviceVars, Types
    <2>2. InStep
      BY <2>1 DEF InStep, Sequence, Commanding
    <2>3. \A n, a, s : Seen(n, a, s) => a = "sSN"
      BY <1>1, <2>1, <2>2, SeenIsExpected DEF Expected
    <2> QED BY <2>1, <2>3, OnlyScans DEF Quietly
  <1>7. CASE Probe
    BY <1>1, <1>7, ProbeDelivers
  <1>8. CASE StopMeasurement
    <2>1. /\ pc \in {"rollback", "finalStop"} /\ UNCHANGED <<uncertain, streamReq, rpc>> /\ Keeps
      BY <1>8, NotWrittenKeeps DEF StopMeasurement, deviceVars, quietVars, receiveVars, Types
    <2>2. CASE Pending /\ ~Reconnects
      <3>1. InStep
        BY <2>2 DEF Reconnects, InStep
      <3>2. \A n, a, s : Seen(n, a, s) => a = "sSN"
        BY <1>1, <2>1, <3>1, SeenIsExpected DEF Expected
      <3> QED BY <2>1, <3>2, OnlyScans DEF Quietly
    <2>3. CASE ~Pending \/ Reconnects
      <3>1. pc' \in StopReturns \cup {"reconnect"}
        BY <1>8, <2>3, CalledFrom DEF StopMeasurement, Unwinding
      <3>2. pc' \notin Expecting /\ ~Streaming'
        BY <3>1 DEF StopReturns, Expecting, Commanding, Calling, Streaming
      <3>3. \A n, a, s : Expected(n, a, s) => Expected(n, a, s)'
        BY <2>1, <3>2, Unsettled, NothingExpected
      <3> QED BY <1>1, <2>1, <3>3, Carried DEF Quietly
    <2> QED BY <2>2, <2>3
  <1>9. CASE Reconnect
    BY <1>9, ConnectionRenews, NothingSeen DEF Reconnect, Types
  <1> QED BY <1>2, <1>3, <1>4, <1>5, <1>6, <1>7, <1>8, <1>9 DEF Commands

(* The stop, one step after the other. *)
LEMMA StopStreamDelivers ==
    ASSUME Types, Workers, Delivers, StopStream
    PROVE  Delivers'
  <1>1. /\ pc = "stopStream" /\ pc' \in {"streamedStop", "clear"} /\ streamReq
        /\ UNCHANGED <<uncertain, streamReq, rpc>>
    BY DEF StopStream, stopVars, quietVars, receiveVars, Workers
  <1>2. pc' \notin Expecting /\ (Streaming' => Streaming)
    BY <1>1 DEF Expecting, Commanding, Calling, Streaming, Joinable
  <1>3. ASSUME NEW n, NEW a, NEW s, a # "sAN" \/ ~Streaming
        PROVE  Expected(n, a, s)'
    BY <1>1, <1>2, <1>3 DEF Expected, Expecting, Commanding, Calling, InStep
  <1>4. \A n, a, s, t : t = TRUE => (Expected(n, a, s) => Expected(n, a, t)')
    <2>1. \A n, a, s : Expected(n, a, s) => a # "sAN" \/ ~Streaming
      BY DEF Expected
    <2> QED BY <1>3, <2>1
  <1>5. \A n, a, s : a = "sEA" => Expected(n, a, s)'
    BY <1>3
  <1>6. CASE Keeps
    <2>1. \A n, a, s : Expected(n, a, s) => Expected(n, a, s)'
      <3>1. \A n, a, s : Expected(n, a, s) => a # "sAN" \/ ~Streaming
        BY DEF Expected
      <3> QED BY <1>3, <3>1
    <2> QED BY <1>6, <2>1, Carried DEF Quietly
  <1>7. CASE Adds("stopStream", "sEA")
    BY <1>4, <1>5, <1>7, CarriedAfterWrite
  <1> QED BY <1>6, <1>7, StopStreamAdds

LEMMA WriteMethodDelivers ==
    ASSUME Types, Sequence, Workers, Delivers, WriteMethod
    PROVE  Delivers'
  <1>1. /\ pc = "writeMethod" /\ pc' = "awaitMethod" /\ streamReq /\ i \in {1, 2}
        /\ UNCHANGED <<job, i, uncertain, streamReq, rpc>> /\ Adds(Method.name, Method.answer)
        /\ job = "streamed"
    BY WriteMethodAdds DEF WriteMethod, stopVars, quietVars, receiveVars, Workers, Calling, Sequence
  <1>2. Method' = Method /\ ~InStep'
    BY <1>1 DEF Method, InStep, Commanding
  <1>3. \A n, a, s, t : t = TRUE => (Expected(n, a, s) => Expected(n, a, t)')
    <2> SUFFICES ASSUME NEW n, NEW a, NEW s, Expected(n, a, s)
                 PROVE  Expected(n, a, TRUE)'
      OBVIOUS
    <2> QED BY <1>1, <1>2 DEF Expected, Streaming
  <1>4. \A n, a, s : n = Method.name /\ a = Method.answer /\ s = FALSE => Expected(n, a, s)'
    <2> SUFFICES ASSUME NEW n, NEW a, n = Method.name
                 PROVE  Expected(n, a, FALSE)'
      OBVIOUS
    <2> QED BY <1>1, <1>2 DEF Expected, Streaming
  <1> QED BY <1>1, <1>3, <1>4, CarriedAfterWrite

(* Where the stop goes on after a call. *)
LEMMA CallEnds ==
    ASSUME Types, Sequence, Workers, pc \in Calling, NEW ok, MethodDone(ok),
           ok => pc = "awaitMethod", UNCHANGED <<uncertain, streamReq, rpc>>
    PROVE  \A n, a, s : Expected(n, a, s) => Expected(n, a, s)'
  <1>1. streamReq' /\ i \in {1, 2}
    BY DEF Workers, Sequence, Calling
  <1>2. CASE ok /\ i = 1
    <2>1. pc' = "method" /\ i' = 2 /\ pc = "awaitMethod"
      BY <1>2 DEF MethodDone
    <2>2. Method.name = "SetAccessMode"
      BY <1>1, <1>2, MethodFields
    <2> SUFFICES ASSUME NEW n, NEW a, NEW s, Expected(n, a, s)
                 PROVE  Expected(n, a, s)'
      OBVIOUS
    <2>3. a # "sAN" \/ n # "LMCstopmeas"
      BY <1>2, <2>1, <2>2 DEF Expected
    <2> QED BY <1>1, <2>1, <2>3 DEF Expected, InStep, Streaming, Commanding
  <1>3. CASE ~(ok /\ i = 1)
    <2>1. pc' = "clear"
      BY <1>3 DEF MethodDone
    <2>2. pc' \notin Expecting /\ ~Streaming'
      BY <2>1 DEF Expecting, Commanding, Calling, Streaming
    <2> QED BY <1>1, <2>2, NothingExpected
  <1> QED BY <1>2, <1>3

LEMMA StoppingDelivers ==
    ASSUME Types, Sequence, Workers, Line, Stopping
    PROVE  Delivers'
  <1>1. Delivers
    BY DEF Line
  <1>2. ASSUME pc # "reply", pc' \notin Expecting, ~Streaming', UNCHANGED <<uncertain, streamReq>>,
               Quietly
        PROVE  Delivers'
    <2>1. \A n, a, s : Expected(n, a, s) => Expected(n, a, s)'
      BY <1>2, Unsettled, NothingExpected
    <2> QED BY <1>1, <1>2, <2>1, Carried
  <1> USE DEF Types, stopVars, quietVars, receiveVars
  <1>3. CASE StopScanning
    <2>1. /\ pc = "stopScanning" /\ pc' \in {"rollback", "stopStream", "clear"} /\ Keeps
          /\ UNCHANGED <<uncertain, streamReq, rpc>>
      BY <1>3, NotWrittenKeeps DEF StopScanning, deviceVars
    <2>2. \A n, a, s : Expected(n, a, s) => Expected(n, a, s)'
      <3>1. pc' \notin Expecting
        BY <2>1 DEF Expecting, Commanding, Calling
      <3>2. CASE Streaming'
        <4>1. Streaming
          BY <2>1, <3>2 DEF Streaming, Joinable
        <4> QED BY <2>1, <3>1, <4>1 DEF Expected, Expecting, Commanding, Calling, InStep
      <3>3. CASE ~Streaming'
        BY <2>1, <3>1, <3>3, Unsettled, NothingExpected
      <3> QED BY <3>2, <3>3
    <2> QED BY <1>1, <2>1, <2>2, Carried DEF Quietly
  <1>4. CASE StopStream
    BY <1>1, <1>4, StopStreamDelivers
  <1>5. CASE StreamedStop
    <2>1. /\ pc = "streamedStop" /\ Keeps /\ UNCHANGED <<uncertain, streamReq, rpc>> /\ Streaming
          /\ pc' = "clear" \/ (pc' = "method" /\ i' = 1)
      BY <1>5, NotWrittenKeeps DEF StreamedStop, deviceVars, Workers, Streaming
    <2>2. CASE pc' = "clear"
      BY <1>2, <2>1, <2>2 DEF Expecting, Commanding, Calling, Streaming, Quietly
    <2>3. CASE pc' = "method" /\ i' = 1
      <3>1. \A n, a, s : Expected(n, a, s) => Expected(n, a, s)'
        BY <2>1, <2>3 DEF Expected, InStep, Commanding
      <3> QED BY <1>1, <2>1, <3>1, Carried DEF Quietly
    <2> QED BY <2>1, <2>2, <2>3
  <1>6. CASE ClearSlot
    <2>1. /\ pc = "method" /\ pc' = "writeMethod" /\ Keeps
          /\ UNCHANGED <<job, i, uncertain, streamReq, rpc>>
      BY <1>6, NotWrittenKeeps DEF ClearSlot, deviceVars
    <2>2. \A n, a, s : Expected(n, a, s) => Expected(n, a, s)'
      BY <2>1 DEF Expected, InStep, Commanding, Streaming
    <2> QED BY <1>1, <2>1, <2>2, Carried DEF Quietly
  <1>7. CASE WriteMethod
    BY <1>1, <1>7, WriteMethodDelivers
  <1>8. CASE MethodNotSent
    <2>1. pc \in Calling /\ MethodDone(FALSE) /\ UNCHANGED <<uncertain, streamReq, rpc>> /\ Keeps
      BY <1>8, NotWrittenKeeps DEF MethodNotSent, NotWritten, Calling
    <2> QED BY <1>1, <2>1, CallEnds, Carried DEF Quietly
  <1>9. CASE MethodAnswered \/ MethodTimesOut
    <2>1. PICK ok : MethodDone(ok)
      BY <1>9 DEF MethodAnswered, MethodTimesOut
    <2>2. pc = "awaitMethod" /\ pc \in Calling /\ UNCHANGED <<uncertain, streamReq, rpc>> /\ Keeps
      BY <1>9, NotWrittenKeeps DEF MethodAnswered, MethodTimesOut, deviceVars, Calling
    <2> QED BY <1>1, <2>1, <2>2, CallEnds, Carried DEF Quietly
  <1>10. CASE ClearFlags \/ ShutdownReceive \/ JoinNtp \/ JoinReceive
    <2>1. /\ pc \in {"clear", "shut", "joinNtp", "joinReceive"} /\ UNCHANGED <<uncertain, streamReq>>
          /\ pc' \in {"shut", "joinNtp", "joinReceive", "finalStop"}
      BY <1>10 DEF ClearFlags, ShutdownReceive, JoinNtp, JoinReceive
    <2>2. Keeps
      BY <1>10, NotWrittenKeeps DEF ClearFlags, ShutdownReceive, JoinNtp, JoinReceive, deviceVars
    <2> QED BY <1>2, <2>1, <2>2 DEF Expecting, Commanding, Calling, Streaming, Quietly
  <1> QED BY <1>3, <1>4, <1>5, <1>6, <1>7, <1>8, <1>9, <1>10 DEF Stopping

(* The steps of the application. *)
LEMMA AppDelivers ==
    ASSUME Types, Sequence, Workers, Connections, Line, App
    PROVE  Delivers'
  <1>1. Delivers
    BY DEF Line
  <1>2. ASSUME \A n, a, s : Expected(n, a, s) => Expected(n, a, s)', Quietly
        PROVE  Delivers'
    BY <1>1, <1>2, Carried
  <1>3. ASSUME pc # "reply", pc' \notin Expecting, ~Streaming', UNCHANGED <<uncertain, streamReq>>
        PROVE  \A n, a, s : Expected(n, a, s) => Expected(n, a, s)'
    BY <1>3, Unsettled, NothingExpected
  <1>4. ASSUME UNCHANGED deviceVars
        PROVE  Quietly
    BY <1>4 DEF deviceVars, Keeps, Quietly
  <1>5. CASE Connect
    BY <1>5, ConnectionRenews, NothingSeen DEF Connect, Types
  <1>6. CASE Configure
    <2>1. /\ pc = "connected" /\ ~uncertain /\ ~streamReq /\ UNCHANGED deviceVars
      BY <1>6 DEF Configure, Line, appFrame
    <2>2. \A n, a, s : Seen(n, a, s) => a = "sSN"
      BY <1>1, <2>1, SeenIsExpected DEF Expected, InStep
    <2> QED BY <1>4, <2>1, <2>2, OnlyScans
  <1>7. CASE \/ InitStopped \/ ConfigureFailed \/ RunRefused \/ StartFailed \/ GiveUp \/ Disconnect
             \/ Stopped
    <2>1. /\ pc \in Quiet \ {"reply"} /\ UNCHANGED <<uncertain, streamReq, rpc>> /\ UNCHANGED deviceVars
          /\ pc' \in {"done", "idle", "stopScanning", "stopRecorder"}
      BY <1>7 DEF InitStopped, ConfigureFailed, RunRefused, StartFailed, GiveUp, Disconnect,
          Stopped,
          Enter, Call, appFrame, stopVars, receiveVars, Quiet
    <2>2. ~Joinable(rpc')
      BY <2>1 DEF Workers, Joinable
    <2>3. pc' \notin Expecting /\ ~Streaming'
      BY <2>1, <2>2 DEF Expecting, Commanding, Calling, Streaming
    <2> QED BY <1>2, <1>3, <1>4, <2>1, <2>3
  <1>8. CASE InitDisconnect \/ Assess
    <2>1. /\ pc \in Quiet \ {"reply"} /\ UNCHANGED <<uncertain, streamReq, rpc>>
          /\ pc' \in {"done", "idle"}
      BY <1>8 DEF InitDisconnect, Assess, Enter, stopVars, receiveVars, Quiet
    <2>2. Quietly
      BY <1>8, EmptyDrops DEF InitDisconnect, Assess, Types, Quietly
    <2>3. ~Joinable(rpc')
      BY <2>1 DEF Workers, Joinable
    <2>4. pc' \notin Expecting /\ ~Streaming'
      BY <2>1, <2>3 DEF Expecting, Commanding, Calling, Streaming
    <2> QED BY <1>2, <1>3, <2>1, <2>2, <2>4
  <1>9. CASE InitEnds \/ StartRecorder
    <2>1. /\ pc \in {"configured", "initialized"} /\ UNCHANGED <<uncertain, streamReq, rpc>>
          /\ UNCHANGED deviceVars /\ pc' \in {"initialized", "startScanning", "idle"} /\ pc \in Quiet
      BY <1>9 DEF InitEnds, StartRecorder, Enter, appFrame, stopVars, receiveVars, Quiet
    <2>2. ~Joinable(rpc')
      BY <2>1 DEF Workers, Joinable
    <2>3. \A n, a, s : Expected(n, a, s) => Expected(n, a, s)'
      BY <2>1, <2>2 DEF Expected, InStep, Commanding, Streaming
    <2> QED BY <1>2, <1>4, <2>1, <2>3
  <1>10. CASE StartScanning
    <2>1. /\ pc = "startScanning" /\ UNCHANGED <<uncertain, streamReq, rpc>> /\ UNCHANGED deviceVars
          /\ (pc' = "ask" /\ job' = "subscribe") \/ pc' = "stopScanning"
      BY <1>10 DEF StartScanning, Call, appFrame, stopVars, receiveVars
    <2>2. ~Joinable(rpc')
      BY <2>1 DEF Workers, Quiet, Joinable
    <2>3. \A n, a, s : Expected(n, a, s) => Expected(n, a, s)'
      BY <2>1, <2>2 DEF Expected, InStep, Commanding, Streaming, InIdentity, InAudit
    <2> QED BY <1>2, <1>4, <2>1, <2>3
  <1>11. CASE SpawnReceive \/ SpawnNtp \/ Arm \/ LoopEnds \/ Shutdown
    <2>1. /\ pc \in {"spawn", "spawnNtp", "arm", "loop", "idle"} /\ UNCHANGED <<uncertain, streamReq>>
          /\ UNCHANGED deviceVars
          /\ \/ pc = "spawn" /\ pc' \in {"spawnNtp", "arm"}
             \/ pc = "spawn" /\ pc' = "stopScanning" /\ rpc' = rpc
             \/ pc = "spawnNtp" /\ pc' \in {"arm", "stopScanning"}
             \/ pc = "arm" /\ pc' = "loop"
             \/ pc = "loop" /\ pc' = "idle"
             \/ pc = "idle" /\ pc' = "stopScanning" /\ rpc' = rpc
      BY <1>11 DEF SpawnReceive, SpawnNtp, Arm, LoopEnds, Shutdown, Enter, Call, appFrame, stopVars,
          receiveVars
    <2>2. pc' \notin Expecting /\ (Streaming' => Streaming)
      BY <2>1 DEF Expecting, Commanding, Calling, Streaming, Joinable, Workers, Quiet
    <2>3. \A n, a, s : Expected(n, a, s) => Expected(n, a, s)'
      <3>1. CASE Streaming'
        BY <2>1, <2>2, <3>1 DEF Expected, Expecting, Commanding, Calling, InStep
      <3>2. CASE ~Streaming'
        BY <1>3, <2>1, <2>2, <3>2
      <3> QED BY <3>1, <3>2
    <2> QED BY <1>2, <1>4, <2>1, <2>3
  <1>12. CASE StopRecorder
    <2>1. /\ pc = "stopRecorder" /\ UNCHANGED <<uncertain, streamReq>> /\ UNCHANGED deviceVars
          /\ pc' \in RecorderReturns
      BY <1>12, CalledFrom DEF StopRecorder, appFrame, stopVars
    <2>2. pc' \notin Expecting /\ ~Streaming'
      BY <2>1 DEF Expecting, Commanding, Calling, Streaming, RecorderReturns
    <2> QED BY <1>2, <1>3, <1>4, <2>1, <2>2
  <1> QED BY <1>5, <1>6, <1>7, <1>8, <1>9, <1>10, <1>11, <1>12 DEF App

(* The steps of the others. *)
LEMMA OthersDeliver ==
    ASSUME Types, Sequence, Workers, Ordered, Line,
           Device \/ Receive \/ NtpWatch \/ Telemetry \/ RecorderWrites \/ RecorderFails
              \/ StopRequested \/ Done \/ UNCHANGED vars
    PROVE  Delivers'
  <1>1. Delivers
    BY DEF Line
  <1> USE DEF Types, receiveFrame, ntpFrame, recorderFrame, ownerVars, deviceVars, stopVars,
              receiveVars, appFrame, vars
  <1>2. /\ UNCHANGED <<pc, job, i, uncertain, streamReq>> /\ (Joinable(rpc') <=> Joinable(rpc))
    <2>1. CASE Receive
      BY <2>1 DEF Receive, CheckRunning, ReceiveFrame, ReceiveNothing, ReceiveError, LeaveReceive,
          Joinable
    <2>2. CASE NtpWatch
      BY <2>2 DEF NtpWatch, NtpSleep, NtpProbe, NtpJudge, NtpFault
    <2>3. CASE Device
      BY <2>3 DEF Device, DeviceAnswers, DeviceScans
    <2>4. CASE Telemetry \/ RecorderWrites \/ RecorderFails
      BY <2>4 DEF Telemetry, RecorderWrites, RecorderFails
    <2>5. CASE StopRequested \/ Done \/ UNCHANGED vars
      BY <2>5 DEF StopRequested, Done
    <2> QED BY <2>1, <2>2, <2>3, <2>4, <2>5
  <1>3. \A n, a, s : Expected(n, a, s) => Expected(n, a, s)'
    BY <1>2, SameExpected
  <1>4. CASE DeviceAnswers
    <2>1. PICK ok \in BOOLEAN : Executes(ok) /\ Brings(ok)
      BY <1>4, AnswersExecute
    <2> QED BY <1>1, <1>3, <2>1, CarriedAfterExecution
  <1>5. CASE DeviceScans
    BY <1>1, <1>3, <1>5, ScansAdd, CarriedAfterScan
  <1>6. CASE Telemetry
    <2>1. pc = "loop" /\ streamReq
      BY <1>6 DEF Telemetry, Workers
    <2>2. ASSUME NEW n, NEW a, NEW s, a # "sAN"
          PROVE  Expected(n, a, s)'
      BY <1>2, <2>1, <2>2 DEF Expected, InStep, Commanding
    <2>3. \A n, a, s : Expected(n, a, s) => a # "sAN"
      BY <2>1 DEF Expected, Streaming
    <2>4. CASE Adds("telemetry", "sRA")
      <3>1. \A n, a, s, t : t = TRUE => (Expected(n, a, s) => Expected(n, a, t)')
        BY <2>2, <2>3
      <3>2. \A n, a, s : a = "sRA" => Expected(n, a, s)'
        BY <2>2
      <3> QED BY <1>1, <2>4, <3>1, <3>2, CarriedAfterWrite
    <2>5. CASE Keeps
      BY <1>1, <1>3, <2>5, Carried DEF Quietly
    <2> QED BY <1>6, <2>4, <2>5, TelemetryAdds
  <1>7. CASE ReceiveFrame
    BY <1>1, <1>3, <1>7, TailTakes, Carried DEF ReceiveFrame, Quietly
  <1>8. CASE ReceiveError
    BY <1>1, <1>3, <1>8, NotWrittenKeeps, Carried DEF ReceiveError, Quietly
  <1>9. CASE UNCHANGED deviceVars
    BY <1>1, <1>3, <1>9, Carried DEF Keeps, Quietly
  <1>10. CASE NtpWatch
    BY <1>9, <1>10 DEF NtpWatch, NtpSleep, NtpProbe, NtpJudge, NtpFault
  <1>11. CASE CheckRunning \/ ReceiveNothing \/ LeaveReceive
    BY <1>9, <1>11 DEF CheckRunning, ReceiveNothing, LeaveReceive
  <1>12. CASE RecorderWrites \/ RecorderFails \/ StopRequested \/ Done \/ UNCHANGED vars
    BY <1>9, <1>12 DEF RecorderWrites, RecorderFails, StopRequested, Done
  <1> QED BY <1>4, <1>5, <1>6, <1>7, <1>8, <1>10, <1>11, <1>12 DEF Device, Receive

(* Where commands and the stop lead to. *)
LEMMA AfterPlaces ==
    ASSUME Types, Sequence, pc \in {"ask", "reply"}, NEW outcome, NEW m, After(outcome, m)
    PROVE  pc' \in {"ask", "configured", "spawn", "ready", "rollback", "stopScanning"} \cup StopReturns
  <1>1. pc \in Commanding
    BY DEF Commanding
  <1>2. CASE CleansUp(outcome, m)
    BY <1>2, CalledFrom DEF CleansUp
  <1> QED BY <1>1, <1>2, AfterCases
      DEF Advances, Finishes, Subscribes, Polls, RollsBack, StartFails

LEMMA CommandsGoOn ==
    ASSUME Types, Sequence, Commands
    PROVE  /\ pc' \in {"ask", "reply", "ready", "configured", "spawn", "rollback", "reconnect",
                       "stopScanning"} \cup StopReturns
           /\ UNCHANGED <<slot, rpc, rec, stats, failed>>
  <1> USE DEF quietVars, stopVars, receiveVars, appVars
  <1>1. CASE AskWritten
    BY <1>1 DEF AskWritten
  <1>2. CASE AskNotWritten
    BY <1>2, AfterPlaces DEF AskNotWritten
  <1>3. CASE ReplyRead
    BY <1>3, AfterPlaces DEF ReplyRead
  <1>4. CASE ReplyTimesOut
    BY <1>4, AfterPlaces DEF ReplyTimesOut
  <1>5. CASE ReplyLost
    BY <1>5, AfterPlaces DEF ReplyLost
  <1>6. CASE PollAgain \/ ReadyDeadline
    BY <1>6 DEF PollAgain, ReadyDeadline
  <1>7. CASE Probe
    BY <1>7, AfterPlaces DEF Probe
  <1>8. CASE StopMeasurement
    BY <1>8, CalledFrom DEF StopMeasurement, Unwinding
  <1>9. CASE Reconnect
    BY <1>9, CalledFrom DEF Reconnect, Unwinding
  <1> QED BY <1>1, <1>2, <1>3, <1>4, <1>5, <1>6, <1>7, <1>8, <1>9 DEF Commands

LEMMA StoppingGoesOn ==
    ASSUME Stopping
    PROVE  pc \in Unwinding /\ pc' \in Unwinding /\ UNCHANGED <<rec, failed, uncertain, streamReq>>
  BY DEF Stopping, StopScanning, StopStream, StreamedStop, ClearSlot, WriteMethod, MethodNotSent,
      MethodAnswered, MethodTimesOut, ClearFlags, ShutdownReceive, JoinNtp, JoinReceive, MethodDone,
      Unwinding, quietVars, stopVars, appVars

(* The places the application goes to. *)
LEMMA AppGoesOn ==
    ASSUME Types, Sequence, App
    PROVE  /\ pc' \notin {"init", "reply", "writeMethod", "awaitMethod"}
           /\ pc' = "connected" => pc = "init"
           /\ UNCHANGED stopVars
  <1>1. CASE StopRecorder
    BY <1>1, CalledFrom DEF StopRecorder, RecorderReturns, appFrame
  <1> QED BY <1>1 DEF App, InitStopped, Connect, Configure, ConfigureFailed, InitDisconnect,
      InitEnds, RunRefused, StartRecorder, StartScanning, SpawnReceive, SpawnNtp, StartFailed,
      GiveUp, Arm, LoopEnds, Shutdown, Stopped, Disconnect, Assess, Enter, Call, appFrame

(* Everybody else leaves the owner where it is. *)
Others == Device \/ Receive \/ NtpWatch \/ Telemetry \/ RecorderWrites \/ RecorderFails
              \/ StopRequested \/ Done \/ UNCHANGED vars

LEMMA OthersGoOn ==
    ASSUME Others
    PROVE  /\ UNCHANGED <<ownerVars, uncertain, ms, streamReq, historyVars, failed>>
           /\ ~ReceiveFrame => UNCHANGED slot
  <1> USE DEF receiveFrame, ntpFrame, recorderFrame, ownerVars, stopVars, receiveVars, appFrame,
              appVars, vars
  <1>1. CASE Receive
    BY <1>1 DEF Receive, CheckRunning, ReceiveFrame, ReceiveNothing, ReceiveError, LeaveReceive
  <1>2. CASE NtpWatch
    BY <1>2 DEF NtpWatch, NtpSleep, NtpProbe, NtpJudge, NtpFault
  <1>3. CASE Device
    BY <1>3 DEF Device, DeviceAnswers, DeviceScans
  <1>4. CASE Telemetry \/ RecorderWrites \/ RecorderFails
    BY <1>4 DEF Telemetry, RecorderWrites, RecorderFails
  <1>5. CASE StopRequested \/ Done \/ UNCHANGED vars
    BY <1>5 DEF StopRequested, Done
  <1> QED BY <1>1, <1>2, <1>3, <1>4, <1>5 DEF Others

LEMMA NextIsOne ==
    ASSUME [Next]_vars
    PROVE  Commands \/ Stopping \/ App \/ Others
  BY DEF Next, Others

(* What is in the slot when a method is called answers nothing, and then only
   the method. *)
LEMMA SlotKept ==
    ASSUME Types, Sequence, Line, [Next]_vars
    PROVE  SlotIsFresh'
  <1>1. ASSUME pc' \notin {"writeMethod", "awaitMethod"}
        PROVE  SlotIsFresh'
    BY <1>1 DEF SlotIsFresh
  <1>2. ASSUME UNCHANGED <<pc, i, slot>>
        PROVE  SlotIsFresh'
    BY <1>2 DEF SlotIsFresh, Line, Method
  <1>3. CASE Commands
    BY <1>1, <1>3, CommandsGoOn DEF StopReturns
  <1>4. CASE App
    BY <1>1, <1>4, AppGoesOn
  <1>5. CASE Stopping
    <2>1. CASE ClearSlot
      <3>1. slot'.name = "" /\ i \in {1, 2} /\ i' = i
        BY <2>1 DEF ClearSlot, NoSlot, Sequence, Calling
      <3>2. Method' = Method
        BY <3>1 DEF Method
      <3> QED BY <3>1, <3>2, MethodFields DEF SlotIsFresh
    <2>2. CASE WriteMethod
      <3>1. pc = "writeMethod" /\ slot'.name = slot.name /\ i' = i
        BY <2>2, SlotMarked DEF WriteMethod
      <3>2. Method' = Method
        BY <3>1 DEF Method
      <3> QED BY <3>1, <3>2 DEF SlotIsFresh, Line
    <2>3. CASE ~ClearSlot /\ ~WriteMethod
      BY <1>1, <1>5, <2>3 DEF Stopping, StopScanning, StopStream, StreamedStop, MethodNotSent,
          MethodAnswered, MethodTimesOut, ClearFlags, ShutdownReceive, JoinNtp, JoinReceive,
          MethodDone
    <2> QED BY <2>1, <2>2, <2>3
  <1>6. CASE Others
    <2>1. UNCHANGED <<pc, i>> /\ Method' = Method
      BY <1>6, OthersGoOn DEF ownerVars, Method
    <2>2. CASE ReceiveFrame /\ pc \in {"writeMethod", "awaitMethod"}
      <3> DEFINE h == link.wire[1]
      <3>1. Len(link.wire) >= 1
        BY <2>2, TailTakes DEF ReceiveFrame, receiveFrame, Takes, Types
      <3>2. Expected(h.name, h.answer, h.stale)
        BY <3>1, HeadExpected DEF Line
      <3>3. \/ slot' = slot
            \/ h.answer = "sFA" /\ slot'.name = "sFA"
            \/ h.answer = "sAN" /\ slot'.name = h.name /\ slot'.stale = h.stale
        BY <2>2, SlotTyped
      <3>4. i \in {1, 2} /\ Method.name = IF i = 1 THEN "SetAccessMode" ELSE "LMCstopmeas"
        BY <2>2, MethodFields DEF Sequence, Calling
      <3> HIDE DEF h
      <3>5. CASE slot' = slot
        BY <1>2, <2>1, <3>5
      <3>6. CASE slot'.name = "sFA"
        BY <2>1, <3>4, <3>6 DEF SlotIsFresh
      <3>7. CASE h.answer = "sAN" /\ slot'.name = h.name /\ slot'.stale = h.stale
        BY <2>1, <2>2, <3>2, <3>4, <3>7 DEF SlotIsFresh, Expected
      <3> QED BY <3>3, <3>5, <3>6, <3>7
    <2>3. CASE ~ReceiveFrame
      BY <1>2, <1>6, <2>1, <2>3, OthersGoOn
    <2> QED BY <1>1, <2>1, <2>2, <2>3
  <1> QED BY <1>3, <1>4, <1>5, <1>6, NextIsOne

LEMMA LineKept ==
    ASSUME Types, Places, Ordered, Line, [Next]_vars
    PROVE  Line'
  <1>1. /\ Sequence /\ Workers /\ Measurement /\ Connections
        /\ Delivers /\ SlotIsFresh /\ mixed = FALSE
    BY DEF Places, Line, Types, StopTypes
  <1>2. SlotIsFresh'
    BY <1>1, SlotKept
  <1>3. CASE Commands
    <2>1. Delivers'
      BY <1>1, <1>3, CommandsDeliver
    <2>2. mixed' = FALSE
      <3>1. CASE ReplyRead
        BY <1>1, <3>1, ReplyReadDelivers
      <3>2. CASE ~ReplyRead
        BY <1>1, <1>3, <3>2 DEF Commands, AskWritten, AskNotWritten, ReplyTimesOut, ReplyLost,
            PollAgain, ReadyDeadline, Probe, StopMeasurement, Reconnect, stopVars
      <3> QED BY <3>1, <3>2
    <2> QED BY <1>1, <1>2, <1>3, <2>1, <2>2, CommandsGoOn DEF Line, StopReturns
  <1>4. CASE Stopping
    <2>1. Delivers'
      BY <1>1, <1>4, StoppingDelivers
    <2>2. mixed' = FALSE
      <3>1. CASE MethodAnswered
        BY <1>1, <3>1 DEF MethodAnswered, SlotRecorded, SlotIsFresh
      <3>2. CASE ~MethodAnswered
        BY <1>1, <1>4, <3>2 DEF Stopping, StopScanning, StopStream, StreamedStop, ClearSlot,
            WriteMethod, MethodNotSent, MethodTimesOut, ClearFlags, ShutdownReceive, JoinNtp,
            JoinReceive, stopVars
      <3> QED BY <3>1, <3>2
    <2> QED BY <1>2, <1>4, <2>1, <2>2, StoppingGoesOn DEF Line, Unwinding
  <1>5. CASE App
    <2>1. Delivers'
      BY <1>1, <1>5, AppDelivers
    <2> QED BY <1>1, <1>2, <1>5, <2>1, AppGoesOn DEF Line, stopVars
  <1>6. CASE Others
    <2>1. Delivers'
      BY <1>1, <1>6, OthersDeliver DEF Others
    <2> QED BY <1>1, <1>2, <1>6, <2>1, OthersGoOn DEF Line, ownerVars
  <1> QED BY <1>3, <1>4, <1>5, <1>6, NextIsOne

----------------------------------------------------------------------------
(* Laser and motor. *)

(* The scanner executes, and nothing new is written. *)
LEMMA NothingWritten ==
    ASSUME Types, Stops, Keeps \/ Takes \/ Drops \/ Renews \/ Scans \/ Answered,
           ms.attempted => ms'.attempted
    PROVE  (Off => Off') /\ Stops'
  <1>1. /\ link \in LinkType /\ inbox \in Seq(InboxItem) /\ dev \in DeviceType
        /\ Len(inbox) \in Nat /\ Len(link.wire) \in Nat
        /\ \A k \in 1 .. Len(inbox) : inbox[k] \in InboxItem
    BY LinkFields, LenProperties, ElementOfSeq DEF Types, DeviceTypes
  <1>2. CASE Keeps
    BY <1>2 DEF Keeps, Stops, Off
  <1>3. CASE Takes
    <2>1. /\ link'.conn = link.conn /\ inbox' = inbox /\ dev' = dev
          /\ \A k \in 1 .. Len(link'.wire) :
                k + 1 \in 1 .. Len(link.wire) /\ link'.wire[k] = link.wire[k + 1]
      BY <1>1, <1>3 DEF Takes
    <2>2. Off' <=> Off
      BY <2>1 DEF Off
    <2> QED BY <2>1, <2>2 DEF Stops
  <1>4. CASE Drops \/ Renews
    BY <1>4 DEF Drops, Renews, Stops, Off
  <1>5. CASE Scans
    <2>1. Scan.name = "scan"
      BY DEF Scan
    <2>2. /\ inbox' = inbox /\ dev' = dev
          /\ \A k \in 1 .. Len(link'.wire) :
                \/ k \in 1 .. Len(link.wire) /\ link'.wire[k] = link.wire[k]
                \/ link'.wire[k].name = "scan"
      BY <1>1, <1>5, <2>1 DEF Scans, Gets
    <2>3. Off' <=> Off
      BY <2>2 DEF Off
    <2> QED BY <2>2, <2>3 DEF Stops
  <1>6. CASE Answered
    <2>1. PICK ok \in BOOLEAN : Executes(ok)
      BY <1>6 DEF Answered
    <2>2. /\ Len(inbox) >= 1 /\ dev' = Executed(inbox[1], ok)
          /\ \A k \in 1 .. Len(inbox') : /\ k + 1 \in 1 .. Len(inbox) /\ k + 1 > 1
                                         /\ inbox'[k] = inbox[k + 1]
      BY <1>1, <2>1 DEF Executes
    <2>3. inbox[1] \in InboxItem /\ 1 \in 1 .. Len(inbox)
      BY <1>1, <2>2
    <2>4. /\ ok /\ inbox[1].name = "LMCstopmeas" => dev'.measuring = FALSE
          /\ inbox[1].name # "LMCstartmeas" => dev'.measuring = FALSE \/ dev'.measuring = dev.measuring
      BY <1>1, <2>2, <2>3, ExecutedFields
    <2>5. Off => Off'
      BY <2>2, <2>3, <2>4 DEF Off
    <2>6. ok /\ inbox[1].name = "LMCstopmeas" => Off'
      BY <2>2, <2>3, <2>4 DEF Off, Stops
    <2>7. /\ \A k \in 1 .. Len(inbox') : inbox'[k].name = "LMCstopmeas" => ms'.attempted
          /\ \A j, k \in 1 .. Len(inbox') :
                j < k /\ inbox'[j].name = "LMCstopmeas" => inbox'[k].name # "LMCstartmeas"
      <3>1. \A k \in 1 .. Len(inbox') : inbox'[k].name = "LMCstopmeas" => ms.attempted
        BY <2>2 DEF Stops
      <3>2. ASSUME NEW j \in 1 .. Len(inbox'), NEW k \in 1 .. Len(inbox'), j < k,
                   inbox'[j].name = "LMCstopmeas"
            PROVE  inbox'[k].name # "LMCstartmeas"
        <4>1. /\ j + 1 \in 1 .. Len(inbox) /\ k + 1 \in 1 .. Len(inbox) /\ j + 1 < k + 1
              /\ inbox[j + 1].name = "LMCstopmeas" /\ inbox'[k] = inbox[k + 1]
          BY <2>2, <3>2
        <4> QED BY <4>1 DEF Stops
      <3> QED BY <3>1, <3>2
    <2>8. ASSUME NEW item, Gets(item),
                 item.name = "LMCstopmeas" => ms'.attempted /\ (item.good => Off')
          PROVE  \A k \in 1 .. Len(link'.wire) :
                    link'.wire[k].name = "LMCstopmeas" => ms'.attempted /\ (link'.wire[k].good => Off')
      <3> TAKE k \in 1 .. Len(link'.wire)
      <3>1. (k \in 1 .. Len(link.wire) /\ link'.wire[k] = link.wire[k]) \/ link'.wire[k] = item
        BY <1>1, <2>8 DEF Gets
      <3> QED BY <2>5, <2>8, <3>1 DEF Stops
    <2>9. CASE link'.wire = link.wire
      BY <2>5, <2>7, <2>9 DEF Stops
    <2>10. CASE \E item \in WireItem : Gets(item) /\ item.name = inbox[1].name /\ item.good = ok
      <3>1. PICK item \in WireItem : Gets(item) /\ item.name = inbox[1].name /\ item.good = ok
        BY <2>10
      <3>2. item.name = "LMCstopmeas" => ms'.attempted /\ (item.good => Off')
        BY <2>3, <2>6, <3>1 DEF Stops
      <3> QED BY <2>5, <2>7, <2>8, <3>1, <3>2 DEF Stops
    <2>11. CASE Gets(Cut)
      <3>1. Cut.name # "LMCstopmeas"
        BY DEF Cut
      <3> QED BY <2>5, <2>7, <2>8, <2>11, <3>1 DEF Stops
    <2> QED BY <2>1, <2>9, <2>10, <2>11 DEF Executes, Brings
  <1> QED BY <1>2, <1>3, <1>4, <1>5, <1>6

(* A command that is not a start is written; a stop is marked before. *)
LEMMA NoStartWritten ==
    ASSUME Types, Stops, NEW name, NEW answer, Adds(name, answer), name # "LMCstartmeas",
           ms.attempted => ms'.attempted, name = "LMCstopmeas" => ms'.attempted
    PROVE  (Off => Off') /\ Stops'
  <1>1. Len(inbox) \in Nat /\ Len(link.wire) \in Nat
    BY LinkFields, LenProperties DEF Types, DeviceTypes
  <1>2. /\ dev' = dev /\ Len(link'.wire) = Len(link.wire)
        /\ \A k \in 1 .. Len(inbox') :
              \/ k = Len(inbox) + 1 /\ inbox'[k].name = name
              \/ k \in 1 .. Len(inbox) /\ inbox'[k].name = inbox[k].name
        /\ \A k \in 1 .. Len(link.wire) :
              link'.wire[k].name = link.wire[k].name /\ link'.wire[k].good = link.wire[k].good
    BY <1>1 DEF Adds
  <1>3. Off => Off'
    BY <1>2 DEF Off
  <1>4. \A k \in 1 .. Len(inbox') : inbox'[k].name = "LMCstopmeas" => ms'.attempted
    BY <1>2 DEF Stops
  <1>5. \A j, k \in 1 .. Len(inbox') :
           j < k /\ inbox'[j].name = "LMCstopmeas" => inbox'[k].name # "LMCstartmeas"
    <2> TAKE j, k \in 1 .. Len(inbox')
    <2>1. CASE k = Len(inbox) + 1 /\ inbox'[k].name = name
      BY <2>1
    <2>2. CASE k \in 1 .. Len(inbox) /\ inbox'[k].name = inbox[k].name
      BY <1>1, <1>2, <2>2 DEF Stops
    <2> QED BY <1>2, <2>1, <2>2
  <1> QED BY <1>2, <1>3, <1>4, <1>5 DEF Stops

(* A start is written, when no stop has been tried since the last. *)
LEMMA StartWritten ==
    ASSUME Types, Laser, NEW name, NEW answer, Adds(name, answer), name = "LMCstartmeas",
           ~ms.attempted, ms'.requested, ~ms'.confirmed, slot' = slot
    PROVE  Laser'
  <1>1. Len(inbox) \in Nat /\ Len(link.wire) \in Nat
    BY LinkFields, LenProperties DEF Types, DeviceTypes
  <1>2. /\ dev' = dev /\ Len(link'.wire) = Len(link.wire)
        /\ \A k \in 1 .. Len(inbox') :
              \/ k = Len(inbox) + 1 /\ inbox'[k].name = name
              \/ k \in 1 .. Len(inbox) /\ inbox'[k].name = inbox[k].name
        /\ \A k \in 1 .. Len(link.wire) : link'.wire[k].name = link.wire[k].name
    BY <1>1 DEF Adds
  <1>3. slot.name # "LMCstopmeas"
    BY DEF Laser
  <1>4. \A k \in 1 .. Len(link.wire) : link.wire[k].name # "LMCstopmeas"
    BY DEF Laser, Stops
  <1>5. \A k \in 1 .. Len(inbox) : inbox[k].name # "LMCstopmeas"
    BY DEF Laser, Stops
  <1>6. \A k \in 1 .. Len(inbox') : inbox'[k].name # "LMCstopmeas"
    BY <1>2, <1>5
  <1>7. \A k \in 1 .. Len(link'.wire) : link'.wire[k].name # "LMCstopmeas"
    BY <1>2, <1>4
  <1> QED BY <1>3, <1>6, <1>7 DEF Laser, Stops

(* Every other step. *)
LEMMA LaserStays ==
    ASSUME Types, Laser, Off => Off', Stops', ms.attempted => ms'.attempted,
           ms.requested => ms'.requested, ms'.confirmed => ms.confirmed \/ Off,
           \/ slot'.name # "LMCstopmeas" \/ (slot'.name = slot.name /\ slot'.good = slot.good)
           \/ ms.attempted /\ (slot'.good => Off)
    PROVE  Laser'
  BY DEF Laser

(* The outcome of a command settles the stop only if it confirms it. *)
LEMMA AfterSettles ==
    ASSUME Types, Sequence, pc \in {"ask", "reply"}, NEW outcome, NEW m \in MeasurementType,
           After(outcome, m)
    PROVE  /\ ms'.requested = m.requested /\ ms'.attempted = m.attempted
           /\ ms'.confirmed => m.confirmed \/ (job = "cleanup" /\ i = 2 /\ outcome = "ok")
  <1>1. CASE CleansUp(outcome, m)
    BY <1>1, CleansUpFields DEF CleansUp
  <1>2. CASE ms' = m
    BY <1>2
  <1> QED BY <1>1, <1>2, AfterCases
      DEF Commanding, Advances, Finishes, Subscribes, Polls, RollsBack, StartFails

LEMMA CommandsLaser ==
    ASSUME Types, Sequence, Measurement, Laser, Commands
    PROVE  Laser'
  <1>1. Stops /\ ms \in MeasurementType /\ slot' = slot
    BY CommandsGoOn DEF Laser, Types, StopTypes
  <1> DEFINE Untold == Keeps \/ Takes \/ Drops \/ Renews \/ Scans \/ Answered
  <1>2. ASSUME Untold, ms.attempted => ms'.attempted, ms.requested => ms'.requested,
               ms'.confirmed => ms.confirmed \/ Off
        PROVE  Laser'
    <2>1. (Off => Off') /\ Stops'
      BY <1>1, <1>2, NothingWritten
    <2> QED BY <1>1, <1>2, <2>1, LaserStays
  <1>3. CASE AskWritten
    <2>1. /\ pc \in Commanding /\ Adds(Todo[i].name, Todo[i].answer) /\ ms' = Asked
      BY <1>3, AskWrittenAdds DEF AskWritten, Commanding
    <2>2. Marks(ms) /\ Todo[i].name = "LMCstartmeas" => ~ms.attempted
      BY <2>1, Current DEF Marks
    <2>3. Marks(ms)
      BY <2>1, MarksHold
    <2>4. CASE Todo[i].name = "LMCstartmeas"
      <3>1. ms'.requested = TRUE /\ ms'.confirmed = FALSE
        BY <1>1, <2>1, <2>4, AskedFields
      <3> QED BY <1>1, <2>1, <2>2, <2>3, <2>4, <3>1, StartWritten
    <2>5. CASE Todo[i].name # "LMCstartmeas"
      <3>1. /\ ms'.requested = ms.requested /\ ms'.confirmed = ms.confirmed
            /\ ms.attempted => ms'.attempted
            /\ Todo[i].name = "LMCstopmeas" => ms'.attempted
        BY <1>1, <2>1, <2>5, AskedFields
      <3>2. (Off => Off') /\ Stops'
        BY <1>1, <2>1, <2>5, <3>1, NoStartWritten
      <3> QED BY <1>1, <3>1, <3>2, LaserStays
    <2> QED BY <2>4, <2>5
  <1>4. CASE AskNotWritten
    <2>1. /\ pc \in Commanding /\ pc \in {"ask", "reply"} /\ After("error", Asked) /\ Keeps
      BY <1>4, NotWrittenKeeps DEF AskNotWritten, NotWritten, Commanding, Types
    <2>2. Marks(ms) /\ Marks(Asked)
      BY <2>1, MarksHold
    <2>3. Asked \in MeasurementType
      BY <2>2 DEF Marks
    <2>4. ms'.requested = Asked.requested /\ ms'.attempted = Asked.attempted /\ ~ms'.confirmed
      BY <2>1, <2>2, <2>3, AfterSettles DEF Marks
    <2>5. /\ ms.requested => Asked.requested
          /\ ms.attempted => Asked.attempted
      <3>1. job # "cleanup" => ~ms.attempted
        BY <2>2 DEF Marks
      <3>2. Todo[i].name = "LMCstartmeas" => job # "cleanup"
        BY <2>1, Current
      <3> QED BY <1>1, <3>1, <3>2, AskedFields
    <2> QED BY <1>2, <2>1, <2>4, <2>5
  <1>5. CASE ReplyRead
    <2> DEFINE h == link.wire[1]
    <2>1. /\ pc = "reply" /\ pc \in {"ask", "reply"} /\ pc \in Commanding /\ (Takes \/ Drops)
          /\ Head(link.wire) = h /\ Len(link.wire) >= 1 /\ Len(link.wire) \in Nat
      BY <1>5, ReplyTakes, LinkFields DEF ReplyRead, Commanding, Types, DeviceTypes
    <2>2. PICK outcome : /\ After(outcome, ms)
                         /\ outcome = "ok" => Matches(h, Todo[i]) /\ (Todo[i].checks => h.good)
      <3>1. \/ After(IF ~Matches(h, Todo[i]) THEN "error"
                     ELSE IF Todo[i].checks /\ ~h.good THEN "rejected" ELSE "ok", ms)
            \/ After("sFA", ms) \/ After("error", ms)
        BY <1>5, <2>1 DEF ReplyRead
      <3> HIDE DEF h
      <3> QED BY <3>1
    <2>3. /\ ms'.requested = ms.requested /\ ms'.attempted = ms.attempted
          /\ ms'.confirmed => ms.confirmed \/ (job = "cleanup" /\ i = 2 /\ outcome = "ok")
      BY <1>1, <2>1, <2>2, AfterSettles
    <2>4. ASSUME job = "cleanup", i = 2
          PROVE  Todo[i].checks = TRUE /\ Todo[i].name = "LMCstopmeas"
      <3>1. /\ Todo[i].checks = TRUE
            /\ Todo[i].name = IF i = 1 THEN "SetAccessMode" ELSE "LMCstopmeas"
        BY <2>1, <2>4, Current
      <3>2. i # 1
        BY <2>4
      <3> QED BY <3>1, <3>2
    <2>5. h.name = "LMCstopmeas" /\ h.good => Off
      BY <1>1, <2>1 DEF Stops
    <2>6. ms'.confirmed => ms.confirmed \/ Off
      BY <2>2, <2>3, <2>4, <2>5 DEF Matches
    <2> QED BY <1>2, <2>1, <2>3, <2>6
  <1>6. CASE ReplyTimesOut \/ ReplyLost
    <2>1. Untold
      BY <1>6, TimeoutExecutes, EmptyDrops DEF ReplyLost, Types, Answered
    <2>2. pc \in {"ask", "reply"} /\ After("error", ms)
      BY <1>6 DEF ReplyTimesOut, ReplyLost
    <2> QED BY <1>1, <1>2, <2>1, <2>2, AfterSettles
  <1>7. CASE PollAgain \/ ReadyDeadline
    <2>1. Keeps /\ ms' = ms
      BY <1>7, NotWrittenKeeps DEF PollAgain, ReadyDeadline, deviceVars, stopVars, Types
    <2> QED BY <1>2, <2>1
  <1>8. CASE Probe
    <2>1. PICK outcome \in {"ok", "rejected"} : After(outcome, ms)
      BY <1>8 DEF Probe
    <2>2. /\ Keeps /\ pc \in {"ask", "reply"} /\ pc \in Commanding /\ Todo[i].name = "probe"
      BY <1>8, NotWrittenKeeps DEF Probe, deviceVars, Types, Commanding
    <2>3. job # "cleanup"
      BY <2>2, Current
    <2> QED BY <1>1, <1>2, <2>1, <2>2, <2>3, AfterSettles
  <1>9. CASE StopMeasurement
    <2>1. Keeps
      BY <1>9, NotWrittenKeeps DEF StopMeasurement, deviceVars, Types
    <2>2. ms' = ms \/ ms' = [ms EXCEPT !.cleanup = TRUE]
      BY <1>9 DEF StopMeasurement
    <2> QED BY <1>1, <1>2, <2>1, <2>2, CleanupFields
  <1>10. CASE Reconnect
    <2>1. Renews
      BY <1>10, ConnectionRenews DEF Reconnect, Types
    <2>2. ms' = ms \/ ms' = [ms EXCEPT !.error = TRUE]
      BY <1>10 DEF Reconnect
    <2> QED BY <1>1, <1>2, <2>1, <2>2, ErrorFields
  <1> QED BY <1>3, <1>4, <1>5, <1>6, <1>7, <1>8, <1>9, <1>10 DEF Commands

LEMMA StoppingLaser ==
    ASSUME Types, Sequence, Measurement, Laser, Stopping
    PROVE  Laser'
  <1>1. Stops /\ ms \in MeasurementType
    BY DEF Laser, Types, StopTypes
  <1>2. ASSUME Keeps, ms.attempted => ms'.attempted, ms.requested => ms'.requested,
               ms'.confirmed => ms.confirmed \/ Off, slot'.name # "LMCstopmeas" \/ slot' = slot
        PROVE  Laser'
    <2>1. (Off => Off') /\ Stops'
      BY <1>1, <1>2, NothingWritten
    <2> QED BY <1>1, <1>2, <2>1, LaserStays
  <1>3. ASSUME NEW name, NEW answer, Adds(name, answer), name # "LMCstartmeas",
               name = "LMCstopmeas" => ms.attempted, ms' = ms,
               slot'.name = slot.name, slot'.good = slot.good
        PROVE  Laser'
    <2>1. (Off => Off') /\ Stops'
      BY <1>1, <1>3, NoStartWritten
    <2> QED BY <1>1, <1>3, <2>1, LaserStays
  <1>4. ASSUME NEW ok \in BOOLEAN, MethodDone(ok), pc \in Calling, ok /\ i = 2 => Off, Keeps,
               slot' = slot
        PROVE  Laser'
    <2>1. i \in {1, 2}
      BY <1>4 DEF Sequence
    <2>2. /\ ms.requested => ms'.requested
          /\ ms.attempted => ms'.attempted
          /\ ms'.confirmed => ms.confirmed \/ Off
      BY <1>1, <1>4, <2>1, MethodDoneFields
    <2> QED BY <1>2, <1>4, <2>2
  <1> USE DEF Types, stopVars, deviceVars
  <1>5. CASE StopStream
    BY <1>2, <1>3, <1>5, StopStreamAdds DEF StopStream
  <1>6. CASE StreamedStop
    <2>1. Keeps /\ slot' = slot /\ (ms' = ms \/ ms' = [ms EXCEPT !.cleanup = TRUE])
      BY <1>6, NotWrittenKeeps DEF StreamedStop
    <2> QED BY <1>1, <1>2, <2>1, CleanupFields
  <1>7. CASE ClearSlot
    <2>1. Keeps /\ ms' = ms /\ slot'.name # "LMCstopmeas"
      BY <1>7, NotWrittenKeeps DEF ClearSlot, NoSlot
    <2> QED BY <1>2, <2>1
  <1>8. CASE WriteMethod
    <2>1. /\ Adds(Method.name, Method.answer) /\ i \in {1, 2} /\ ms' = ms
          /\ slot'.name = slot.name /\ slot'.good = slot.good
          /\ pc \in Calling
      BY <1>8, WriteMethodAdds, SlotMarked DEF WriteMethod, Calling
    <2>2. /\ Method.name # "LMCstartmeas"
          /\ Method.name = "LMCstopmeas" => ms.attempted
      BY <2>1, MethodFields DEF Measurement
    <2> QED BY <1>3, <2>1, <2>2
  <1>9. CASE MethodNotSent
    BY <1>4, <1>9, NotWrittenKeeps DEF MethodNotSent, NotWritten, Calling
  <1>10. CASE MethodAnswered
    <2> DEFINE ok == slot.name = Method.name /\ slot.good
    <2>1. /\ MethodDone(ok) /\ pc \in Calling /\ Keeps /\ slot' = slot /\ ok \in BOOLEAN
      BY <1>10, NotWrittenKeeps DEF MethodAnswered, Calling
    <2>2. ok /\ i = 2 => Off
      BY MethodFields DEF Laser
    <2> HIDE DEF ok
    <2> QED BY <1>4, <2>1, <2>2
  <1>11. CASE MethodTimesOut
    BY <1>4, <1>11, NotWrittenKeeps DEF MethodTimesOut, Calling
  <1>12. CASE StopScanning \/ ClearFlags \/ ShutdownReceive \/ JoinNtp \/ JoinReceive
    <2>1. Keeps /\ slot' = slot /\ ms' = ms
      BY <1>12, NotWrittenKeeps DEF StopScanning, ClearFlags, ShutdownReceive, JoinNtp, JoinReceive
    <2> QED BY <1>2, <2>1
  <1> QED BY <1>5, <1>6, <1>7, <1>8, <1>9, <1>10, <1>11, <1>12 DEF Stopping

LEMMA ReceiveLaser ==
    ASSUME Types, Stops, ReceiveFrame
    PROVE  /\ Takes
           /\ \/ slot'.name # "LMCstopmeas" \/ slot' = slot
              \/ ms.attempted /\ (slot'.good => Off)
  <1>1. Takes
    BY TailTakes DEF ReceiveFrame, receiveFrame, Types
  <1>2. Len(link.wire) \in Nat
    BY LinkFields DEF Types, DeviceTypes
  <1>3. 1 \in 1 .. Len(link.wire)
    BY <1>1, <1>2 DEF Takes
  <1>4. \/ slot' = slot
        \/ /\ slot'.name = IF link.wire[1].answer = "sFA" THEN "sFA" ELSE link.wire[1].name
           /\ slot'.good = link.wire[1].good
    BY SlotTyped
  <1>5. link.wire[1].name = "LMCstopmeas" => ms.attempted /\ (link.wire[1].good => Off)
    BY <1>3 DEF Stops
  <1> QED BY <1>1, <1>4, <1>5

LEMMA LaserKept ==
    ASSUME Types, Places, Laser, [Next]_vars
    PROVE  Laser'
  <1>1. Stops /\ Sequence /\ Measurement
    BY DEF Laser, Places
  <1>2. ASSUME Keeps \/ Takes \/ Drops \/ Renews \/ Scans \/ Answered, ms' = ms,
               \/ slot'.name # "LMCstopmeas" \/ slot' = slot
               \/ ms.attempted /\ (slot'.good => Off)
        PROVE  Laser'
    <2>1. (Off => Off') /\ Stops'
      BY <1>1, <1>2, NothingWritten
    <2> QED BY <1>1, <1>2, <2>1, LaserStays
  <1> USE DEF Types, appFrame, stopVars, deviceVars, receiveFrame, ntpFrame, recorderFrame, vars
  <1>3. CASE Commands
    BY <1>1, <1>3, CommandsLaser
  <1>4. CASE Stopping
    BY <1>1, <1>4, StoppingLaser
  <1>5. CASE App
    <2>1. ms' = ms /\ slot' = slot
      BY <1>1, <1>5, AppGoesOn
    <2>2. CASE Connect
      BY <1>2, <2>1, <2>2, ConnectionRenews DEF Connect
    <2>3. CASE InitDisconnect \/ Assess
      BY <1>2, <2>1, <2>3, EmptyDrops DEF InitDisconnect, Assess
    <2>4. CASE ~Connect /\ ~InitDisconnect /\ ~Assess
      <3>1. UNCHANGED deviceVars
        BY <1>5, <2>4 DEF App, InitStopped, Configure, ConfigureFailed, InitEnds, RunRefused,
            StartRecorder, StartScanning, SpawnReceive, SpawnNtp, StartFailed, GiveUp, StopRecorder,
            Arm, LoopEnds, Shutdown, Stopped, Disconnect
      <3> QED BY <1>2, <2>1, <3>1 DEF Keeps
    <2> QED BY <2>2, <2>3, <2>4
  <1>6. CASE Others
    <2>1. ms' = ms /\ (~ReceiveFrame => slot' = slot)
      BY <1>6, OthersGoOn
    <2>2. CASE DeviceAnswers
      BY <1>2, <2>1, <2>2, AnswersExecute DEF Answered, DeviceAnswers
    <2>3. CASE DeviceScans
      BY <1>2, <2>1, <2>3, ScansAdd DEF DeviceScans
    <2>4. CASE ReceiveFrame
      BY <1>1, <1>2, <2>1, <2>4, ReceiveLaser
    <2>5. CASE ReceiveError
      BY <1>2, <2>1, <2>5, NotWrittenKeeps DEF ReceiveError
    <2>6. CASE Telemetry
      <3>1. CASE Keeps
        BY <1>2, <2>6, <3>1 DEF Telemetry
      <3>2. CASE Adds("telemetry", "sRA")
        <4>1. ms' = ms /\ slot' = slot
          BY <2>6 DEF Telemetry
        <4>2. (Off => Off') /\ Stops'
          BY <1>1, <3>2, <4>1, NoStartWritten
        <4> QED BY <4>1, <4>2, LaserStays
      <3> QED BY <2>6, <3>1, <3>2, TelemetryAdds
    <2>7. CASE CheckRunning \/ ReceiveNothing \/ LeaveReceive \/ NtpWatch
      <3>1. UNCHANGED <<deviceVars, ms, slot>>
        BY <2>7 DEF CheckRunning, ReceiveNothing, LeaveReceive, NtpWatch, NtpSleep, NtpProbe,
            NtpJudge, NtpFault
      <3> QED BY <1>2, <3>1 DEF Keeps
    <2>8. CASE RecorderWrites \/ RecorderFails \/ StopRequested \/ Done \/ UNCHANGED vars
      <3>1. UNCHANGED <<deviceVars, ms, slot>>
        BY <2>8 DEF RecorderWrites, RecorderFails, StopRequested, Done
      <3> QED BY <1>2, <3>1 DEF Keeps
    <2> QED BY <1>6, <2>2, <2>3, <2>4, <2>5, <2>6, <2>7, <2>8 DEF Others, Device, Receive
  <1> QED BY <1>3, <1>4, <1>5, <1>6, NextIsOne

----------------------------------------------------------------------------
(* What has been recorded. *)

LEMMA RecorderKept ==
    ASSUME Types, Places, Recorder, [Next]_vars
    PROVE  Recorder'
  <1>1. Sequence /\ Workers
    BY DEF Places
  <1>2. /\ rec \in RecorderType /\ rec.written <= rec.queued
        /\ rec.written \in Nat /\ rec.queued \in Nat
    BY RecorderFields DEF Types, AppTypes
  <1>3. CASE Commands
    BY <1>1, <1>3, CommandsGoOn DEF Recorder, StopReturns
  <1>4. CASE Stopping
    BY <1>4, StoppingGoesOn DEF Recorder, Unwinding
  <1>5. CASE App
    <2>1. pc' # "init"
      BY <1>1, <1>5, AppGoesOn
    <2>2. CASE InitStopped
      <3>1. /\ UNCHANGED <<rec, stats, fault>> /\ (pc' = "done" => pc = "init")
        BY <2>2 DEF InitStopped, Enter, appFrame
      <3> QED BY <1>2, <2>1, <3>1 DEF Recorder
    <2>3. CASE Assess
      <3>1. UNCHANGED <<rec, stats, fault>> /\ (~failed' => ~RecordingBad)
        BY <2>3 DEF Assess
      <3> QED BY <2>1, <3>1 DEF Recorder, RecordingBad
    <2>4. CASE ~InitStopped /\ ~Assess
      <3>1. CASE StopRecorder
        <4>1. pc' \in RecorderReturns
          BY <1>1, <3>1, CalledFrom DEF StopRecorder
        <4> QED BY <4>1 DEF Recorder, RecorderReturns
      <3>2. CASE ~StopRecorder
        <4>1. pc' # "done"
          BY <1>5, <2>4, <3>2 DEF App, Connect, Configure, ConfigureFailed, InitDisconnect,
              InitEnds,
              RunRefused, StartRecorder, StartScanning, SpawnReceive, SpawnNtp, StartFailed, GiveUp,
              Arm, LoopEnds, Shutdown, Stopped, Disconnect, Enter, Call
        <4> QED BY <2>1, <4>1 DEF Recorder
      <3> QED BY <3>1, <3>2
    <2> QED BY <2>2, <2>3, <2>4
  <1>6. CASE Others
    <2>1. UNCHANGED <<pc, failed>>
      BY <1>6, OthersGoOn DEF ownerVars
    <2>2. ASSUME pc \in {"init", "done"}
          PROVE  ~ReceiveFrame /\ ~ReceiveError /\ ~NtpFault
      BY <1>1, <2>2 DEF Workers, Quiet, Joinable, ReceiveFrame, ReceiveError, NtpFault
    <2>3. CASE RecorderWrites
      <3>1. /\ rec.written < rec.queued /\ rec'.queued = rec.queued /\ UNCHANGED <<stats, fault>>
        BY <1>2, <2>3, RecorderFields DEF RecorderWrites, recorderFrame
      <3>2. ~(pc = "done" /\ ~failed)
        BY <1>2, <3>1 DEF Recorder
      <3> QED BY <2>1, <3>1, <3>2 DEF Recorder
    <2>4. CASE RecorderFails
      <3>1. rec'.queued = rec.queued /\ rec'.written = rec.written /\ UNCHANGED <<stats, fault>>
        BY <1>2, <2>4, FailsFields DEF RecorderFails, recorderFrame
      <3> QED BY <2>1, <3>1 DEF Recorder
    <2>5. CASE ReceiveFrame
      BY <2>1, <2>2, <2>5 DEF Recorder
    <2>6. CASE ~ReceiveFrame /\ ~RecorderWrites /\ ~RecorderFails
      <3>1. UNCHANGED <<rec, stats>> /\ (~ReceiveError /\ ~NtpFault => fault' = fault)
        BY <1>6, <2>6 DEF Others, Device, DeviceAnswers, DeviceScans, Receive, CheckRunning,
            ReceiveNothing, ReceiveError, LeaveReceive, NtpWatch, NtpSleep, NtpProbe, NtpJudge,
            NtpFault, Telemetry, StopRequested, Done, appFrame, ntpFrame, vars
      <3> QED BY <2>1, <2>2, <3>1 DEF Recorder
    <2> QED BY <2>3, <2>4, <2>5, <2>6
  <1> QED BY <1>3, <1>4, <1>5, <1>6, NextIsOne

----------------------------------------------------------------------------
(* Refusals taken for a later command's. *)

(* The outcome of the stop is final. *)
LEMMA ErrorStays ==
    ASSUME Types, Sequence, Measurement, [Next]_vars, ms.error
    PROVE  ms' = ms /\ pc \notin Commanding \cup Calling \cup {"reconnect"}
  <1>1. ms.cleanup /\ ~Trying
    BY DEF Measurement
  <1>2. pc \notin Commanding
    <2>1. pc \in Commanding => ~ms.error
      BY MarksHold DEF Marks
    <2> QED BY <2>1
  <1>3. pc \notin Calling /\ pc # "reconnect" /\ ~Pending
    BY <1>1 DEF Trying, Pending
  <1>4. CASE Commands
    BY <1>2, <1>3, <1>4 DEF Commands, AskWritten, AskNotWritten, ReplyRead, ReplyTimesOut, ReplyLost,
        PollAgain, ReadyDeadline, Probe, StopMeasurement, Reconnect, Commanding
  <1>5. CASE Stopping
    BY <1>2, <1>3, <1>5 DEF Stopping, StopScanning, StopStream, StreamedStop, ClearSlot, WriteMethod,
        MethodNotSent, MethodAnswered, MethodTimesOut, ClearFlags, ShutdownReceive, JoinNtp,
        JoinReceive, Calling, stopVars
  <1>6. CASE App
    BY <1>2, <1>3, <1>6, AppGoesOn DEF stopVars
  <1>7. CASE Others
    BY <1>2, <1>3, <1>7, OthersGoOn
  <1> QED BY <1>2, <1>3, <1>4, <1>5, <1>6, <1>7, NextIsOne

(* Whoever is on the way to report a failure gets there. *)
LEMMA AfterReports ==
    ASSUME Types, Sequence, pc \in {"ask", "reply"}, NEW outcome, NEW m, After(outcome, m), WillFail
    PROVE  WillFail'
  <1>1. pc \in Commanding /\ pc \notin Reporting \cup Unwinding \cup {"stopRecorder"}
    BY DEF Commanding, Reporting, Unwinding
  <1>2. job = "cleanup" /\ \E p \in Reporting : stack = <<p>>
    BY <1>1 DEF WillFail
  <1>3. CASE Advances(outcome, m)
    BY <1>2, <1>3 DEF Advances, WillFail
  <1>4. CASE CleansUp(outcome, m)
    <2>1. pc' \in Reporting
      BY <1>2, <1>4, Returned DEF CleansUp
    <2> QED BY <2>1 DEF WillFail
  <1> QED BY <1>1, <1>2, <1>3, <1>4, AfterCases
      DEF Finishes, Subscribes, Polls, RollsBack, StartFails

LEMMA CommandsReport ==
    ASSUME Types, Sequence, Commands, WillFail
    PROVE  WillFail'
  <1>1. CASE AskWritten
    <2>1. job = "cleanup" /\ \E p \in Reporting : stack = <<p>>
      BY <1>1 DEF AskWritten, WillFail, Reporting, Unwinding
    <2> QED BY <1>1, <2>1 DEF AskWritten, WillFail
  <1>2. CASE AskNotWritten \/ ReplyRead \/ ReplyTimesOut \/ ReplyLost \/ Probe
    <2>1. pc \in {"ask", "reply"} /\ \E outcome, m : After(outcome, m)
      BY <1>2 DEF AskNotWritten, ReplyRead, ReplyTimesOut, ReplyLost, Probe
    <2> QED BY <2>1, AfterReports
  <1>3. CASE PollAgain \/ ReadyDeadline
    <2>1. pc = "ready" /\ job = "configure"
      BY <1>3 DEF PollAgain, ReadyDeadline, Sequence
    <2> QED BY <2>1 DEF WillFail, Reporting, Unwinding
  <1>4. CASE StopMeasurement
    <2>1. pc \in {"rollback", "finalStop"} /\ \E p \in Reporting : stack = <<p>>
      <3>1. pc \in {"rollback", "finalStop"}
        BY <1>4 DEF StopMeasurement
      <3>2. job # "cleanup" \/ pc \in Unwinding
        BY <3>1 DEF Unwinding
      <3> QED BY <3>1 DEF WillFail, Reporting
    <2>2. CASE Return
      <3>1. pc' \in Reporting
        BY <2>1, <2>2, Returned
      <3> QED BY <3>1 DEF WillFail
    <2>3. CASE ~Return
      <3>1. job' = "cleanup" /\ stack' = stack
        BY <1>4, <2>3 DEF StopMeasurement
      <3> QED BY <2>1, <3>1 DEF WillFail
    <2> QED BY <2>2, <2>3
  <1>5. CASE Reconnect
    <2>1. pc = "reconnect" /\ job = "cleanup" /\ \E p \in Reporting : stack = <<p>>
      BY <1>5 DEF Reconnect, Sequence, WillFail, Reporting
    <2>2. CASE Return
      <3>1. pc' \in Reporting
        BY <2>1, <2>2, Returned
      <3> QED BY <3>1 DEF WillFail
    <2>3. CASE ~Return
      <3>1. UNCHANGED <<job, stack>>
        BY <1>5, <2>3 DEF Reconnect
      <3> QED BY <2>1, <3>1 DEF WillFail
    <2> QED BY <2>2, <2>3
  <1> QED BY <1>1, <1>2, <1>3, <1>4, <1>5 DEF Commands

LEMMA StoppingReports ==
    ASSUME Sequence, Stopping, WillFail
    PROVE  WillFail'
  <1>1. pc \in Unwinding /\ pc' \in Unwinding
    BY StoppingGoesOn
  <1>2. \E p \in Reporting : stack = <<p>>
    BY <1>1 DEF WillFail, Reporting, Unwinding
  <1>3. stack' = stack
    BY DEF Stopping, StopScanning, StopStream, StreamedStop, ClearSlot, WriteMethod, MethodNotSent,
        MethodAnswered, MethodTimesOut, ClearFlags, ShutdownReceive, JoinNtp, JoinReceive, MethodDone
  <1> QED BY <1>1, <1>2, <1>3 DEF WillFail

LEMMA AppReports ==
    ASSUME Types, Sequence, App, WillFail \/ failed
    PROVE  WillFail' \/ failed'
  <1>1. failed => failed'
    BY DEF App, InitStopped, Connect, Configure, ConfigureFailed, InitDisconnect, InitEnds, RunRefused,
        StartRecorder, StartScanning, SpawnReceive, SpawnNtp, StartFailed, GiveUp, StopRecorder, Arm,
        LoopEnds, Shutdown, Stopped, Disconnect, Assess, appFrame, appVars
  <1> SUFFICES ASSUME WillFail PROVE WillFail' \/ failed'
    BY <1>1
  <1>2. CASE pc \in Reporting
    <2>1. CASE StartFailed
      <3>1. pc' = "stopRecorder" /\ stack' = <<"giveUp">>
        BY <2>1 DEF StartFailed, Call
      <3> QED BY <3>1 DEF WillFail, Reporting
    <2>2. CASE ~StartFailed
      <3>1. ConfigureFailed \/ GiveUp
        BY <1>2, <2>2 DEF Reporting, App, InitStopped, Connect, Configure, InitDisconnect, InitEnds,
            RunRefused, StartRecorder, StartScanning, SpawnReceive, SpawnNtp, StopRecorder, Arm,
            LoopEnds, Shutdown, Stopped, Disconnect, Assess
      <3> QED BY <3>1 DEF ConfigureFailed, GiveUp
    <2> QED BY <2>1, <2>2
  <1>3. CASE pc \notin Reporting
    <2>1. /\ pc \in Unwinding \cup {"stopRecorder"} \/ job = "cleanup"
          /\ \E p \in Reporting : stack = <<p>>
      BY <1>3 DEF WillFail
    <2>2. StopRecorder
      <3>1. job = "cleanup" => pc \in Commanding \cup {"reconnect"}
        BY DEF Sequence, Calling
      <3> QED BY <2>1, <3>1 DEF Unwinding, Commanding, App, InitStopped, Connect, Configure,
          ConfigureFailed, InitDisconnect, InitEnds, RunRefused, StartRecorder, StartScanning,
          SpawnReceive, SpawnNtp, StartFailed, GiveUp, Arm, LoopEnds, Shutdown, Stopped, Disconnect,
          Assess
    <2>3. pc' \in Reporting
      BY <2>1, <2>2, Returned DEF StopRecorder
    <2> QED BY <2>3 DEF WillFail
  <1> QED BY <1>2, <1>3

(* A refusal that ends a command of the configuration or the subscription. *)
LEMMA RefusalReports ==
    ASSUME Types, Sequence, Line, ReplyRead, misread' # misread
    PROVE  job \in {"configure", "subscribe"} /\ misread' = misread \cup {job} /\ WillFail'
  <1> DEFINE h == link.wire[1]
             c == Todo[i]
  <1>1. Head(link.wire) = h /\ Len(link.wire) >= 1
    BY ReplyTakes
  <1>2. pc = "reply" /\ pc \in Commanding
    BY DEF ReplyRead, Commanding
  <1>3. /\ h.stale /\ h.answer = "sFA" /\ c.tolerates = "nothing" /\ misread' = misread \cup {job}
        /\ After("sFA", ms)
    BY <1>1 DEF ReplyRead, Recorded
  <1>4. ~InStep
    <2>1. Expected(h.name, h.answer, h.stale)
      BY <1>1, HeadExpected DEF Line
    <2> QED BY <1>3, <2>1 DEF Expected
  <1>5. job \in {"configure", "subscribe"}
    <2>1. job \in {"configure", "messages", "subscribe", "cleanup"}
      BY <1>2, Current
    <2> QED BY <1>2, <1>4, <2>1 DEF InStep
  <1>6. ~Survives("sFA")
    BY <1>3 DEF Survives
  <1>7. RollsBack(ms) \/ StartFails(ms)
    BY <1>2, <1>3, <1>5, <1>6, AfterCases DEF Advances, Finishes, Subscribes, CleansUp, Polls
  <1>8. pc' \in Unwinding /\ stack' \in {<<"configFailed">>, <<"startFailed">>}
    BY <1>7 DEF RollsBack, StartFails, Unwinding
  <1> QED BY <1>3, <1>5, <1>8 DEF WillFail, Reporting

(* And one that ends a method called through the receive thread. *)
LEMMA MethodRefused ==
    ASSUME Types, Sequence, MethodAnswered, misread' # misread
    PROVE  misread' = misread \cup {"streamed"} /\ ms'.error /\ ~ms'.confirmed
  <1>1. slot.name = "sFA" /\ misread' = misread \cup {job} /\ job = "streamed" /\ i \in {1, 2}
    BY DEF MethodAnswered, SlotRecorded, Sequence, Calling
  <1>2. slot.name # Method.name
    BY <1>1, MethodFields
  <1>3. MethodDone(FALSE)
    BY <1>2 DEF MethodAnswered
  <1>4. ms \in MeasurementType
    BY DEF Types, StopTypes
  <1>5. ms'.error = TRUE /\ ms'.confirmed = FALSE
    BY <1>1, <1>3, <1>4, MethodDoneFields
  <1> QED BY <1>1, <1>5

LEMMA RefusalsKept ==
    ASSUME Types, Places, Line, Refusals, [Next]_vars
    PROVE  Refusals'
  <1>1. Sequence /\ Measurement
    BY DEF Places
  <1>2. ms.error => ms' = ms
    BY <1>1, ErrorStays
  <1>3. failed \/ WillFail => failed' \/ WillFail'
    <2>1. CASE Commands
      BY <1>1, <2>1, CommandsReport, CommandsGoOn
    <2>2. CASE Stopping
      BY <1>1, <2>2, StoppingReports, StoppingGoesOn
    <2>3. CASE App
      BY <1>1, <2>3, AppReports
    <2>4. CASE Others
      BY <2>4, OthersGoOn DEF WillFail, ownerVars
    <2> QED BY <2>1, <2>2, <2>3, <2>4, NextIsOne
  <1>4. CASE misread' = misread
    BY <1>2, <1>3, <1>4 DEF Refusals
  <1>5. CASE ReplyRead /\ misread' # misread
    BY <1>1, <1>2, <1>5, RefusalReports DEF Refusals
  <1>6. CASE MethodAnswered /\ misread' # misread
    BY <1>1, <1>6, MethodRefused DEF Refusals
  <1>7. ~ReplyRead /\ ~MethodAnswered => misread' = misread
    <2> SUFFICES ASSUME ~ReplyRead, ~MethodAnswered PROVE misread' = misread
      OBVIOUS
    <2>1. CASE Commands
      BY <2>1 DEF Commands, AskWritten, AskNotWritten, ReplyTimesOut, ReplyLost, PollAgain,
          ReadyDeadline, Probe, StopMeasurement, Reconnect, stopVars
    <2>2. CASE Stopping
      BY <2>2 DEF Stopping, StopScanning, StopStream, StreamedStop, ClearSlot, WriteMethod,
          MethodNotSent, MethodTimesOut, ClearFlags, ShutdownReceive, JoinNtp, JoinReceive, stopVars
    <2>3. CASE App
      BY <1>1, <2>3, AppGoesOn DEF stopVars
    <2>4. CASE Others
      BY <2>4, OthersGoOn
    <2> QED BY <2>1, <2>2, <2>3, <2>4, NextIsOne
  <1> QED BY <1>4, <1>5, <1>6, <1>7

----------------------------------------------------------------------------
(* The theorems. *)

LEMMA InitHolds ==
    ASSUME Init
    PROVE  IInv
  <1> USE DEF Init
  <1>1. << >> \in Seq(WireItem) /\ << >> \in Seq(InboxItem) /\ Len(<< >>) = 0
    BY EmptySeq
  <1>2. Types
    <2>1. OwnerTypes
      BY DEF OwnerTypes, OwnerPlaces, Jobs
    <2>2. DeviceTypes
      BY <1>1 DEF DeviceTypes, LinkType, DeviceType
    <2>3. StopTypes
      BY DEF StopTypes, NoMeasurement, MeasurementType, NoSlot, SlotType, Names
    <2>4. ThreadTypes
      <3>1. /\ scanning \in BOOLEAN /\ running \in BOOLEAN /\ ntpRunning \in BOOLEAN
            /\ fault \in BOOLEAN /\ rpc \in ReceivePlaces /\ npc \in NtpPlaces
        BY DEF ReceivePlaces, NtpPlaces
      <3>2. misses = 0
        OBVIOUS
      <3> HIDE DEF Init
      <3>3. misses \in 0 .. MaxFailures /\ misses # MaxFailures
        BY <3>2, BoundsAssumption
      <3> QED BY <3>1, <3>3 DEF ThreadTypes
    <2>5. AppTypes
      <3>1. /\ rec = [state |-> "none", failed |-> FALSE, queued |-> 0, written |-> 0, dropped |-> 0]
            /\ stats = [received |-> 0, loss |-> FALSE, doubt |-> FALSE]
            /\ terminate \in BOOLEAN /\ failed \in BOOLEAN /\ armed \in BOOLEAN
        OBVIOUS
      <3> HIDE DEF Init
      <3>2. rec \in RecorderType /\ rec.written = 0 /\ rec.queued = 0
        BY <3>1 DEF RecorderType, RecorderStates
      <3>3. stats \in StatsType
        BY <3>1 DEF StatsType
      <3> QED BY <3>1, <3>2, <3>3 DEF AppTypes
    <2> QED BY <2>1, <2>2, <2>3, <2>4, <2>5 DEF Types
  <1>3. Sequence
    BY DEF Sequence, Commanding, Calling, Unwinding
  <1>4. Workers
    BY DEF Workers, Quiet, Fresh, Calling, Joinable
  <1>5. Measurement
    BY DEF Measurement, Trying, Untouched, Settled, Calling, NoMeasurement
  <1>6. Len(link.wire) = 0 /\ Len(inbox) = 0 /\ link.conn = 0 /\ dev.loggedIn = 0 /\ ~dev.measuring
    BY <1>1
  <1>7. Connections
    BY <1>6 DEF Connections
  <1>8. Ordered
    BY <1>6 DEF Ordered
  <1>9. Line
    BY <1>6 DEF Line, Delivers, SlotIsFresh
  <1>10. Laser
    <2>1. slot.name = "" /\ ms.requested = FALSE /\ ms.confirmed = FALSE
      BY DEF NoSlot, NoMeasurement
    <2> HIDE DEF Init
    <2>2. Off
      BY <1>6 DEF Off
    <2>3. Stops
      BY <1>6 DEF Stops
    <2>4. slot.name # "LMCstopmeas"
      BY <2>1
    <2> QED BY <2>2, <2>3, <2>4 DEF Laser
  <1>11. Recorder
    BY DEF Recorder
  <1>12. Refusals
    BY DEF Refusals
  <1> QED BY <1>2, <1>3, <1>4, <1>5, <1>7, <1>8, <1>9, <1>10, <1>11, <1>12 DEF IInv, Places

LEMMA StepKeeps ==
    ASSUME IInv, [Next]_vars
    PROVE  IInv'
  <1>1. /\ Types /\ Places /\ Ordered /\ Line /\ Laser /\ Recorder /\ Refusals
        /\ Sequence /\ Workers /\ Measurement /\ Connections
    BY DEF IInv, Places
  <1>2. Types' /\ Sequence'
    BY <1>1, TypesKept
  <1>3. Workers'
    BY <1>1, WorkersKept
  <1>4. Measurement'
    BY <1>1, MeasurementKept
  <1>5. Connections'
    BY <1>1, ConnectionsKept
  <1>6. Ordered'
    BY <1>1, EffectOfStep, OrderedKept
  <1>7. Line'
    BY <1>1, LineKept
  <1>8. Laser'
    BY <1>1, LaserKept
  <1>9. Recorder'
    BY <1>1, RecorderKept
  <1>10. Refusals'
    BY <1>1, RefusalsKept
  <1> QED BY <1>2, <1>3, <1>4, <1>5, <1>6, <1>7, <1>8, <1>9, <1>10 DEF IInv, Places

(* The six parts hold from the first connection to the last disconnection. *)
THEOREM Invariance == Spec => []IInv
  <1>1. Init => IInv
    BY InitHolds
  <1>2. IInv /\ [Next]_vars => IInv'
    BY StepKeeps
  <1> QED BY <1>1, <1>2, PTL DEF Spec

(* The place in a command sequence is never beyond the longest. *)
LEMMA PlaceIsInTable ==
    ASSUME Types, Sequence
    PROVE  i \in 0 .. Len(Configuration)
  <1>1. /\ Len(Configuration) = ReadyAt + Len(Audit) /\ Len(Identity) \in Nat /\ Len(Audit) \in Nat
        /\ Len(Identity) + 6 <= ReadyAt /\ ReadyAt \in Nat
    BY ConfigurationSays
  <1>2. i \in Nat
    BY DEF Types, OwnerTypes
  <1>3. CASE pc \in Commanding
    <2>1. /\ job \in {"configure", "messages", "subscribe", "cleanup"} /\ i \in 1 .. Len(Todo)
          /\ job = "messages" => i = 1
          /\ job = "subscribe" => i = 1
          /\ job = "cleanup" => i \in {1, 2}
          /\ job = "configure" => Len(Todo) = ReadyAt + Len(Audit)
      BY <1>3, Current
    <2> QED BY <1>1, <1>2, <2>1
  <1>4. CASE pc \notin Commanding
    <2>1. i \in {0, 1, 2}
      BY <1>4 DEF Sequence
    <2> QED BY <1>1, <2>1
  <1> QED BY <1>3, <1>4

(* The driver never goes on because of the answer to another command, the socket
   has one reader, no thread outlives the stream and no watchdog runs without one,
   whatever the parameter table and however late or cut off the scanner's answers
   are (CommandChannel, StopScanning); what a late refusal can do is said by
   RefusalsCorrect. *)
THEOREM DriverCorrect == Spec => []DriverInv
  <1>1. IInv => DriverInv
    <2> SUFFICES ASSUME IInv PROVE DriverInv
      OBVIOUS
    <2>1. Types /\ Sequence /\ Workers /\ Connections /\ Line
      BY DEF IInv, Places
    <2>2. TypeOK
      <3>1. i \in 0 .. Len(Configuration)
        BY <2>1, PlaceIsInTable
      <3>2. Len(stack) <= 1
        <4>1. \A p \in StopReturns \cup RecorderReturns : Len(<<p>>) <= 1
          OBVIOUS
        <4>2. Len(<< >>) <= 1
          OBVIOUS
        <4> QED BY <2>1, <4>1, <4>2 DEF Types, OwnerTypes
      <3>3. link.conn \in 0 .. 2 /\ dev.loggedIn \in 0 .. link.conn
        <4>1. link.conn \in Nat /\ dev.loggedIn \in Nat
          BY <2>1, LinkFields DEF Types, DeviceTypes, DeviceType
        <4> QED BY <2>1, <4>1 DEF Connections
      <3>4. rec.state \in RecorderStates
        BY <2>1, RecorderFields DEF Types, AppTypes
      <3> QED BY <2>1, <3>1, <3>2, <3>3, <3>4
          DEF TypeOK, Types, OwnerTypes, ThreadTypes, AppTypes, ReceivePlaces, NtpPlaces,
              RecorderStates
    <2>3. OneReader /\ WatchEndsWithStream /\ ArmedWhileScanning
      BY <2>1 DEF Workers, Quiet, OneReader, WatchEndsWithStream, ArmedWhileScanning
    <2> QED BY <2>1, <2>2, <2>3 DEF DriverInv, AnswersMatch, Line
  <1> QED BY <1>1, Invariance, PTL

(* When the driver says that the measurement has stopped, laser and motor are
   off and stay off (MeasurementShutdown::Stop, Shutdown). *)
THEOREM StoppedCorrect == Spec => []StoppedMeansOff
  <1>1. IInv => StoppedMeansOff
    <2> SUFFICES ASSUME IInv, ms.confirmed \/ (pc = "done" /\ ~failed)
                 PROVE  ~dev.measuring /\ \A k \in DOMAIN inbox : inbox[k].name # "LMCstartmeas"
      BY DEF StoppedMeansOff
    <2>1. Types /\ Measurement /\ Laser
      BY DEF IInv, Places
    <2>2. ms.confirmed \/ ~ms.requested
      <3>1. CASE pc = "done" /\ ~failed
        <4>1. ~ms.error /\ (ms.requested => ms.cleanup)
          BY <2>1, <3>1 DEF Measurement, Settled
        <4>2. ~Trying
          <5>1. job = "none"
            BY <3>1 DEF IInv, Places, Sequence, Commanding, Calling
          <5> QED BY <3>1, <5>1 DEF Trying, Calling
        <4> QED BY <2>1, <4>1, <4>2 DEF Measurement
      <3> QED BY <3>1
    <2>3. Off
      BY <2>1, <2>2 DEF Laser
    <2>4. DOMAIN inbox = 1 .. Len(inbox)
      BY <2>1, LenProperties DEF Types, DeviceTypes
    <2> QED BY <2>3, <2>4 DEF Off
  <1> QED BY <1>1, Invariance, PTL

(* A recording called good holds every telegram that was received, and none of
   them was damaged (HandleFrame, AssessRecording). *)
THEOREM RecordedCorrect == Spec => []CleanMeansRecorded
  <1>1. IInv => CleanMeansRecorded
    BY DEF IInv, Recorder, CleanMeansRecorded
  <1> QED BY <1>1, Invariance, PTL

(* A refusal that was taken for the answer to a later command has made the driver
   report a failure, never a success, and no stop over the command channel is
   exposed to one (SendAndReceive, CallMethodStreaming, StopMeasurement). *)
THEOREM RefusalsCorrect == Spec => []RefusalsFail
  <1>1. IInv => RefusalsFail
    <2> SUFFICES ASSUME IInv PROVE RefusalsFail
      OBVIOUS
    <2>1. Refusals /\ Measurement /\ Sequence
      BY DEF IInv, Places
    <2>2. pc = "done" => ~WillFail
      BY <2>1 DEF WillFail, Reporting, Unwinding, Sequence, Commanding, Calling
    <2> QED BY <2>1, <2>2 DEF Refusals, RefusalsFail, Measurement
  <1> QED BY <1>1, Invariance, PTL

=============================================================================
