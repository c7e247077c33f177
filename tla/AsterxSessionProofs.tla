------------------------ MODULE AsterxSessionProofs -------------------------
(***************************************************************************)
(* What the AsteRx driver keeps to for every configuration file, every    *)
(* receiver and every bound: SessionInv, OutcomeIsHonest and              *)
(* ConfigurationProven of module AsterxSession.  The Session's operations *)
(* are functions from one value of the Session to the next, so most of    *)
(* the work is in one lemma per operation about the values it may return; *)
(* the handlers follow from them.  What BuildCommandList returns plays no *)
(* part in the first two; the second half of the module is about it, and  *)
(* about what the commands sent so far have made of the receiver.         *)
(***************************************************************************)
EXTENDS AsterxSession, FiniteSetTheorems, SequenceTheorems, WellFoundedInduction, TLAPS

----------------------------------------------------------------------------
(* The inductive invariant. *)

Links == {"none", "connecting", "open", "closed"}

(* The values of a Session. *)
SessionType ==
    [state : States, everConfigured : BOOLEAN, descriptor : Descriptors \cup {NoDescriptor},
     cmd : Nat, lst : BOOLEAN, timers : SUBSET Timers, started : BOOLEAN,
     up : UpTimes \cup {0}, fine : BOOLEAN, incomplete : BOOLEAN, rx : Links,
     slot : BOOLEAN, windows : Nat, opened : Nat, fatal : BOOLEAN, nested : BOOLEAN]

(* The state of a Session goes with its link, its announcement and its slot. *)
Settled(x) ==
    /\ ~x.nested
    /\ x.slot => x.state = "recording"
    /\ x.rx = "connecting" => x.state = "connecting"
    /\ x.state \in {"stopping", "backoff"} => x.rx \notin {"connecting", "open"}
    /\ x.state = "backoff" => x.incomplete
    /\ x.fatal => x.state = "stopping"

Announced(x) ==
    /\ x.opened <= 1
    /\ x.opened = 1 => x.state \in {"recording", "stopping"}
    /\ x.opened = 1 /\ DurationGate => x.started

(* A Session that has not been started. *)
Fresh(x) ==
    x.state = "idle" => /\ x.rx = "none" /\ x.timers = {} /\ x.windows = 0 /\ x.opened = 0
                        /\ ~x.everConfigured /\ ~x.started /\ ~x.incomplete

(* The recovery timer and its count. *)
Counted(x) ==
    /\ x.windows <= 1
    /\ (x.windows = 1) <=> ("recovery" \in x.timers)

(* The properties AlwaysADeadline and OneRecoveryWindow, of any Session. *)
Deadline(x) ==
    /\ x.state = "connecting" => "connect" \in x.timers
    /\ x.state \in {"waitingDescriptor", "configuring"} => "command" \in x.timers
    /\ x.state \in {"warmingUp", "recording"} => "watchdog" \in x.timers
    /\ x.state = "backoff" => "retry" \in x.timers
    /\ x.state \in {"idle", "stopping"} => x.timers = {}

Recovering(x) ==
    /\ x.everConfigured /\ x.state \in {"backoff", "connecting", "waitingDescriptor", "configuring"}
          => "recovery" \in x.timers
    /\ x.state = "recording" => "recovery" \notin x.timers

(* What an operation may be given, even when a timer has just expired, and
   what it must return. *)
Sound(x) == x \in SessionType /\ Settled(x) /\ Announced(x) /\ Fresh(x) /\ Counted(x)
Whole(x) == Sound(x) /\ Deadline(x) /\ Recovering(x)

(* The places of the two threads. *)
QtPlaces == {"none", "start", "loop", "mark", "notify", "terminate", "final", "disarm",
             "notifyEnd", "terminateEnd", "done"}
AppPlaces == {"init", "wait", "joinFailed", "interrupt", "joinInterrupted", "run",
              "shutdown", "join", "done"}

ReceiverTypes ==
    /\ "bent" \in DOMAIN rcv /\ "lines" \in DOMAIN rcv
    /\ IsFiniteSet(rcv.bent) /\ Cardinality(rcv.bent) <= MaxBent

Types ==
    /\ doc \in DOMAIN Documents
    /\ q \in [failed : BOOLEAN, closed : BOOLEAN, event : BOOLEAN]
    /\ qpc \in QtPlaces /\ mpc \in AppPlaces
    /\ initResult \in {"none", "ready", "failed", "interrupted"}
    /\ bringUp \in {"pending", "recording", "failed"}
    /\ elapsed \in BOOLEAN /\ exec \in BOOLEAN /\ quit \in BOOLEAN /\ terminate \in BOOLEAN
    /\ failed \in BOOLEAN /\ external \in BOOLEAN /\ lost \in BOOLEAN

(* The queue is closed by the handler that stops the Session.  Loss is on the
   Session's record, or it is the failure of a queue that is still open. *)
Queue ==
    /\ q.closed <=> s.state = "stopping"
    /\ q.event => q.failed
    /\ q.failed /\ q.closed => s.incomplete
    /\ q.failed /\ ~q.closed => s.started
    /\ lost => s.incomplete \/ (q.failed /\ ~q.closed)
    /\ elapsed => s.started
    /\ bringUp = "recording" => s.opened = 1

(* Where the Qt thread is when the Session is in what state. *)
Late == {"disarm", "notifyEnd", "terminateEnd", "done"}

QtThreadAt ==
    /\ qpc \in {"none", "start"} => s.state = "idle"
    /\ qpc \in {"loop", "mark", "notify", "terminate", "final"} => s.state # "idle"
    /\ qpc \in {"mark", "notify", "terminate", "final"} => s.state = "stopping"
    /\ quit => terminate /\ s.state = "stopping"
    /\ qpc \in Late => s.state \in {"stopping", "idle"}
    /\ qpc \in Late => (s.incomplete => failed)
    /\ s.state = "idle" => ~q.failed /\ ~lost
    /\ mpc = "init" => qpc = "none"
    /\ mpc = "done" => qpc \in {"none", "done"}

(* The order of failed_, bring_up_ and terminate_. *)
Ended == terminate \/ qpc = "final" \/ qpc \in Late

Published ==
    /\ qpc \in {"notify", "terminate"} => failed
    /\ Ended => failed \/ external \/ mpc \in {"join", "done"}
    /\ qpc \in {"terminate", "terminateEnd", "done"} => bringUp # "pending"
    /\ terminate => bringUp # "pending" \/ external \/ mpc \in {"join", "done"}
    /\ mpc = "run" => bringUp # "pending"
    /\ mpc \in {"interrupt", "joinInterrupted"} \/ initResult = "interrupted" => external

IInv == Whole(s) /\ ReceiverTypes /\ Types /\ Queue /\ QtThreadAt /\ Published

----------------------------------------------------------------------------
(* The Session's operations. *)

(* What an operation does to the record of the recording: it forgets nothing,
   a stop is final, and a stop over a queue that did not close cleanly leaves
   the recording incomplete. *)
Advances(x, y, clean) ==
    /\ x.started => y.started
    /\ x.incomplete => y.incomplete
    /\ y.opened >= x.opened
    /\ x.state = "stopping" => y.state = "stopping"
    /\ x.state # "stopping" /\ y.state = "stopping" /\ ~clean => y.incomplete

(* CloseConnection, called once the state says why, closes the link and
   changes nothing else. *)
LEMMA CloseFields ==
    ASSUME NEW x \in SessionType
    PROVE  /\ CloseConnection(x) \in SessionType
           /\ CloseConnection(x).rx = IF x.rx = "none" THEN "none" ELSE "closed"
           /\ x.state \in {"backoff", "stopping"} => CloseConnection(x).nested = x.nested
           /\ CloseConnection(x).state = x.state /\ CloseConnection(x).timers = x.timers
           /\ CloseConnection(x).windows = x.windows /\ CloseConnection(x).opened = x.opened
           /\ CloseConnection(x).started = x.started /\ CloseConnection(x).slot = x.slot
           /\ CloseConnection(x).incomplete = x.incomplete /\ CloseConnection(x).fatal = x.fatal
           /\ CloseConnection(x).everConfigured = x.everConfigured
  BY DEF CloseConnection, SessionType, Links

(* Shutdown closes everything, and records an unclean close of the queue. *)
LEMMA ShutdownFields ==
    ASSUME NEW x \in SessionType, NEW clean \in BOOLEAN, x.state # "stopping"
    PROVE  LET y == Shutdown(x, clean)
           IN  /\ y \in SessionType
               /\ y.state = "stopping" /\ ~y.slot /\ y.timers = {} /\ y.windows = 0
               /\ y.rx = IF x.rx = "none" THEN "none" ELSE "closed"
               /\ (x.incomplete \/ ~clean) => y.incomplete
               /\ y.nested = x.nested /\ y.opened = x.opened /\ y.started = x.started
  <1> DEFINE w == [x EXCEPT !.state = "stopping"]
  <1>1. /\ w \in SessionType /\ w.state = "stopping" /\ w.nested = x.nested /\ w.rx = x.rx
        /\ w.opened = x.opened /\ w.started = x.started /\ w.incomplete = x.incomplete
    BY DEF SessionType, States
  <1> HIDE DEF w
  <1> DEFINE v == CloseConnection(w)
  <1>2. /\ v \in SessionType /\ v.state = "stopping" /\ v.nested = x.nested
        /\ v.rx = IF x.rx = "none" THEN "none" ELSE "closed"
        /\ v.opened = x.opened /\ v.started = x.started /\ v.incomplete = x.incomplete
    BY <1>1, CloseFields
  <1>3. Shutdown(x, clean) = [v EXCEPT !.slot = FALSE, !.timers = {}, !.windows = 0,
                                 !.incomplete = @ \/ ~clean, !.fatal = @ \/ ~clean]
    BY DEF Shutdown, w, v
  <1> DEFINE i == v.incomplete \/ ~clean
             f == v.fatal \/ ~clean
  <1> HIDE DEF v
  <1>4. i \in BOOLEAN /\ f \in BOOLEAN
    OBVIOUS
  <1>9. (x.incomplete \/ ~clean) => i
    BY <1>2
  <1>5. Shutdown(x, clean) = [v EXCEPT !.slot = FALSE, !.timers = {}, !.windows = 0,
                                 !.incomplete = i, !.fatal = f]
    BY <1>2, <1>3 DEF SessionType
  <1> HIDE DEF i, f
  <1> DEFINE y == Shutdown(x, clean)
  <1>10. v \in SessionType
    BY <1>2
  <1>11. \A a, b \in BOOLEAN : [v EXCEPT !.slot = FALSE, !.timers = {}, !.windows = 0,
                                      !.incomplete = a, !.fatal = b] \in SessionType
    BY <1>10 DEF SessionType
  <1>6. y \in SessionType
    BY <1>4, <1>5, <1>11
  <1>7. /\ y.state = "stopping" /\ y.slot = FALSE /\ y.timers = {} /\ y.windows = 0
        /\ y.rx = v.rx /\ y.incomplete = i /\ y.nested = x.nested /\ y.opened = x.opened
        /\ y.started = x.started
    BY <1>2, <1>5 DEF SessionType
  <1>8. (x.incomplete \/ ~clean) => y.incomplete
    BY <1>7, <1>9
  <1> QED  BY <1>2, <1>6, <1>7, <1>8

LEMMA ShutdownWhole ==
    ASSUME NEW x \in SessionType, Settled(x), Announced(x), NEW clean \in BOOLEAN, x.state # "stopping"
    PROVE  LET y == Shutdown(x, clean)
           IN  Whole(y) /\ Advances(x, y, clean) /\ y.state = "stopping"
  <1> DEFINE y == Shutdown(x, clean)
  <1>1. /\ y \in SessionType
        /\ y.state = "stopping" /\ ~y.slot /\ y.timers = {} /\ y.windows = 0
        /\ y.rx = IF x.rx = "none" THEN "none" ELSE "closed"
        /\ (x.incomplete \/ ~clean) => y.incomplete
        /\ y.nested = x.nested /\ y.opened = x.opened /\ y.started = x.started
    BY ShutdownFields
  <1> HIDE DEF y
  <1>2. x \in SessionType /\ x.opened \in Nat /\ Settled(x) /\ Announced(x)
    BY DEF SessionType
  <1>3. Settled(y) /\ Announced(y) /\ Fresh(y) /\ Counted(y)
    BY <1>1, <1>2 DEF Settled, Announced, Fresh, Counted
  <1>4. Deadline(y) /\ Recovering(y)
    BY <1>1 DEF Deadline, Recovering
  <1>5. Advances(x, y, clean)
    BY <1>1, <1>2 DEF Advances
  <1> QED  BY <1>1, <1>3, <1>4, <1>5 DEF Whole, Sound, y

LEMMA FailStartupWhole ==
    ASSUME NEW x \in SessionType, Settled(x), Announced(x), NEW clean \in BOOLEAN,
           x.state = "stopping" => Whole(x)
    PROVE  LET y == FailStartup(x, clean)
           IN  Whole(y) /\ Advances(x, y, clean) /\ y.state = "stopping"
  <1>1. CASE x.state = "stopping"
    <2>1. FailStartup(x, clean) = x /\ x.opened \in Nat
      BY <1>1 DEF FailStartup, SessionType
    <2>2. Advances(x, x, clean)
      BY <1>1, <2>1 DEF Advances
    <2> QED  BY <1>1, <2>1, <2>2
  <1>2. CASE x.state # "stopping"
    <2> DEFINE w == Shutdown(x, clean)
               y == [w EXCEPT !.fatal = TRUE]
    <2>1. Whole(w) /\ Advances(x, w, clean) /\ w.state = "stopping"
      BY <1>2, ShutdownWhole
    <2>2. FailStartup(x, clean) = y
      BY <1>2 DEF FailStartup
    <2> HIDE DEF w
    <2>3. w \in SessionType
      BY <2>1 DEF Whole, Sound
    <2>4. /\ y \in SessionType /\ y.state = w.state /\ y.timers = w.timers /\ y.rx = w.rx
          /\ y.windows = w.windows /\ y.opened = w.opened /\ y.started = w.started
          /\ y.incomplete = w.incomplete /\ y.slot = w.slot /\ y.nested = w.nested
          /\ y.everConfigured = w.everConfigured
      BY <2>3 DEF SessionType
    <2> HIDE DEF y
    <2>5. Whole(y)
      BY <2>1, <2>4 DEF Whole, Sound, Settled, Announced, Fresh, Counted, Deadline, Recovering
    <2>6. Advances(x, y, clean)
      BY <2>1, <2>4 DEF Advances
    <2> QED  BY <2>1, <2>2, <2>4, <2>5, <2>6
  <1> QED  BY <1>1, <1>2

(* The same Session with the recording marked incomplete. *)
LEMMA MarkFields ==
    ASSUME NEW x \in SessionType
    PROVE  LET y == [x EXCEPT !.incomplete = TRUE]
           IN  /\ y \in SessionType /\ y.state = x.state /\ y.timers = x.timers /\ y.rx = x.rx
               /\ y.windows = x.windows /\ y.opened = x.opened /\ y.started = x.started
               /\ y.incomplete /\ y.slot = x.slot /\ y.nested = x.nested
               /\ y.everConfigured = x.everConfigured /\ y.fatal = x.fatal /\ y.up = x.up
  BY DEF SessionType

LEMMA MarkSound ==
    ASSUME NEW x, Sound(x), x.state # "idle"
    PROVE  LET y == [x EXCEPT !.incomplete = TRUE]
           IN  Sound(y) /\ (Whole(x) => Whole(y))
  <1> DEFINE y == [x EXCEPT !.incomplete = TRUE]
  <1>1. /\ y \in SessionType /\ y.state = x.state /\ y.timers = x.timers /\ y.rx = x.rx
        /\ y.windows = x.windows /\ y.opened = x.opened /\ y.started = x.started
        /\ y.incomplete /\ y.slot = x.slot /\ y.nested = x.nested
        /\ y.everConfigured = x.everConfigured /\ y.fatal = x.fatal
    BY MarkFields DEF Sound
  <1> HIDE DEF y
  <1>2. Sound(y)
    BY <1>1 DEF Sound, Settled, Announced, Fresh, Counted
  <1>3. Whole(x) => Whole(y)
    BY <1>1, <1>2 DEF Whole, Deadline, Recovering
  <1> QED  BY <1>2, <1>3 DEF y

LEMMA StopRigWhole ==
    ASSUME NEW x, Sound(x), x.state = "stopping" => Whole(x), x.state # "idle",
           NEW clean \in BOOLEAN
    PROVE  LET y == StopRig(x, clean)
           IN  /\ Whole(y) /\ Advances(x, y, clean) /\ y.state = "stopping"
               /\ x.state # "stopping" => y.incomplete
  <1>1. CASE x.state = "stopping"
    <2>1. StopRig(x, clean) = x /\ x.opened \in Nat
      BY <1>1 DEF StopRig, Sound, SessionType
    <2>2. Advances(x, x, clean)
      BY <1>1, <2>1 DEF Advances
    <2> QED  BY <1>1, <2>1, <2>2
  <1>2. CASE x.state # "stopping"
    <2> DEFINE w == [x EXCEPT !.incomplete = TRUE]
               y == FailStartup(w, clean)
    <2>1. /\ w.state = x.state /\ w.opened = x.opened /\ w.started = x.started /\ w.incomplete
      BY MarkFields DEF Sound
    <2>2. Sound(w)
      BY MarkSound
    <2>3. StopRig(x, clean) = y
      BY <1>2 DEF StopRig
    <2> HIDE DEF w
    <2>4. Whole(y) /\ Advances(w, y, clean) /\ y.state = "stopping"
      BY <1>2, <2>1, <2>2, FailStartupWhole DEF Sound
    <2> HIDE DEF y
    <2>5. Advances(x, y, clean) /\ y.incomplete
      BY <2>1, <2>4 DEF Advances
    <2> QED  BY <2>3, <2>4, <2>5
  <1> QED  BY <1>1, <1>2

(* A failure before readiness is announced: the one recovery window is opened
   or goes on. *)
LEMMA EnterBackoffWhole ==
    ASSUME NEW x, Sound(x), x.state \notin {"idle", "stopping", "recording"}, x.incomplete,
           NEW clean \in BOOLEAN
    PROVE  LET y == EnterBackoff(x)
           IN  Whole(y) /\ Advances(x, y, clean) /\ y.state = "backoff"
  <1> DEFINE n == IF "recovery" \in x.timers THEN x.windows ELSE x.windows + 1
             T == (x.timers \ {"connect", "command", "watchdog", "warmupLog"})
                     \cup {"recovery", "retry"}
             w == [x EXCEPT !.state = "backoff", !.slot = FALSE, !.windows = n, !.timers = T]
             y == CloseConnection(w)
  <1>1. x \in SessionType /\ Settled(x) /\ Announced(x) /\ Counted(x)
    BY DEF Sound
  <1>2. n \in Nat /\ n = 1
    BY <1>1 DEF Counted, SessionType
  <1>3. T \in SUBSET Timers /\ "recovery" \in T /\ "retry" \in T
    BY <1>1 DEF SessionType, Timers
  <1>4. EnterBackoff(x) = y
    BY <1>1 DEF EnterBackoff, SessionType
  <1> HIDE DEF n, T
  <1>5. /\ w \in SessionType /\ w.state = "backoff" /\ w.slot = FALSE /\ w.windows = n /\ w.timers = T
        /\ w.rx = x.rx /\ w.opened = x.opened /\ w.started = x.started
        /\ w.incomplete = x.incomplete /\ w.nested = x.nested /\ w.fatal = x.fatal
    BY <1>1, <1>2, <1>3 DEF SessionType, States
  <1> HIDE DEF w
  <1>6. /\ y \in SessionType /\ y.state = "backoff" /\ y.slot = FALSE /\ y.windows = n /\ y.timers = T
        /\ y.rx = IF x.rx = "none" THEN "none" ELSE "closed"
        /\ y.opened = x.opened /\ y.started = x.started
        /\ y.incomplete = x.incomplete /\ y.nested = x.nested /\ y.fatal = x.fatal
    <2>1. w \in SessionType /\ w.state \in {"backoff", "stopping"}
      BY <1>5
    <2>2. /\ y \in SessionType
          /\ y.rx = IF w.rx = "none" THEN "none" ELSE "closed"
          /\ y.nested = w.nested
          /\ y.state = w.state /\ y.timers = w.timers
          /\ y.windows = w.windows /\ y.opened = w.opened
          /\ y.started = w.started /\ y.slot = w.slot
          /\ y.incomplete = w.incomplete /\ y.fatal = w.fatal
      BY <2>1, CloseFields
    <2> HIDE DEF y
    <2> QED  BY <1>5, <2>2
  <1> HIDE DEF y
  <1>7. x.opened \in Nat
    BY <1>1 DEF SessionType
  <1>8. Settled(y) /\ Announced(y) /\ Fresh(y) /\ Counted(y)
    BY <1>1, <1>2, <1>3, <1>6, <1>7 DEF Settled, Announced, Fresh, Counted
  <1>9. Deadline(y) /\ Recovering(y)
    BY <1>3, <1>6 DEF Deadline, Recovering
  <1>10. Advances(x, y, clean)
    BY <1>6, <1>7 DEF Advances
  <1> QED  BY <1>4, <1>6, <1>8, <1>9, <1>10 DEF Whole, Sound

LEMMA HandleFailureWhole ==
    ASSUME NEW x, Sound(x), x.state \in {"stopping", "backoff"} => Whole(x), x.state # "idle",
           NEW clean \in BOOLEAN
    PROVE  LET y == HandleFailure(x, clean)
           IN  /\ Whole(y) /\ Advances(x, y, clean)
               /\ y.state \in {"stopping", "backoff"}
               /\ x.state # "stopping" => y.incomplete
               /\ x.state \notin {"stopping", "backoff"} /\ ~x.everConfigured
                     => y.state = "stopping"
  <1>1. CASE x.state \in {"stopping", "backoff"}
    <2>1. HandleFailure(x, clean) = x /\ x.opened \in Nat
      BY <1>1 DEF HandleFailure, Sound, SessionType
    <2>2. Advances(x, x, clean)
      BY <1>1, <2>1 DEF Advances
    <2>3. x.state # "stopping" => x.incomplete
      BY <1>1 DEF Sound, Settled
    <2> QED  BY <1>1, <2>1, <2>2, <2>3
  <1>2. CASE /\ x.state \notin {"stopping", "backoff"}
             /\ ~x.everConfigured \/ x.state = "recording"
    <2>1. HandleFailure(x, clean) = StopRig(x, clean)
      BY <1>2 DEF HandleFailure
    <2> QED  BY <1>2, <2>1, StopRigWhole
  <1>3. CASE /\ x.state \notin {"stopping", "backoff"}
             /\ ~(~x.everConfigured \/ x.state = "recording")
    <2> DEFINE w == [x EXCEPT !.incomplete = TRUE]
               y == EnterBackoff(w)
    <2>1. HandleFailure(x, clean) = y
      BY <1>3 DEF HandleFailure
    <2>2. /\ w.state = x.state /\ w.opened = x.opened /\ w.started = x.started /\ w.incomplete
      BY MarkFields DEF Sound
    <2>3. Sound(w)
      BY MarkSound
    <2> HIDE DEF w
    <2>4. Whole(y) /\ Advances(w, y, clean) /\ y.state = "backoff"
      BY <1>3, <2>2, <2>3, EnterBackoffWhole
    <2> HIDE DEF y
    <2>5. Advances(x, y, clean) /\ y.incomplete
      BY <2>2, <2>4 DEF Advances
    <2> QED  BY <1>3, <2>1, <2>4, <2>5
  <1> QED  BY <1>1, <1>2, <1>3

(* A connection is begun before the first or after a failed one. *)
LEMMA StartConnectWhole ==
    ASSUME NEW x, Sound(x), x.state \in {"idle", "backoff"}, NEW clean \in BOOLEAN,
           x.state = "backoff" => Recovering(x)
    PROVE  LET y == StartConnect(x)
           IN  /\ Whole(y) /\ Advances(x, y, clean) /\ y.state = "connecting"
               /\ y.everConfigured = x.everConfigured
  <1> DEFINE y == StartConnect(x)
             T == x.timers \cup {"connect"}
  <1>1. x \in SessionType /\ Settled(x) /\ Announced(x) /\ Fresh(x) /\ Counted(x)
    BY DEF Sound
  <1>2. /\ T \in SUBSET Timers /\ "connect" \in T
        /\ "recovery" \in T <=> "recovery" \in x.timers
    BY <1>1 DEF SessionType, Timers
  <1>3. y = [x EXCEPT !.state = "connecting", !.rx = "connecting", !.up = 0, !.fine = FALSE,
                      !.descriptor = NoDescriptor, !.cmd = 0, !.lst = FALSE, !.timers = T]
    BY <1>1 DEF StartConnect, SessionType
  <1> HIDE DEF T, y
  <1>4. y \in SessionType
    BY <1>1, <1>2, <1>3 DEF SessionType, States, Links
  <1>5. /\ y.state = "connecting" /\ y.rx = "connecting" /\ y.timers = T
        /\ y.windows = x.windows /\ y.opened = x.opened /\ y.started = x.started
        /\ y.incomplete = x.incomplete /\ y.slot = x.slot /\ y.nested = x.nested
        /\ y.everConfigured = x.everConfigured /\ y.fatal = x.fatal
    BY <1>1, <1>3 DEF SessionType
  <1>6. x.opened \in Nat
    BY <1>1 DEF SessionType
  <1>7. Settled(y) /\ Announced(y) /\ Fresh(y) /\ Counted(y)
    BY <1>1, <1>2, <1>5, <1>6 DEF Settled, Announced, Fresh, Counted
  <1>8. Deadline(y) /\ Recovering(y)
    BY <1>1, <1>2, <1>5 DEF Deadline, Recovering, Fresh
  <1>9. Advances(x, y, clean)
    BY <1>5, <1>6 DEF Advances
  <1> QED  BY <1>4, <1>5, <1>7, <1>8, <1>9 DEF Whole, Sound, y

LEMMA ConnectWhole ==
    ASSUME NEW x, Sound(x), x.state \in {"idle", "backoff"}, NEW clean \in BOOLEAN,
           x.state = "backoff" => Recovering(x), NEW now \in BOOLEAN
    PROVE  LET y == Connect(x, now, clean)
           IN  /\ Whole(y) /\ Advances(x, y, clean) /\ y.state # "idle"
               /\ x.state = "idle" => (y.state = "stopping" <=> now) /\ (now => y.incomplete)
               /\ x.state = "idle" /\ ~now => ~y.fatal
  <1> DEFINE w == StartConnect(x)
             y == HandleFailure(w, clean)
  <1>1. /\ Whole(w) /\ Advances(x, w, clean) /\ w.state = "connecting"
        /\ w.everConfigured = x.everConfigured
    BY StartConnectWhole
  <1>2. CASE ~now
    <2>1. Connect(x, now, clean) = w
      BY <1>2 DEF Connect
    <2> HIDE DEF w
    <2>2. ~w.fatal
      BY <1>1 DEF Whole, Sound, Settled
    <2> QED  BY <1>1, <1>2, <2>1, <2>2
  <1>3. CASE now
    <2>1. Connect(x, now, clean) = y
      BY <1>3 DEF Connect
    <2> HIDE DEF w
    <2>2. /\ Whole(y) /\ Advances(w, y, clean) /\ y.state \in {"stopping", "backoff"}
          /\ y.incomplete /\ (~w.everConfigured => y.state = "stopping")
      BY <1>1, HandleFailureWhole DEF Whole
    <2>3. x.state = "idle" => ~w.everConfigured
      BY <1>1 DEF Sound, Fresh
    <2>4. x.opened \in Nat /\ w.opened \in Nat /\ y.opened \in Nat
      BY <1>1, <2>2 DEF Whole, Sound, SessionType
    <2> HIDE DEF y
    <2>5. Advances(x, y, clean)
      BY <1>1, <2>2, <2>4 DEF Advances
    <2> QED  BY <1>3, <2>1, <2>2, <2>3, <2>5
  <1> QED  BY <1>2, <1>3

(* Readiness: announced for the first time, over a queue that has not failed. *)
LEMMA EnterRecordingWhole ==
    ASSUME NEW x, Sound(x), x.state = "warmingUp", DurationGate => x.started,
           NEW clean \in BOOLEAN
    PROVE  LET y == EnterRecording(x, clean)
           IN  /\ Whole(y) /\ Advances(x, y, clean) /\ y.state \in {"recording", "stopping"}
  <1> DEFINE T == (x.timers \ {"recovery", "command", "warmupLog"}) \cup {"watchdog"}
             n == x.opened + 1
             y == [x EXCEPT !.state = "recording", !.windows = 0, !.slot = TRUE, !.opened = n,
                            !.timers = T]
  <1>1. CASE q.failed
    <2>1. EnterRecording(x, clean) = StopRig(x, clean)
      BY <1>1 DEF EnterRecording
    <2> QED  BY <2>1, StopRigWhole
  <1>2. CASE ~q.failed
    <2>1. x \in SessionType /\ Settled(x) /\ Announced(x) /\ Counted(x)
      BY DEF Sound
    <2>2. T \in SUBSET Timers /\ "watchdog" \in T /\ "recovery" \notin T
      BY <2>1 DEF SessionType, Timers
    <2>3. n \in Nat /\ n = 1 /\ x.opened = 0
      BY <2>1 DEF Announced, SessionType
    <2>4. EnterRecording(x, clean) = y
      BY <1>2, <2>1 DEF EnterRecording, SessionType
    <2> HIDE DEF T, n
    <2>5. y \in SessionType
      BY <2>1, <2>2, <2>3 DEF SessionType, States
    <2>6. /\ y.state = "recording" /\ y.windows = 0 /\ y.timers = T /\ y.opened = n
          /\ y.rx = x.rx /\ y.started = x.started /\ y.incomplete = x.incomplete
          /\ y.nested = x.nested /\ y.fatal = x.fatal
      BY <2>1 DEF SessionType
    <2> HIDE DEF y
    <2>7. Settled(y) /\ Announced(y) /\ Fresh(y) /\ Counted(y)
      BY <2>1, <2>2, <2>3, <2>6 DEF Settled, Announced, Fresh, Counted
    <2>8. Deadline(y) /\ Recovering(y)
      BY <2>2, <2>6 DEF Deadline, Recovering
    <2>9. Advances(x, y, clean)
      BY <2>3, <2>6 DEF Advances
    <2> QED  BY <2>4, <2>5, <2>6, <2>7, <2>8, <2>9 DEF Whole, Sound
  <1> QED  BY <1>1, <1>2

LEMMA EnterWarmupWhole ==
    ASSUME NEW x, Sound(x), x.state = "configuring", elapsed => x.started,
           NEW clean \in BOOLEAN
    PROVE  LET y == EnterWarmup(x, clean)
           IN  /\ Whole(y) /\ Advances(x, y, clean)
               /\ y.state \in {"warmingUp", "recording", "stopping"}
  <1> DEFINE T == (x.timers \ {"command"}) \cup {"watchdog"}
             U == T \cup {"warmupLog"}
             w == [x EXCEPT !.state = "warmingUp", !.everConfigured = TRUE, !.up = 0,
                            !.fine = FALSE, !.slot = FALSE, !.timers = T]
             v == [w EXCEPT !.timers = U]
  <1>1. x \in SessionType /\ Settled(x) /\ Announced(x) /\ Counted(x)
    BY DEF Sound
  <1>2. /\ T \in SUBSET Timers /\ "watchdog" \in T /\ ("recovery" \in T <=> "recovery" \in x.timers)
        /\ U \in SUBSET Timers /\ "watchdog" \in U /\ ("recovery" \in U <=> "recovery" \in x.timers)
    BY <1>1 DEF SessionType, Timers
  <1>3. EnterWarmup(x, clean) = IF Ready(w) THEN EnterRecording(w, clean)
                                ELSE [w EXCEPT !.timers = @ \cup {"warmupLog"}]
    BY <1>1 DEF EnterWarmup, SessionType
  <1>4. w \in SessionType
    BY <1>1, <1>2 DEF SessionType, States
  <1>5. w.timers = T
    BY <1>1 DEF SessionType
  <1>6. [w EXCEPT !.timers = @ \cup {"warmupLog"}] = v
    BY <1>4, <1>5 DEF SessionType
  <1> HIDE DEF T, U
  <1>7. /\ w.state = "warmingUp" /\ w.slot = FALSE /\ w.rx = x.rx /\ w.windows = x.windows
        /\ w.opened = x.opened /\ w.started = x.started /\ w.incomplete = x.incomplete
        /\ w.nested = x.nested /\ w.fatal = x.fatal
    BY <1>1 DEF SessionType
  <1> HIDE DEF w
  <1>8. v \in SessionType /\ v.timers = U
    BY <1>2, <1>4 DEF SessionType
  <1>9. /\ v.state = "warmingUp" /\ v.slot = FALSE /\ v.rx = x.rx /\ v.windows = x.windows
        /\ v.opened = x.opened /\ v.started = x.started /\ v.incomplete = x.incomplete
        /\ v.nested = x.nested /\ v.fatal = x.fatal
    BY <1>4, <1>7 DEF SessionType
  <1> HIDE DEF v
  <1>10. Sound(w)
    BY <1>1, <1>2, <1>4, <1>5, <1>7 DEF Sound, Settled, Announced, Fresh, Counted
  <1>11. Whole(v)
    <2>1. Settled(v) /\ Announced(v) /\ Fresh(v) /\ Counted(v)
      BY <1>1, <1>2, <1>8, <1>9 DEF Settled, Announced, Fresh, Counted
    <2>2. Deadline(v) /\ Recovering(v)
      BY <1>2, <1>8, <1>9 DEF Deadline, Recovering
    <2> QED  BY <1>8, <2>1, <2>2 DEF Whole, Sound
  <1>12. x.opened \in Nat
    BY <1>1 DEF SessionType
  <1>13. CASE ~Ready(w)
    <2>1. EnterWarmup(x, clean) = v
      BY <1>3, <1>6, <1>13
    <2>2. Advances(x, v, clean)
      BY <1>9, <1>12 DEF Advances
    <2> QED  BY <1>9, <1>11, <2>1, <2>2
  <1>14. CASE Ready(w)
    <2> DEFINE y == EnterRecording(w, clean)
    <2>1. EnterWarmup(x, clean) = y
      BY <1>3, <1>14
    <2>2. DurationGate => w.started
      BY <1>7, <1>14 DEF Ready
    <2>3. Whole(y) /\ Advances(w, y, clean) /\ y.state \in {"recording", "stopping"}
      BY <1>7, <1>10, <2>2, EnterRecordingWhole
    <2> HIDE DEF y
    <2>4. Advances(x, y, clean)
      BY <1>7, <2>3 DEF Advances
    <2> QED  BY <2>1, <2>3, <2>4
  <1> QED  BY <1>13, <1>14

(* A command is sent, and with it the command timer is started. *)
LEMMA SendCommandWhole ==
    ASSUME NEW x, Sound(x), x.state = "configuring", Recovering(x), NEW clean \in BOOLEAN
    PROVE  LET y == SendCommand(x)
           IN  Whole(y) /\ Advances(x, y, clean) /\ y.state = "configuring"
  <1> DEFINE T == x.timers \cup {"command"}
             y == SendCommand(x)
  <1>1. x \in SessionType /\ Settled(x) /\ Announced(x) /\ Counted(x)
    BY DEF Sound
  <1>2. T \in SUBSET Timers /\ "command" \in T /\ ("recovery" \in T <=> "recovery" \in x.timers)
    BY <1>1 DEF SessionType, Timers
  <1>3. y = [x EXCEPT !.lst = FALSE, !.timers = T]
    BY <1>1 DEF SendCommand, SessionType
  <1> HIDE DEF T, y
  <1>4. y \in SessionType
    BY <1>1, <1>2, <1>3 DEF SessionType
  <1>5. /\ y.state = x.state /\ y.timers = T /\ y.rx = x.rx
        /\ y.windows = x.windows /\ y.opened = x.opened /\ y.started = x.started
        /\ y.incomplete = x.incomplete /\ y.slot = x.slot /\ y.nested = x.nested
        /\ y.everConfigured = x.everConfigured /\ y.fatal = x.fatal
    BY <1>1, <1>3 DEF SessionType
  <1>6. x.opened \in Nat
    BY <1>1 DEF SessionType
  <1>7. Settled(y) /\ Announced(y) /\ Fresh(y) /\ Counted(y)
    BY <1>1, <1>2, <1>5, <1>6 DEF Settled, Announced, Fresh, Counted
  <1>8. Deadline(y) /\ Recovering(y)
    BY <1>2, <1>5 DEF Deadline, Recovering
  <1>9. Advances(x, y, clean)
    BY <1>5, <1>6 DEF Advances
  <1> QED  BY <1>4, <1>5, <1>7, <1>8, <1>9 DEF Whole, Sound, y

LEMMA NextCommandWhole ==
    ASSUME NEW x, Sound(x), x.state = "configuring", Recovering(x), elapsed => x.started,
           NEW clean \in BOOLEAN
    PROVE  LET y == NextCommand(x, clean)
           IN  Whole(y) /\ Advances(x, y, clean) /\ y.state # "idle"
  <1> DEFINE n == x.cmd + 1
             w == [x EXCEPT !.cmd = n, !.lst = FALSE]
             y == NextCommand(x, clean)
  <1>1. x \in SessionType
    BY DEF Sound
  <1>2. n \in Nat
    BY <1>1 DEF SessionType
  <1>3. y = SendCurrentCommand(w, clean)
    BY <1>1 DEF NextCommand, SessionType
  <1> HIDE DEF n
  <1>4. w \in SessionType
    BY <1>1, <1>2 DEF SessionType
  <1>5. /\ w.state = x.state /\ w.timers = x.timers /\ w.rx = x.rx
        /\ w.windows = x.windows /\ w.opened = x.opened /\ w.started = x.started
        /\ w.incomplete = x.incomplete /\ w.slot = x.slot /\ w.nested = x.nested
        /\ w.everConfigured = x.everConfigured /\ w.fatal = x.fatal
    BY <1>1 DEF SessionType
  <1> HIDE DEF w
  <1>6. Sound(w) /\ Recovering(w)
    BY <1>4, <1>5 DEF Sound, Settled, Announced, Fresh, Counted, Recovering
  <1>7. \/ y = EnterWarmup(w, clean)
        \/ y = SendCommand(w)
    BY <1>3 DEF SendCurrentCommand
  <1>8. Whole(y) /\ Advances(w, y, clean) /\ y.state # "idle"
    BY <1>5, <1>6, <1>7, EnterWarmupWhole, SendCommandWhole
  <1> HIDE DEF y
  <1>9. Advances(x, y, clean)
    BY <1>5, <1>8 DEF Advances
  <1> QED  BY <1>8, <1>9 DEF y

LEMMA UpTimesNat ==
    ASSUME NEW u \in UpTimes \cup {0}
    PROVE  u \in Nat /\ (u \in UpTimes => u # 0)
  BY UpTimesAssumption

(* A receiver status; an up-time that went backwards is a loss. *)
LEMMA OnReceiverStatusWhole ==
    ASSUME NEW x, Whole(x), x.state \in {"warmingUp", "recording"}, NEW clean \in BOOLEAN,
           NEW status \in [up : UpTimes, fine : BOOLEAN]
    PROVE  LET y == OnReceiverStatus(x, status, clean)
           IN  /\ Whole(y) /\ Advances(x, y, clean) /\ y.state \in {x.state, "stopping"}
               /\ x.up # 0 /\ status.up < x.up => y.incomplete
  <1> DEFINE back == x.up # 0 /\ status.up < x.up
             w == [x EXCEPT !.up = status.up, !.fine = status.fine]
             y == OnReceiverStatus(x, status, clean)
  <1>1. x \in SessionType /\ status.up \in UpTimes /\ status.fine \in BOOLEAN
    BY DEF Whole, Sound
  <1>2. y = IF back /\ x.state = "recording" THEN StopRig(w, clean)
            ELSE [w EXCEPT !.incomplete = @ \/ back]
    BY DEF OnReceiverStatus
  <1>3. w \in SessionType
    BY <1>1 DEF SessionType
  <1>4. /\ w.state = x.state /\ w.timers = x.timers /\ w.rx = x.rx
        /\ w.windows = x.windows /\ w.opened = x.opened /\ w.started = x.started
        /\ w.incomplete = x.incomplete /\ w.slot = x.slot /\ w.nested = x.nested
        /\ w.everConfigured = x.everConfigured /\ w.fatal = x.fatal
    BY <1>1 DEF SessionType
  <1>b. back \in BOOLEAN
    OBVIOUS
  <1> HIDE DEF w, back
  <1>5. Sound(w)
    BY <1>3, <1>4 DEF Whole, Sound, Settled, Announced, Fresh, Counted
  <1>6. Whole(w)
    BY <1>4, <1>5 DEF Whole, Deadline, Recovering
  <1>7. w.opened \in Nat
    BY <1>3 DEF SessionType
  <1>8. Whole(y) /\ Advances(w, y, clean) /\ y.state \in {w.state, "stopping"}
        /\ (back => y.incomplete)
    <2>1. CASE back /\ x.state = "recording"
      <3>1. y = StopRig(w, clean)
        BY <1>2, <2>1
      <3> QED  BY <1>4, <1>5, <2>1, <3>1, StopRigWhole
    <2>2. CASE back /\ x.state # "recording"
      <3> DEFINE z == [w EXCEPT !.incomplete = TRUE]
      <3>1. y = [w EXCEPT !.incomplete = TRUE]
        BY <1>2, <1>3, <2>2 DEF SessionType
      <3>2. Whole(z)
        BY <1>4, <1>5, <1>6, MarkSound
      <3>3. /\ z.state = w.state /\ z.opened = w.opened /\ z.started = w.started /\ z.incomplete
        BY <1>3, MarkFields
      <3> HIDE DEF z
      <3>4. Advances(w, z, clean)
        BY <1>7, <3>3 DEF Advances
      <3> QED  BY <3>1, <3>2, <3>3, <3>4 DEF z
    <2>3. CASE ~back
      <3>1. y = [w EXCEPT !.incomplete = @ \/ FALSE]
        BY <1>2, <2>3, <1>b
      <3>2. (w.incomplete \/ FALSE) = w.incomplete
        BY <1>3 DEF SessionType
      <3>3. y = w
        BY <1>3, <3>1, <3>2 DEF SessionType
      <3>4. Advances(w, w, clean)
        BY <1>7 DEF Advances
      <3> QED  BY <1>6, <2>3, <3>3, <3>4
    <2> QED  BY <2>1, <2>2, <2>3
  <1> HIDE DEF y
  <1>9. Advances(x, y, clean)
    BY <1>4, <1>8 DEF Advances
  <1> QED  BY <1>4, <1>8, <1>9 DEF y, back

(* A recorded block: the recording has begun, the watchdog is fed, the gate
   may open. *)
LEMMA OnRecordedBlockWhole ==
    ASSUME NEW x, Whole(x), x.state \notin {"idle", "backoff", "stopping"},
           NEW clean \in BOOLEAN, NEW status \in Statuses
    PROVE  LET y == OnRecordedBlock(x, status, clean)
           IN  /\ Whole(y) /\ Advances(x, y, clean) /\ y.state # "idle" /\ y.started
               /\ /\ x.state \in {"warmingUp", "recording"}
                  /\ status.up # 0 /\ status.up < x.up
                  => y.incomplete
  <1> DEFINE a == [x EXCEPT !.started = TRUE]
             w == [a EXCEPT !.timers = @ \cup {"watchdog"}]
             b == IF x.state \notin {"warmingUp", "recording"} THEN a
                  ELSE IF status = NoStatus THEN w ELSE OnReceiverStatus(w, status, clean)
             c == IF b.state = "warmingUp" /\ Ready(b) THEN EnterRecording(b, clean) ELSE b
             d == IF c.state = "recording" THEN [c EXCEPT !.slot = TRUE] ELSE c
             reset == /\ x.state \in {"warmingUp", "recording"}
                      /\ status.up # 0 /\ status.up < x.up
  <1>1. OnRecordedBlock(x, status, clean) = d
    BY DEF OnRecordedBlock
  <1>2. x \in SessionType
    BY DEF Whole, Sound
  <1>3. a \in SessionType
    BY <1>2 DEF SessionType
  <1>4. /\ a.state = x.state /\ a.timers = x.timers /\ a.rx = x.rx /\ a.up = x.up
        /\ a.windows = x.windows /\ a.opened = x.opened /\ a.started
        /\ a.incomplete = x.incomplete /\ a.slot = x.slot /\ a.nested = x.nested
        /\ a.everConfigured = x.everConfigured /\ a.fatal = x.fatal
    BY <1>2 DEF SessionType
  <1> HIDE DEF a
  <1>5. Sound(a)
    BY <1>3, <1>4 DEF Whole, Sound, Settled, Announced, Fresh, Counted
  <1>6. Whole(a)
    BY <1>4, <1>5 DEF Whole, Deadline, Recovering
  <1>7. a.opened \in Nat
    BY <1>3 DEF SessionType
  <1>8. x.state \in {"warmingUp", "recording"} => w = a
    <2>1. x.state \in {"warmingUp", "recording"} => a.timers \cup {"watchdog"} = a.timers
      BY <1>4 DEF Whole, Deadline
    <2> QED  BY <1>3, <2>1 DEF SessionType
  <1> HIDE DEF w
  <1>9. Whole(b) /\ Advances(a, b, clean) /\ b.state \in {a.state, "stopping"}
        /\ (reset => b.incomplete)
    <2>1. Advances(a, a, clean)
      BY <1>7 DEF Advances
    <2>2. CASE x.state \notin {"warmingUp", "recording"}
      <3>1. b = a /\ ~reset
        BY <2>2
      <3> HIDE DEF b, reset
      <3> QED  BY <1>6, <2>1, <3>1
    <2>3. CASE x.state \in {"warmingUp", "recording"} /\ status = NoStatus
      <3>1. b = a
        BY <1>8, <2>3
      <3>2. ~reset
        BY <2>3 DEF NoStatus
      <3> HIDE DEF b, reset
      <3> QED  BY <1>6, <2>1, <3>1, <3>2
    <2>4. CASE x.state \in {"warmingUp", "recording"} /\ status # NoStatus
      <3>1. b = OnReceiverStatus(a, status, clean)
        BY <1>8, <2>4
      <3>2. status \in [up : UpTimes, fine : BOOLEAN]
        BY <2>4 DEF Statuses
      <3>3. status.up \in Nat \ {0} /\ (x.up \in Nat)
        <4>1. status.up \in UpTimes
          BY <3>2
        <4>2. x.up \in UpTimes \cup {0}
          BY <1>2 DEF SessionType
        <4> QED  BY <4>1, <4>2, UpTimesNat
      <3>4. reset => a.up # 0 /\ status.up < a.up
        BY <1>4, <3>3
      <3> HIDE DEF b, reset
      <3> QED  BY <1>4, <1>6, <2>4, <3>1, <3>2, <3>4, OnReceiverStatusWhole
    <2> QED  BY <2>2, <2>3, <2>4
  <1> HIDE DEF b, reset
  <1>10. /\ Whole(c) /\ Advances(b, c, clean)
         /\ c.state = b.state \/ c.state \in {"recording", "stopping"}
    <2>1. b.opened \in Nat
      BY <1>9 DEF Whole, Sound, SessionType
    <2>2. CASE b.state = "warmingUp" /\ Ready(b)
      <3>1. c = EnterRecording(b, clean)
        BY <2>2
      <3>2. b.started
        BY <1>4, <1>9 DEF Advances
      <3> QED  BY <1>9, <2>2, <3>1, <3>2, EnterRecordingWhole DEF Whole
    <2>3. CASE ~(b.state = "warmingUp" /\ Ready(b))
      <3>1. c = b
        BY <2>3
      <3>2. Advances(b, b, clean)
        BY <2>1 DEF Advances
      <3> HIDE DEF c
      <3> QED  BY <1>9, <3>1, <3>2
    <2> QED  BY <2>2, <2>3
  <1> HIDE DEF c
  <1>11. /\ Whole(d) /\ d.state = c.state /\ d.started = c.started /\ d.opened = c.opened
         /\ d.incomplete = c.incomplete
    <2>1. c \in SessionType
      BY <1>10 DEF Whole, Sound
    <2>2. CASE c.state # "recording"
      BY <1>10, <2>2
    <2>3. CASE c.state = "recording"
      <3>1. d = [c EXCEPT !.slot = TRUE]
        BY <2>3
      <3> HIDE DEF d
      <3>2. /\ d \in SessionType /\ d.state = c.state /\ d.timers = c.timers /\ d.rx = c.rx
            /\ d.windows = c.windows /\ d.opened = c.opened /\ d.started = c.started
            /\ d.incomplete = c.incomplete /\ d.nested = c.nested
            /\ d.everConfigured = c.everConfigured /\ d.fatal = c.fatal
        BY <2>1, <3>1 DEF SessionType
      <3>3. Sound(d)
        BY <1>10, <2>3, <3>2 DEF Whole, Sound, Settled, Announced, Fresh, Counted
      <3>4. Whole(d)
        BY <1>10, <3>2, <3>3 DEF Whole, Deadline, Recovering
      <3> QED  BY <3>2, <3>4
    <2> QED  BY <2>2, <2>3
  <1> HIDE DEF d
  <1>12. b.opened \in Nat /\ c.opened \in Nat
    BY <1>9, <1>10 DEF Whole, Sound, SessionType
  <1>13. Advances(x, d, clean) /\ d.started
    BY <1>4, <1>7, <1>9, <1>10, <1>11, <1>12 DEF Advances
  <1>14. d.state # "idle" /\ (reset => d.incomplete)
    BY <1>4, <1>9, <1>10, <1>11 DEF Advances
  <1> QED  BY <1>1, <1>11, <1>13, <1>14 DEF reset

LEMMA OnStreamDamageWhole ==
    ASSUME NEW x, Whole(x), x.state # "idle", NEW clean \in BOOLEAN
    PROVE  LET y == OnStreamDamage(x, clean)
           IN  /\ Whole(y) /\ Advances(x, y, clean) /\ y.state # "idle"
               /\ x.state # "stopping" => y.incomplete
  <1>1. x \in SessionType /\ x.opened \in Nat /\ Sound(x)
    BY DEF Whole, Sound, SessionType
  <1>2. CASE x.state = "stopping"
    <2>1. OnStreamDamage(x, clean) = x
      BY <1>2 DEF OnStreamDamage
    <2>2. Advances(x, x, clean)
      BY <1>1 DEF Advances
    <2> QED  BY <1>2, <2>1, <2>2
  <1>3. CASE x.state = "recording"
    <2>1. OnStreamDamage(x, clean) = StopRig(x, clean)
      BY <1>3 DEF OnStreamDamage
    <2> QED  BY <1>1, <1>3, <2>1, StopRigWhole
  <1>4. CASE x.state \notin {"stopping", "recording"}
    <2> DEFINE y == [x EXCEPT !.incomplete = TRUE]
    <2>1. OnStreamDamage(x, clean) = y
      BY <1>4 DEF OnStreamDamage
    <2>2. Whole(y)
      BY <1>1, MarkSound
    <2>3. /\ y.state = x.state /\ y.opened = x.opened /\ y.started = x.started /\ y.incomplete
      BY <1>1, MarkFields
    <2> HIDE DEF y
    <2>4. Advances(x, y, clean)
      BY <1>1, <2>3 DEF Advances
    <2> QED  BY <2>1, <2>2, <2>3, <2>4
  <1> QED  BY <1>2, <1>3, <1>4

----------------------------------------------------------------------------
(* Handlers. *)

(* What Handle does, when the operation returns y and the queue's verdict is
   `clean`. *)
Handled(y, clean, loses) ==
    /\ qpc = "loop" /\ exec
    /\ q.failed => ~clean
    /\ s' = y
    /\ IF y.state = "stopping" /\ s.state # "stopping"
       THEN /\ q' = [q EXCEPT !.closed = TRUE, !.failed = @ \/ ~clean]
            /\ lost' = (lost \/ loses \/ ~clean)
       ELSE UNCHANGED q /\ lost' = (lost \/ loses)
    /\ qpc' = IF y.fatal THEN "mark" ELSE "loop"
    /\ bringUp' = IF y.opened > s.opened /\ bringUp = "pending" THEN "recording" ELSE bringUp

(* The verdicts of the queue and of the loss a handler reports. *)
LEMMA HandledQueue ==
    ASSUME IInv, NEW y, NEW clean \in BOOLEAN, NEW loses \in BOOLEAN,
           Handled(y, clean, loses), Whole(y), Advances(s, y, clean), loses => y.incomplete,
           elapsed' = elapsed
    PROVE  /\ Queue' /\ q' \in [failed : BOOLEAN, closed : BOOLEAN, event : BOOLEAN]
           /\ lost' \in BOOLEAN /\ bringUp' \in {"pending", "recording", "failed"}
           /\ bringUp # "pending" => bringUp' = bringUp
  <1>1. /\ q \in [failed : BOOLEAN, closed : BOOLEAN, event : BOOLEAN] /\ lost \in BOOLEAN
        /\ bringUp \in {"pending", "recording", "failed"}
    BY DEF IInv, Types
  <1>2. Queue
    BY DEF IInv
  <1>3. s' = y /\ (q.failed => ~clean)
    BY DEF Handled
  <1>4. /\ elapsed' => y.started
        /\ bringUp' = "recording" => y.opened = 1
        /\ bringUp' \in {"pending", "recording", "failed"}
        /\ bringUp # "pending" => bringUp' = bringUp
    <2>1. y.opened \in Nat /\ y.opened <= 1 /\ s.opened \in Nat
      BY DEF Whole, Sound, SessionType, Announced, IInv
    <2>2. bringUp' = IF y.opened > s.opened /\ bringUp = "pending" THEN "recording" ELSE bringUp
      BY DEF Handled
    <2>3. y.opened >= s.opened /\ (s.started => y.started)
      BY DEF Advances
    <2>4. (elapsed => s.started) /\ (bringUp = "recording" => s.opened = 1)
      BY <1>2 DEF Queue
    <2>5. y.opened > s.opened => y.opened = 1
      BY <2>1
    <2>6. s.opened = 1 => y.opened = 1
      BY <2>1, <2>3
    <2> QED  BY <1>1, <2>2, <2>3, <2>4, <2>5, <2>6
  <1>5. CASE y.state = "stopping" /\ s.state # "stopping"
    <2>1. /\ q' = [q EXCEPT !.closed = TRUE, !.failed = @ \/ ~clean]
          /\ lost' = (lost \/ loses \/ ~clean)
      BY <1>5 DEF Handled
    <2>2. /\ q'.closed = TRUE /\ q'.event = q.event /\ q'.failed = (q.failed \/ ~clean)
          /\ q' \in [failed : BOOLEAN, closed : BOOLEAN, event : BOOLEAN]
      BY <1>1, <2>1
    <2>3. ~clean => y.incomplete
      BY <1>5 DEF Advances
    <2>4. lost => y.incomplete \/ q.failed
      BY <1>2 DEF Queue, Advances
    <2>5. q'.failed => y.incomplete
      BY <1>3, <2>2, <2>3
    <2>6. lost' => y.incomplete
      BY <1>3, <2>1, <2>3, <2>4
    <2>7. q'.event => q'.failed
      BY <1>2, <2>2 DEF Queue
    <2>8. lost' \in BOOLEAN
      BY <2>1
    <2> QED  BY <1>3, <1>4, <1>5, <2>2, <2>5, <2>6, <2>7, <2>8 DEF Queue
  <1>6. CASE ~(y.state = "stopping" /\ s.state # "stopping")
    <2>1. q' = q /\ lost' = (lost \/ loses)
      BY <1>6 DEF Handled
    <2>2. y.state = "stopping" <=> s.state = "stopping"
      BY <1>6 DEF Advances
    <2>3. lost' => y.incomplete \/ (q.failed /\ ~q.closed)
      BY <1>2, <2>1 DEF Queue, Advances
    <2>4. q.closed <=> y.state = "stopping"
      BY <1>2, <2>2 DEF Queue
    <2>5. /\ q.event => q.failed
          /\ q.failed /\ q.closed => y.incomplete
          /\ q.failed /\ ~q.closed => y.started
      BY <1>2 DEF Queue, Advances
    <2>6. lost' \in BOOLEAN
      BY <2>1
    <2> QED  BY <1>1, <1>3, <1>4, <2>1, <2>3, <2>4, <2>5, <2>6 DEF Queue
  <1> QED  BY <1>5, <1>6

(* A handler whose operation returns a whole Session keeps the invariant. *)
LEMMA HandledStep ==
    ASSUME IInv, NEW y, NEW clean \in BOOLEAN, NEW loses \in BOOLEAN,
           Handled(y, clean, loses), Whole(y), Advances(s, y, clean), y.state # "idle",
           loses => y.incomplete,
           UNCHANGED <<doc, elapsed, exec, appVars, terminate, failed>>,
           quit' = quit \/ (quit' = TRUE /\ terminate /\ y.state = "stopping"),
           ReceiverTypes'
    PROVE  IInv'
  <1>1. /\ Queue' /\ q' \in [failed : BOOLEAN, closed : BOOLEAN, event : BOOLEAN]
        /\ lost' \in BOOLEAN /\ bringUp' \in {"pending", "recording", "failed"}
        /\ bringUp # "pending" => bringUp' = bringUp
    BY HandledQueue
  <1>2. /\ s' = y /\ qpc = "loop" /\ qpc' \in {"mark", "loop"}
        /\ qpc' = "mark" => y.fatal
    BY DEF Handled
  <1>3. /\ doc' = doc /\ elapsed' = elapsed /\ exec' = exec /\ mpc' = mpc
        /\ initResult' = initResult /\ external' = external /\ terminate' = terminate
        /\ failed' = failed
    BY DEF appVars
  <1>4. Whole(s)'
    BY <1>2, <1>3 DEF Whole, Sound, Settled, Announced, Fresh, Counted, Deadline, Recovering,
                      DurationGate, SessionType
  <1>5. y.fatal => y.state = "stopping"
    BY DEF Whole, Sound, Settled
  <1>6. quit' \in BOOLEAN /\ (quit' => terminate /\ y.state = "stopping")
    <2>1. quit \in BOOLEAN /\ (quit => terminate /\ s.state = "stopping")
      BY DEF IInv, Types, QtThreadAt
    <2>2. s.state = "stopping" => y.state = "stopping"
      BY DEF Advances
    <2>3. CASE quit' = quit
      BY <2>1, <2>2, <2>3
    <2>4. CASE quit' = TRUE /\ terminate /\ y.state = "stopping"
      BY <2>4
    <2> QED  BY <2>3, <2>4
  <1>7. Types'
    BY <1>1, <1>2, <1>3, <1>6 DEF IInv, Types, QtPlaces
  <1>8. QtThreadAt'
    BY <1>2, <1>3, <1>5, <1>6 DEF IInv, QtThreadAt, Late
  <1>9. Published'
    BY <1>1, <1>2, <1>3 DEF IInv, Published, Ended, Late
  <1> QED  BY <1>1, <1>4, <1>7, <1>8, <1>9 DEF IInv

(* A timer other than the recovery timer has expired. *)
LEMMA ExpiredSound ==
    ASSUME Whole(s), NEW t, t # "recovery"
    PROVE  LET x == [s EXCEPT !.timers = @ \ {t}]
           IN  /\ Sound(x) /\ Recovering(x) /\ x.timers = s.timers \ {t}
               /\ x.state = s.state /\ x.started = s.started /\ x.incomplete = s.incomplete
               /\ x.opened = s.opened /\ x.everConfigured = s.everConfigured
  <1> DEFINE T == s.timers \ {t}
             x == [s EXCEPT !.timers = T]
  <1>1. s \in SessionType
    BY DEF Whole, Sound
  <1>2. T \in SUBSET Timers /\ ("recovery" \in T <=> "recovery" \in s.timers)
        /\ (s.timers = {} => T = {})
    BY <1>1 DEF SessionType
  <1>3. x = [s EXCEPT !.timers = @ \ {t}]
    OBVIOUS
  <1> HIDE DEF T
  <1>4. x \in SessionType
    BY <1>1, <1>2 DEF SessionType
  <1>5. /\ x.state = s.state /\ x.timers = T /\ x.rx = s.rx
        /\ x.windows = s.windows /\ x.opened = s.opened /\ x.started = s.started
        /\ x.incomplete = s.incomplete /\ x.slot = s.slot /\ x.nested = s.nested
        /\ x.everConfigured = s.everConfigured /\ x.fatal = s.fatal
    BY <1>1 DEF SessionType
  <1> HIDE DEF x
  <1>6. Settled(x) /\ Announced(x) /\ Fresh(x) /\ Counted(x)
    BY <1>2, <1>5 DEF Whole, Sound, Settled, Announced, Fresh, Counted
  <1>7. Recovering(x)
    BY <1>2, <1>5 DEF Whole, Recovering
  <1> QED  BY <1>3, <1>4, <1>5, <1>6, <1>7 DEF Sound, T

(* What is done with the Session after it expired. *)
LEMMA ExpiredAdvances ==
    ASSUME NEW x, NEW y, NEW clean, Advances(x, y, clean),
           x.state = s.state, x.started = s.started, x.incomplete = s.incomplete,
           x.opened = s.opened
    PROVE  Advances(s, y, clean)
  BY DEF Advances

(* No handler but the reply to a command and a block changes the receiver. *)
LEMMA ReceiverKept ==
    ASSUME IInv, UNCHANGED rcv
    PROVE  ReceiverTypes'
  BY DEF IInv, ReceiverTypes

LEMMA RestKept ==
    ASSUME UNCHANGED appRest
    PROVE  /\ UNCHANGED <<doc, elapsed, exec, appVars, terminate, failed>>
           /\ quit' = quit
  BY DEF appRest

LEMMA ConnectedStep == IInv /\ Connected => IInv'
  <1> SUFFICES ASSUME IInv, Connected  PROVE IInv'
    OBVIOUS
  <1> DEFINE T == (s.timers \ {"connect"}) \cup {"command"}
             y == [s EXCEPT !.rx = "open", !.state = "waitingDescriptor",
                            !.timers = (@ \ {"connect"}) \cup {"command"}]
  <1>1. PICK clean \in BOOLEAN : Handled(y, clean, FALSE)
    BY DEF Connected, Handle, Handled
  <1>2. UNCHANGED rcv /\ UNCHANGED appRest /\ s.rx = "connecting"
    BY DEF Connected, restVars
  <1>3. s \in SessionType /\ Whole(s) /\ s.state = "connecting"
    BY <1>2 DEF IInv, Whole, Sound, Settled
  <1>4. T \in SUBSET Timers /\ "command" \in T /\ ("recovery" \in T <=> "recovery" \in s.timers)
    BY <1>3 DEF SessionType, Timers
  <1>5. y = [s EXCEPT !.rx = "open", !.state = "waitingDescriptor", !.timers = T]
    OBVIOUS
  <1> HIDE DEF T, y
  <1>6. y \in SessionType
    BY <1>3, <1>4, <1>5 DEF SessionType, States, Links
  <1>7. /\ y.state = "waitingDescriptor" /\ y.timers = T /\ y.rx = "open"
        /\ y.windows = s.windows /\ y.opened = s.opened /\ y.started = s.started
        /\ y.incomplete = s.incomplete /\ y.slot = s.slot /\ y.nested = s.nested
        /\ y.everConfigured = s.everConfigured /\ y.fatal = s.fatal
    BY <1>3, <1>5 DEF SessionType
  <1>8. Settled(y) /\ Announced(y) /\ Fresh(y) /\ Counted(y)
    BY <1>3, <1>4, <1>7 DEF Whole, Sound, Settled, Announced, Fresh, Counted
  <1>9. Deadline(y) /\ Recovering(y)
    BY <1>3, <1>4, <1>7 DEF Whole, Deadline, Recovering
  <1>10. Whole(y)
    BY <1>6, <1>8, <1>9 DEF Whole, Sound
  <1>11. s.opened \in Nat
    BY <1>3 DEF SessionType
  <1>12. Advances(s, y, clean)
    BY <1>3, <1>7, <1>11 DEF Advances
  <1> QED  BY <1>1, <1>2, <1>7, <1>10, <1>12, HandledStep, ReceiverKept, RestKept

(* The commands can be built, and the first is sent, or they cannot. *)
LEMMA NewConnectionDescriptorStep == IInv /\ NewConnectionDescriptor => IInv'
  <1> SUFFICES ASSUME IInv, NewConnectionDescriptor  PROVE IInv'
    OBVIOUS
  <1> DEFINE f(d) == [s EXCEPT !.descriptor = d]
             w(d) == [s EXCEPT !.descriptor = d, !.cmd = 1, !.state = "configuring"]
  <1>1. PICK d \in Descriptors, clean \in BOOLEAN :
           \/ Handled(FailStartup(f(d), clean), clean, FALSE)
           \/ Handled(SendCommand(w(d)), clean, FALSE)
    BY DEF NewConnectionDescriptor, Handle, Handled
  <1>2. UNCHANGED rcv /\ UNCHANGED appRest /\ s.state = "waitingDescriptor"
    BY DEF NewConnectionDescriptor, restVars
  <1>3. s \in SessionType /\ Whole(s) /\ s.opened \in Nat
    BY DEF IInv, Whole, Sound, SessionType
  <1>4. CASE Handled(FailStartup(f(d), clean), clean, FALSE)
    <2> DEFINE x == f(d)
               y == FailStartup(x, clean)
    <2>1. x \in SessionType
      BY <1>3 DEF SessionType
    <2>2. /\ x.state = s.state /\ x.rx = s.rx /\ x.opened = s.opened /\ x.started = s.started
          /\ x.incomplete = s.incomplete /\ x.slot = s.slot /\ x.nested = s.nested
          /\ x.fatal = s.fatal
      BY <1>3 DEF SessionType
    <2>3. Handled(y, clean, FALSE)
      BY <1>4
    <2> HIDE DEF x
    <2>4. Settled(x) /\ Announced(x)
      BY <1>3, <2>2 DEF Whole, Sound, Settled, Announced
    <2>5. Whole(y) /\ Advances(x, y, clean) /\ y.state = "stopping"
      BY <1>2, <2>1, <2>2, <2>4, FailStartupWhole
    <2> HIDE DEF y
    <2>6. Advances(s, y, clean)
      BY <2>2, <2>5, ExpiredAdvances
    <2> QED  BY <1>2, <2>3, <2>5, <2>6, HandledStep, ReceiverKept, RestKept
  <1>5. CASE Handled(SendCommand(w(d)), clean, FALSE)
    <2> DEFINE x == w(d)
               y == SendCommand(x)
    <2>1. x \in SessionType
      BY <1>3 DEF SessionType, States
    <2>2. /\ x.state = "configuring" /\ x.rx = s.rx /\ x.opened = s.opened
          /\ x.started = s.started /\ x.timers = s.timers /\ x.windows = s.windows
          /\ x.incomplete = s.incomplete /\ x.slot = s.slot /\ x.nested = s.nested
          /\ x.fatal = s.fatal /\ x.everConfigured = s.everConfigured
      BY <1>3 DEF SessionType
    <2>3. Handled(y, clean, FALSE)
      BY <1>5
    <2> HIDE DEF x
    <2>4. Sound(x) /\ Recovering(x)
      BY <1>2, <1>3, <2>1, <2>2 DEF Whole, Sound, Settled, Announced, Fresh, Counted, Recovering
    <2>5. Whole(y) /\ Advances(x, y, clean) /\ y.state = "configuring"
      BY <2>2, <2>4, SendCommandWhole
    <2> HIDE DEF y
    <2>6. Advances(s, y, clean)
      BY <1>2, <2>2, <2>5 DEF Advances
    <2> QED  BY <1>2, <2>3, <2>5, <2>6, HandledStep, ReceiverKept, RestKept
  <1> QED  BY <1>1, <1>4, <1>5

LEMMA CommandRejectedStep == IInv /\ CommandRejected => IInv'
  <1> SUFFICES ASSUME IInv, CommandRejected  PROVE IInv'
    OBVIOUS
  <1> DEFINE x == [s EXCEPT !.timers = @ \ {"command"}]
             y(clean) == HandleFailure(x, clean)
  <1>1. PICK clean \in BOOLEAN : Handled(y(clean), clean, FALSE)
    BY DEF CommandRejected, Handle, Handled
  <1>2. UNCHANGED rcv /\ UNCHANGED appRest /\ s.state = "configuring"
    BY DEF CommandRejected, Outstanding, restVars
  <1>3. /\ Sound(x) /\ x.state = s.state /\ x.started = s.started
        /\ x.incomplete = s.incomplete /\ x.opened = s.opened
    BY ExpiredSound DEF IInv
  <1> HIDE DEF x
  <1>4. /\ Whole(y(clean)) /\ Advances(x, y(clean), clean)
        /\ y(clean).state \in {"stopping", "backoff"}
    BY <1>2, <1>3, HandleFailureWhole
  <1> HIDE DEF y
  <1>5. Advances(s, y(clean), clean)
    BY <1>3, <1>4, ExpiredAdvances
  <1> QED  BY <1>1, <1>2, <1>4, <1>5, HandledStep, ReceiverKept, RestKept

LEMMA ListingHeaderStep == IInv /\ ListingHeader => IInv'
  <1> SUFFICES ASSUME IInv, ListingHeader  PROVE IInv'
    OBVIOUS
  <1> DEFINE y == [s EXCEPT !.lst = TRUE, !.timers = @ \cup {"command"}]
  <1>1. PICK clean \in BOOLEAN : Handled(y, clean, FALSE)
    BY DEF ListingHeader, Handle, Handled
  <1>2. UNCHANGED rcv /\ UNCHANGED appRest /\ s.state = "configuring"
    BY DEF ListingHeader, Outstanding, restVars
  <1>3. s \in SessionType /\ Whole(s) /\ s.opened \in Nat
    BY DEF IInv, Whole, Sound, SessionType
  <1>4. s.timers \cup {"command"} = s.timers
    BY <1>2, <1>3 DEF Whole, Deadline
  <1>5. y = [s EXCEPT !.lst = TRUE]
    BY <1>3, <1>4 DEF SessionType
  <1> HIDE DEF y
  <1>6. y \in SessionType
    BY <1>3, <1>5 DEF SessionType
  <1>7. /\ y.state = s.state /\ y.timers = s.timers /\ y.rx = s.rx
        /\ y.windows = s.windows /\ y.opened = s.opened /\ y.started = s.started
        /\ y.incomplete = s.incomplete /\ y.slot = s.slot /\ y.nested = s.nested
        /\ y.everConfigured = s.everConfigured /\ y.fatal = s.fatal
    BY <1>3, <1>5 DEF SessionType
  <1>8. Sound(y)
    BY <1>3, <1>6, <1>7 DEF Whole, Sound, Settled, Announced, Fresh, Counted
  <1>9. Whole(y)
    BY <1>3, <1>7, <1>8 DEF Whole, Deadline, Recovering
  <1>10. Advances(s, y, clean)
    BY <1>3, <1>7 DEF Advances
  <1> QED  BY <1>1, <1>2, <1>7, <1>9, <1>10, HandledStep, ReceiverKept, RestKept

(* An answer, accepted or not. *)
LEMMA AnsweredStep ==
    ASSUME IInv, NEW ok, Answered(ok), s.state = "configuring", UNCHANGED appRest,
           ReceiverTypes'
    PROVE  IInv'
  <1> DEFINE x == [s EXCEPT !.timers = @ \ {"command"}]
  <1>1. PICK clean \in BOOLEAN : \/ Handled(NextCommand(x, clean), clean, FALSE)
                                 \/ Handled(HandleFailure(x, clean), clean, FALSE)
    BY DEF Answered, Handle, Handled
  <1>2. /\ Sound(x) /\ Recovering(x) /\ x.state = s.state /\ x.started = s.started
        /\ x.incomplete = s.incomplete /\ x.opened = s.opened
    BY ExpiredSound DEF IInv
  <1> HIDE DEF x
  <1>3. elapsed => x.started
    BY <1>2 DEF IInv, Queue
  <1>4. ASSUME NEW y, Handled(y, clean, FALSE), Whole(y), Advances(x, y, clean), y.state # "idle"
        PROVE  IInv'
    <2>1. Advances(s, y, clean)
      BY <1>2, <1>4, ExpiredAdvances
    <2> QED  BY <1>4, <2>1, HandledStep, RestKept
  <1>5. CASE Handled(NextCommand(x, clean), clean, FALSE)
    BY <1>2, <1>3, <1>4, <1>5, NextCommandWhole
  <1>6. CASE Handled(HandleFailure(x, clean), clean, FALSE)
    <2> DEFINE y == HandleFailure(x, clean)
    <2>1. Whole(y) /\ Advances(x, y, clean) /\ y.state \in {"stopping", "backoff"}
      BY <1>2, HandleFailureWhole
    <2> QED  BY <1>4, <1>6, <2>1
  <1> QED  BY <1>1, <1>5, <1>6

(* A receiver that obeys has changed at most one argument more. *)
LEMMA ObeyBent ==
    ASSUME ReceiverTypes, NEW c, NEW bent,
           bent # 0 => Cardinality(rcv.bent) < MaxBent
    PROVE  LET r == Obey(rcv, c, bent)
           IN  /\ "bent" \in DOMAIN r /\ "lines" \in DOMAIN r
               /\ IsFiniteSet(r.bent) /\ Cardinality(r.bent) <= MaxBent
  <1> DEFINE r == Obey(rcv, c, bent)
             a == [name |-> c.name, target |-> c.target, field |-> bent]
             B == rcv.bent \ OfLine(rcv.bent, c)
             L == rcv.lines \cup {Line(c.name, c.target)}
             N == IF bent = 0 THEN {} ELSE {a}
  <1>1. IsFiniteSet(rcv.bent) /\ Cardinality(rcv.bent) \in Nat
    BY FS_CardinalityType DEF ReceiverTypes
  <1>2. IsFiniteSet(B) /\ Cardinality(B) \in Nat /\ Cardinality(B) <= Cardinality(rcv.bent)
    BY <1>1, FS_Subset, FS_CardinalityType
  <1>3. IsFiniteSet(B \cup N) /\ Cardinality(B \cup N) <= MaxBent
    <2>1. CASE bent = 0
      <3>1. B \cup N = B
        BY <2>1
      <3> QED  BY <1>1, <1>2, <3>1, UpTimesAssumption DEF ReceiverTypes
    <2>2. CASE bent # 0
      <3>1. B \cup N = B \cup {a}
        BY <2>2
      <3> HIDE DEF B, a
      <3>2. /\ IsFiniteSet(B \cup {a})
            /\ Cardinality(B \cup {a}) = IF a \in B THEN Cardinality(B) ELSE Cardinality(B) + 1
        BY <1>2, FS_AddElement
      <3> QED  BY <1>1, <1>2, <2>2, <3>1, <3>2, UpTimesAssumption
    <2> QED  BY <2>1, <2>2
  <1>4. IsFiniteSet({}) /\ Cardinality({}) <= MaxBent
    BY FS_EmptySet, UpTimesAssumption
  <1>5. CASE c.verb = "set"
    <2>1. r = [rcv EXCEPT !.lines = L, !.bent = B \cup N]
      BY <1>5 DEF Obey
    <2> HIDE DEF L, B, N
    <2>2. DOMAIN r = DOMAIN rcv /\ r.bent = B \cup N
      BY <2>1 DEF ReceiverTypes
    <2> QED  BY <1>3, <2>2 DEF ReceiverTypes
  <1>6. CASE c.verb # "set" /\ c.name = "login"
    <2> DEFINE M == rcv.lines \cup {Line("UserAccessLevel", "User1")}
    <2>1. r = [rcv EXCEPT !.lines = M]
      BY <1>6 DEF Obey
    <2> HIDE DEF M
    <2>2. DOMAIN r = DOMAIN rcv /\ r.bent = rcv.bent
      BY <2>1 DEF ReceiverTypes
    <2> QED  BY <2>2 DEF ReceiverTypes
  <1>7. CASE c.verb # "set" /\ c.name = "CopyConfigFile"
    <2> DEFINE M == rcv.boot \cup {l \in rcv.lines : l.permanent}
    <2>1. r = [rcv EXCEPT !.lines = M, !.bent = {}]
      BY <1>7 DEF Obey
    <2> HIDE DEF M
    <2>2. DOMAIN r = DOMAIN rcv /\ r.bent = {}
      BY <2>1 DEF ReceiverTypes
    <2> QED  BY <1>4, <2>2 DEF ReceiverTypes
  <1>8. CASE c.verb # "set" /\ c.name \notin {"login", "CopyConfigFile"}
    <2>1. r = rcv
      BY <1>8 DEF Obey
    <2> QED  BY <2>1 DEF ReceiverTypes
  <1> QED  BY <1>5, <1>6, <1>7, <1>8

LEMMA NewCommandReplyStep == IInv /\ NewCommandReply => IInv'
  <1> SUFFICES ASSUME IInv, NewCommandReply  PROVE IInv'
    OBVIOUS
  <1> DEFINE c == Commands[s.cmd]
  <1>1. PICK bent \in {0} \cup {f \in c.fields :
                                  /\ c.verb = "set" /\ c.name \in Bendable
                                  /\ Cardinality(rcv.bent) < MaxBent} :
           rcv' = [Obey(rcv, c, bent) EXCEPT !.reset = @ /\ c.name # "CopyConfigFile"]
    BY DEF NewCommandReply
  <1>2. /\ s.state = "configuring" /\ UNCHANGED appRest
        /\ Answered(AnswerAccepted(rcv, c, TheSettings, DriverCommandWhitelist(Commands)))
    BY DEF NewCommandReply, Outstanding
  <1>3. bent # 0 => Cardinality(rcv.bent) < MaxBent
    OBVIOUS
  <1> HIDE DEF c
  <1> DEFINE r == Obey(rcv, c, bent)
  <1>4. /\ "bent" \in DOMAIN r /\ "lines" \in DOMAIN r
        /\ IsFiniteSet(r.bent) /\ Cardinality(r.bent) <= MaxBent
    BY <1>3, ObeyBent DEF IInv
  <1>5. rcv' = [r EXCEPT !.reset = @ /\ c.name # "CopyConfigFile"]
    BY <1>1
  <1> HIDE DEF r
  <1>6. DOMAIN rcv' = DOMAIN r /\ rcv'.bent = r.bent
    BY <1>4, <1>5
  <1>7. ReceiverTypes'
    BY <1>4, <1>6 DEF ReceiverTypes
  <1> QED  BY <1>2, <1>7, AnsweredStep

LEMMA NewPromptStep == IInv /\ NewPrompt => IInv'
  <1> SUFFICES ASSUME IInv, NewPrompt  PROVE IInv'
    OBVIOUS
  <1>1. /\ s.state = "configuring" /\ UNCHANGED appRest /\ UNCHANGED rcv
        /\ Answered(AnswerAccepted(rcv, Commands[s.cmd], TheSettings,
                                   DriverCommandWhitelist(Commands)))
    BY DEF NewPrompt, Outstanding, restVars
  <1> QED  BY <1>1, AnsweredStep, ReceiverKept

LEMMA NewSbfBlockStep == IInv /\ NewSbfBlock => IInv'
  <1> SUFFICES ASSUME IInv, NewSbfBlock  PROVE IInv'
    OBVIOUS
  <1>1. UNCHANGED appRest
    BY DEF NewSbfBlock
  <1>2. Whole(s) /\ s.opened \in Nat
    BY DEF IInv, Whole, Sound, SessionType
  <1>3. CASE /\ s.state \in {"backoff", "stopping"}
             /\ Handle(LAMBDA clean : s, s.state = "backoff")
             /\ UNCHANGED rcv
    <2>1. PICK clean \in BOOLEAN : Handled(s, clean, s.state = "backoff")
      BY <1>3 DEF Handle, Handled
    <2>2. s.state = "backoff" => s.incomplete
      BY <1>2 DEF Whole, Sound, Settled
    <2>3. Advances(s, s, clean)
      BY <1>2 DEF Advances
    <2> QED  BY <1>1, <1>2, <1>3, <2>1, <2>2, <2>3, HandledStep, ReceiverKept, RestKept
  <1>4. ASSUME s.state \notin {"backoff", "stopping"},
               NEW status \in Statuses,
               LET reset == /\ s.state \in {"warmingUp", "recording"}
                            /\ status.up # 0 /\ status.up < s.up
               IN  /\ Handle(LAMBDA clean : OnRecordedBlock(s, status, clean), reset)
                   /\ rcv' = IF reset THEN Rebooted(rcv) ELSE rcv
        PROVE  IInv'
    <2> DEFINE reset == /\ s.state \in {"warmingUp", "recording"}
                        /\ status.up # 0 /\ status.up < s.up
               y(clean) == OnRecordedBlock(s, status, clean)
    <2>1. PICK clean \in BOOLEAN : Handled(y(clean), clean, reset)
      BY <1>4 DEF Handle, Handled
    <2>2. s.state # "idle"
      BY <2>1 DEF Handled, IInv, QtThreadAt
    <2>3. /\ Whole(y(clean)) /\ Advances(s, y(clean), clean) /\ y(clean).state # "idle"
          /\ reset => y(clean).incomplete
      BY <1>2, <1>4, <2>2, OnRecordedBlockWhole
    <2>4. rcv' = IF reset THEN Rebooted(rcv) ELSE rcv
      BY <1>4
    <2>5. reset \in BOOLEAN
      OBVIOUS
    <2> HIDE DEF reset, y
    <2>6. ReceiverTypes'
      <3>1. CASE ~reset
        BY <2>4, <3>1, ReceiverKept
      <3>2. CASE reset
        <4> DEFINE M == rcv.boot \cup {l \in rcv.lines : l.permanent}
        <4>1. rcv' = [rcv EXCEPT !.lines = M, !.bent = {}, !.reset = TRUE]
          BY <2>4, <3>2 DEF Rebooted
        <4> HIDE DEF M
        <4>2. DOMAIN rcv' = DOMAIN rcv /\ rcv'.bent = {}
          BY <4>1 DEF IInv, ReceiverTypes
        <4> QED  BY <4>2, FS_EmptySet, UpTimesAssumption DEF IInv, ReceiverTypes
      <3> QED  BY <3>1, <3>2
    <2> QED  BY <1>1, <2>1, <2>3, <2>5, <2>6, HandledStep, RestKept
  <1> QED  BY <1>3, <1>4 DEF NewSbfBlock

(* The Session stops over a queue that has failed. *)
LEMMA HandleQueueFailureStep == IInv /\ HandleQueueFailure
                                /\ (s.state = "stopping" => s.incomplete) => IInv'
  <1> SUFFICES ASSUME IInv, HandleQueueFailure, s.state = "stopping" => s.incomplete  PROVE IInv'
    OBVIOUS
  <1> DEFINE y == StopRig(s, FALSE)
  <1>1. /\ qpc = "loop" /\ exec /\ s' = y
        /\ q' = [failed |-> TRUE, closed |-> TRUE, event |-> FALSE]
        /\ qpc' = IF y.fatal THEN "mark" ELSE "loop"
        /\ lost' = TRUE /\ UNCHANGED rcv /\ UNCHANGED appRest /\ bringUp' = bringUp
    BY DEF HandleQueueFailure, restVars
  <1>2. s.state # "idle" /\ Whole(s)
    BY <1>1 DEF IInv, QtThreadAt
  <1>3. /\ Whole(y) /\ Advances(s, y, FALSE) /\ y.state = "stopping"
        /\ s.state # "stopping" => y.incomplete
    BY <1>2, StopRigWhole DEF Whole
  <1> HIDE DEF y
  <1>4. y.incomplete
    BY <1>3 DEF Advances
  <1>5. y.opened \in Nat /\ s.opened \in Nat /\ y.opened <= 1 /\ y.opened >= s.opened
    BY <1>2, <1>3 DEF Whole, Sound, Announced, SessionType, Advances
  <1>6. /\ doc' = doc /\ elapsed' = elapsed /\ exec' = exec /\ mpc' = mpc
        /\ initResult' = initResult /\ external' = external /\ terminate' = terminate
        /\ failed' = failed /\ quit' = quit
    BY <1>1 DEF appRest, appVars
  <1>7. Whole(s)'
    BY <1>1, <1>3, <1>6 DEF Whole, Sound, Settled, Announced, Fresh, Counted, Deadline,
                            Recovering, DurationGate, SessionType
  <1>8. /\ q'.failed = TRUE /\ q'.closed = TRUE /\ q'.event = FALSE
        /\ q' \in [failed : BOOLEAN, closed : BOOLEAN, event : BOOLEAN]
    BY <1>1
  <1>9. (elapsed' => y.started) /\ (bringUp' = "recording" => y.opened = 1)
    <2>1. bringUp = "recording" => s.opened = 1
      BY DEF IInv, Queue
    <2>2. s.opened = 1 => y.opened = 1
      BY <1>5
    <2>3. elapsed => y.started
      BY <1>3 DEF IInv, Queue, Advances
    <2> QED  BY <1>1, <1>6, <2>1, <2>2, <2>3
  <1>10. Queue'
    BY <1>1, <1>3, <1>4, <1>8, <1>9 DEF Queue
  <1>11. Types'
    BY <1>1, <1>6, <1>8 DEF IInv, Types, QtPlaces
  <1>12. QtThreadAt'
    BY <1>1, <1>3, <1>6 DEF IInv, QtThreadAt, Late
  <1>13. Published'
    BY <1>1, <1>6 DEF IInv, Published, Ended, Late
  <1> QED  BY <1>1, <1>7, <1>10, <1>11, <1>12, <1>13, ReceiverKept DEF IInv

LEMMA SbfBlockRefusedStep == IInv /\ SbfBlockRefused => IInv'
  BY HandleQueueFailureStep DEF SbfBlockRefused

LEMMA WriteFailedEventStep == IInv /\ WriteFailedEvent => IInv'
  <1> SUFFICES ASSUME IInv, WriteFailedEvent  PROVE IInv'
    OBVIOUS
  <1>1. s.state = "stopping" => s.incomplete
    BY DEF WriteFailedEvent, IInv, Queue
  <1> QED  BY <1>1, HandleQueueFailureStep DEF WriteFailedEvent

LEMMA StreamDamageStep == IInv /\ StreamDamage => IInv'
  <1> SUFFICES ASSUME IInv, StreamDamage  PROVE IInv'
    OBVIOUS
  <1> DEFINE y(clean) == OnStreamDamage(s, clean)
  <1>1. PICK clean \in BOOLEAN : Handled(y(clean), clean, s.state # "stopping")
    BY DEF StreamDamage, Handle, Handled
  <1>2. UNCHANGED rcv /\ UNCHANGED appRest
    BY DEF StreamDamage, restVars
  <1>3. Whole(s) /\ s.state # "idle"
    BY <1>1 DEF Handled, IInv, QtThreadAt
  <1>4. /\ Whole(y(clean)) /\ Advances(s, y(clean), clean) /\ y(clean).state # "idle"
        /\ s.state # "stopping" => y(clean).incomplete
    BY <1>3, OnStreamDamageWhole
  <1> HIDE DEF y
  <1> QED  BY <1>1, <1>2, <1>4, HandledStep, ReceiverKept, RestKept

LEMMA LinkFailureStep == IInv /\ LinkFailure => IInv'
  <1> SUFFICES ASSUME IInv, LinkFailure  PROVE IInv'
    OBVIOUS
  <1> DEFINE y(clean) == HandleFailure(s, clean)
  <1>1. PICK clean \in BOOLEAN : Handled(y(clean), clean, s.everConfigured)
    BY DEF LinkFailure, Handle, Handled
  <1>2. UNCHANGED rcv /\ UNCHANGED appRest /\ s.rx \in {"connecting", "open"}
    BY DEF LinkFailure, restVars
  <1>3. Whole(s) /\ s.state # "idle" /\ s.everConfigured \in BOOLEAN
    BY <1>1 DEF Handled, IInv, QtThreadAt, Whole, Sound, SessionType
  <1>4. s.state # "stopping"
    BY <1>2, <1>3 DEF Whole, Sound, Settled
  <1>5. /\ Whole(y(clean)) /\ Advances(s, y(clean), clean)
        /\ y(clean).state \in {"stopping", "backoff"} /\ y(clean).incomplete
    BY <1>3, <1>4, HandleFailureWhole DEF Whole
  <1> HIDE DEF y
  <1> QED  BY <1>1, <1>2, <1>3, <1>5, HandledStep, ReceiverKept, RestKept

(* A timer that expires and is not the one its state waits for does nothing. *)
LEMMA ExpiredIdly ==
    ASSUME IInv, NEW t, t # "recovery", NEW clean \in BOOLEAN, s.state # "idle",
           Deadline([s EXCEPT !.timers = @ \ {t}]),
           Handled([s EXCEPT !.timers = @ \ {t}], clean, FALSE),
           UNCHANGED rcv, UNCHANGED appRest
    PROVE  IInv'
  <1> DEFINE x == [s EXCEPT !.timers = @ \ {t}]
  <1>1. /\ Sound(x) /\ Recovering(x) /\ x.timers = s.timers \ {t}
        /\ x.state = s.state /\ x.started = s.started /\ x.incomplete = s.incomplete
        /\ x.opened = s.opened
    BY ExpiredSound DEF IInv
  <1>2. Handled(x, clean, FALSE)
    OBVIOUS
  <1>3. Deadline(x)
    OBVIOUS
  <1> HIDE DEF x
  <1>4. Whole(x) /\ x.opened \in Nat
    BY <1>1, <1>3 DEF Whole, Sound, SessionType
  <1>5. Advances(s, x, clean)
    BY <1>1, <1>4 DEF Advances
  <1> QED  BY <1>1, <1>2, <1>4, <1>5, HandledStep, ReceiverKept, RestKept

(* A timer that expires in the state that waits for it is a failure. *)
LEMMA ExpiredFails ==
    ASSUME IInv, NEW t, t # "recovery", NEW clean \in BOOLEAN, NEW loses \in BOOLEAN,
           s.state \notin {"idle", "stopping", "backoff"},
           Handled(HandleFailure([s EXCEPT !.timers = @ \ {t}], clean), clean, loses),
           UNCHANGED rcv, UNCHANGED appRest
    PROVE  IInv'
  <1> DEFINE x == [s EXCEPT !.timers = @ \ {t}]
             y == HandleFailure(x, clean)
  <1>1. /\ Sound(x) /\ x.state = s.state /\ x.started = s.started
        /\ x.incomplete = s.incomplete /\ x.opened = s.opened
    BY ExpiredSound DEF IInv
  <1>2. Handled(y, clean, loses)
    OBVIOUS
  <1> HIDE DEF x
  <1>3. /\ Whole(y) /\ Advances(x, y, clean) /\ y.state \in {"stopping", "backoff"}
        /\ y.incomplete
    BY <1>1, HandleFailureWhole
  <1> HIDE DEF y
  <1>4. Advances(s, y, clean)
    BY <1>1, <1>3, ExpiredAdvances
  <1> QED  BY <1>2, <1>3, <1>4, HandledStep, ReceiverKept, RestKept

(* The Session a timer's handler is given is in the same state. *)
LEMMA ExpiredState ==
    ASSUME IInv, NEW t
    PROVE  [s EXCEPT !.timers = @ \ {t}].state = s.state
  BY DEF IInv, Whole, Sound, SessionType

LEMMA ConnectTimeoutStep == IInv /\ ConnectTimeout => IInv'
  <1> SUFFICES ASSUME IInv, ConnectTimeout  PROVE IInv'
    OBVIOUS
  <1> DEFINE x == [s EXCEPT !.timers = @ \ {"connect"}]
  <1>1. PICK clean \in BOOLEAN :
           Handled(IF x.state = "connecting" THEN HandleFailure(x, clean) ELSE x, clean, FALSE)
    BY DEF ConnectTimeout, Expires, Handle, Handled
  <1>2. UNCHANGED rcv /\ UNCHANGED appRest
    BY DEF ConnectTimeout, Expires, restVars
  <1>3. s.state # "idle" /\ x.state = s.state
    BY <1>1, ExpiredState DEF Handled, IInv, QtThreadAt
  <1>4. CASE s.state = "connecting"
    <2>1. Handled(HandleFailure(x, clean), clean, FALSE)
      BY <1>1, <1>3, <1>4
    <2> QED  BY <1>2, <1>4, <2>1, ExpiredFails
  <1>5. CASE s.state # "connecting"
    <2>1. Handled(x, clean, FALSE)
      BY <1>1, <1>3, <1>5
    <2>3. x.timers = s.timers \ {"connect"}
      BY ExpiredSound DEF IInv
    <2>4. Deadline(x)
      BY <1>3, <1>5, <2>3 DEF IInv, Whole, Deadline
    <2> QED  BY <1>2, <1>3, <2>1, <2>4, ExpiredIdly
  <1> QED  BY <1>4, <1>5

LEMMA CommandTimeoutStep == IInv /\ CommandTimeout => IInv'
  <1> SUFFICES ASSUME IInv, CommandTimeout  PROVE IInv'
    OBVIOUS
  <1> DEFINE x == [s EXCEPT !.timers = @ \ {"command"}]
  <1>1. PICK clean \in BOOLEAN :
           Handled(IF x.state \in {"configuring", "waitingDescriptor"}
                   THEN HandleFailure(x, clean) ELSE x, clean, FALSE)
    BY DEF CommandTimeout, Expires, Handle, Handled
  <1>2. UNCHANGED rcv /\ UNCHANGED appRest
    BY DEF CommandTimeout, Expires, restVars
  <1>3. s.state # "idle" /\ x.state = s.state
    BY <1>1, ExpiredState DEF Handled, IInv, QtThreadAt
  <1>4. CASE s.state \in {"configuring", "waitingDescriptor"}
    <2>1. Handled(HandleFailure(x, clean), clean, FALSE)
      BY <1>1, <1>3, <1>4
    <2> QED  BY <1>2, <1>4, <2>1, ExpiredFails
  <1>5. CASE s.state \notin {"configuring", "waitingDescriptor"}
    <2>1. Handled(x, clean, FALSE)
      BY <1>1, <1>3, <1>5
    <2>3. x.timers = s.timers \ {"command"}
      BY ExpiredSound DEF IInv
    <2>4. Deadline(x)
      BY <1>3, <1>5, <2>3 DEF IInv, Whole, Deadline
    <2> QED  BY <1>2, <1>3, <2>1, <2>4, ExpiredIdly
  <1> QED  BY <1>4, <1>5

LEMMA WatchdogStep == IInv /\ Watchdog => IInv'
  <1> SUFFICES ASSUME IInv, Watchdog  PROVE IInv'
    OBVIOUS
  <1> DEFINE x == [s EXCEPT !.timers = @ \ {"watchdog"}]
             loses == s.state \in {"warmingUp", "recording"}
  <1>1. PICK clean \in BOOLEAN : Handled(OnWatchdog(x, clean), clean, loses)
    BY DEF Watchdog, Expires, Handle, Handled
  <1>2. UNCHANGED rcv /\ UNCHANGED appRest
    BY DEF Watchdog, Expires, restVars
  <1>3. s.state # "idle" /\ x.state = s.state
    BY <1>1, ExpiredState DEF Handled, IInv, QtThreadAt
  <1>4. CASE loses
    <2>1. Handled(HandleFailure(x, clean), clean, TRUE)
      BY <1>1, <1>3, <1>4 DEF OnWatchdog
    <2> QED  BY <1>2, <1>3, <1>4, <2>1, ExpiredFails
  <1>5. CASE ~loses
    <2>2. OnWatchdog(x, clean) = x /\ loses = FALSE
      BY <1>3, <1>5 DEF OnWatchdog
    <2>1. Handled(x, clean, FALSE)
      BY <1>1, <2>2
    <2>3. x.timers = s.timers \ {"watchdog"}
      BY ExpiredSound DEF IInv
    <2>4. Deadline(x)
      BY <1>3, <1>5, <2>3 DEF IInv, Whole, Deadline
    <2> QED  BY <1>2, <1>3, <2>1, <2>4, ExpiredIdly
  <1> QED  BY <1>4, <1>5

LEMMA RetryTimeoutStep == IInv /\ RetryTimeout => IInv'
  <1> SUFFICES ASSUME IInv, RetryTimeout  PROVE IInv'
    OBVIOUS
  <1> DEFINE x == [s EXCEPT !.timers = @ \ {"retry"}]
             y(now, clean) == Connect(x, now, clean)
  <1>1. PICK now \in BOOLEAN, clean \in BOOLEAN :
           Handled(IF x.state = "backoff" THEN y(now, clean) ELSE x, clean, FALSE)
    BY DEF RetryTimeout, Expires, Handle, Handled
  <1>2. UNCHANGED rcv /\ UNCHANGED appRest
    BY DEF RetryTimeout, Expires, restVars
  <1>3. s.state # "idle" /\ x.state = s.state
    BY <1>1, ExpiredState DEF Handled, IInv, QtThreadAt
  <1>4. CASE s.state # "backoff"
    <2>1. Handled(x, clean, FALSE)
      BY <1>1, <1>3, <1>4
    <2>3. x.timers = s.timers \ {"retry"}
      BY ExpiredSound DEF IInv
    <2>4. Deadline(x)
      BY <1>3, <1>4, <2>3 DEF IInv, Whole, Deadline
    <2> QED  BY <1>2, <1>3, <2>1, <2>4, ExpiredIdly
  <1>5. CASE s.state = "backoff"
    <2>1. /\ Sound(x) /\ Recovering(x) /\ x.state = s.state /\ x.started = s.started
          /\ x.incomplete = s.incomplete /\ x.opened = s.opened
      BY ExpiredSound DEF IInv
    <2>2. Handled(y(now, clean), clean, FALSE)
      BY <1>1, <1>3, <1>5
    <2> HIDE DEF x
    <2>3. Whole(y(now, clean)) /\ Advances(x, y(now, clean), clean) /\ y(now, clean).state # "idle"
      BY <1>5, <2>1, ConnectWhole
    <2> HIDE DEF y
    <2>4. Advances(s, y(now, clean), clean)
      BY <2>1, <2>3, ExpiredAdvances
    <2> QED  BY <1>2, <2>2, <2>3, <2>4, HandledStep, ReceiverKept, RestKept
  <1> QED  BY <1>4, <1>5

(* The recovery timer has expired: its count is wrong until Shutdown. *)
LEMMA RecoveryTimeoutStep == IInv /\ RecoveryTimeout => IInv'
  <1> SUFFICES ASSUME IInv, RecoveryTimeout  PROVE IInv'
    OBVIOUS
  <1> DEFINE T == s.timers \ {"recovery"}
             x == [s EXCEPT !.timers = @ \ {"recovery"}]
             y(clean) == FailStartup(x, clean)
  <1>1. PICK clean \in BOOLEAN : Handled(y(clean), clean, FALSE)
    BY DEF RecoveryTimeout, Expires, Handle, Handled
  <1>2. UNCHANGED rcv /\ UNCHANGED appRest /\ "recovery" \in s.timers
    BY DEF RecoveryTimeout, Expires, restVars
  <1>3. Whole(s) /\ s \in SessionType
    BY DEF IInv, Whole, Sound
  <1>4. s.state # "stopping"
    BY <1>2, <1>3 DEF Whole, Deadline
  <1>5. T \in SUBSET Timers /\ x = [s EXCEPT !.timers = T]
    BY <1>3 DEF SessionType
  <1> HIDE DEF T, x
  <1>6. x \in SessionType
    BY <1>3, <1>5 DEF SessionType
  <1>7. /\ x.state = s.state /\ x.rx = s.rx /\ x.opened = s.opened /\ x.started = s.started
        /\ x.incomplete = s.incomplete /\ x.slot = s.slot /\ x.nested = s.nested
        /\ x.fatal = s.fatal
    BY <1>3, <1>5 DEF SessionType
  <1>8. Settled(x) /\ Announced(x)
    BY <1>3, <1>7 DEF Whole, Sound, Settled, Announced
  <1>9. Whole(y(clean)) /\ Advances(x, y(clean), clean) /\ y(clean).state = "stopping"
    BY <1>4, <1>6, <1>7, <1>8, FailStartupWhole
  <1> HIDE DEF y
  <1>10. Advances(s, y(clean), clean)
    BY <1>7, <1>9, ExpiredAdvances
  <1> QED  BY <1>1, <1>2, <1>9, <1>10, HandledStep, ReceiverKept, RestKept

LEMMA WarmupLogStep == IInv /\ WarmupLog => IInv'
  <1> SUFFICES ASSUME IInv, WarmupLog  PROVE IInv'
    OBVIOUS
  <1> DEFINE y(clean) == EnterRecording(s, clean)
  <1>1. PICK clean \in BOOLEAN : Handled(y(clean), clean, FALSE)
    BY DEF WarmupLog, Handle, Handled
  <1>2. UNCHANGED rcv /\ UNCHANGED appRest /\ s.state = "warmingUp" /\ Ready(s)
    BY DEF WarmupLog, restVars
  <1>3. DurationGate => s.started
    BY <1>2 DEF Ready, IInv, Queue
  <1>4. /\ Whole(y(clean)) /\ Advances(s, y(clean), clean)
        /\ y(clean).state \in {"recording", "stopping"}
    BY <1>2, <1>3, EnterRecordingWhole DEF IInv, Whole
  <1> HIDE DEF y
  <1> QED  BY <1>1, <1>2, <1>4, HandledStep, ReceiverKept, RestKept

LEMMA StopPollStep == IInv /\ StopPoll => IInv'
  <1> SUFFICES ASSUME IInv, StopPoll  PROVE IInv'
    OBVIOUS
  <1> DEFINE y(clean) == Shutdown(s, clean)
  <1>1. PICK clean \in BOOLEAN : Handled(y(clean), clean, FALSE)
    BY DEF StopPoll, Handle, Handled
  <1>2. /\ terminate /\ quit' = TRUE /\ UNCHANGED rcv
        /\ UNCHANGED <<doc, elapsed, exec, appVars, terminate, failed>>
    BY DEF StopPoll, world
  <1>3. Whole(s) /\ s.opened \in Nat
    BY DEF IInv, Whole, Sound, SessionType
  <1>4. Whole(y(clean)) /\ Advances(s, y(clean), clean) /\ y(clean).state = "stopping"
    <2>1. CASE s.state # "stopping"
      BY <1>3, <2>1, ShutdownWhole DEF Whole, Sound
    <2>2. CASE s.state = "stopping"
      <3>1. y(clean) = s
        BY <2>2 DEF Shutdown
      <3> HIDE DEF y
      <3>2. Advances(s, s, clean)
        BY <1>3 DEF Advances
      <3> QED  BY <1>3, <2>2, <3>1, <3>2
    <2> QED  BY <2>1, <2>2
  <1> HIDE DEF y
  <1> QED  BY <1>1, <1>2, <1>4, HandledStep, ReceiverKept

----------------------------------------------------------------------------
(* The writer thread, the clock and the two threads of the driver. *)

LEMMA SessionKept ==
    ASSUME IInv, UNCHANGED <<world, s>>
    PROVE  Whole(s)' /\ ReceiverTypes' /\ doc' \in DOMAIN Documents
  <1>1. doc' = doc /\ rcv' = rcv /\ s' = s
    BY DEF world
  <1> QED  BY <1>1 DEF IInv, ReceiverTypes, Types, Whole, Sound, Settled, Announced, Fresh,
                       Counted, Deadline, Recovering, DurationGate, SessionType

(* The slot is disarmed, or FatalError has been handled. *)
LEMMA SessionDisarmed ==
    ASSUME IInv, UNCHANGED world,
           s' = [s EXCEPT !.slot = FALSE] \/ s' = [s EXCEPT !.fatal = FALSE]
    PROVE  /\ Whole(s)' /\ ReceiverTypes' /\ doc' \in DOMAIN Documents
           /\ s'.state = s.state /\ s'.started = s.started /\ s'.opened = s.opened
           /\ s'.incomplete = s.incomplete
  <1>1. doc' = doc /\ rcv' = rcv /\ s \in SessionType
    BY DEF world, IInv, Whole, Sound
  <1>2. /\ s'.state = s.state /\ s'.timers = s.timers /\ s'.rx = s.rx
        /\ s'.windows = s.windows /\ s'.opened = s.opened /\ s'.started = s.started
        /\ s'.incomplete = s.incomplete /\ s'.nested = s.nested
        /\ s'.everConfigured = s.everConfigured
    BY <1>1 DEF SessionType
  <1>3. \/ (s'.slot = s.slot /\ s'.fatal = FALSE)
        \/ (s'.slot = FALSE /\ s'.fatal = s.fatal)
    BY <1>1 DEF SessionType
  <1>4. s' \in SessionType
    BY <1>1 DEF SessionType
  <1>5. Sound(s)'
    <2>1. Settled(s')
      BY <1>2, <1>3 DEF IInv, Whole, Sound, Settled
    <2>2. Announced(s)' /\ Fresh(s)' /\ Counted(s)'
      BY <1>1, <1>2 DEF IInv, Whole, Sound, Announced, Fresh, Counted, DurationGate
    <2> QED  BY <1>4, <2>1, <2>2 DEF Sound, Settled, SessionType
  <1>6. Whole(s)'
    BY <1>2, <1>5 DEF IInv, Whole, Deadline, Recovering
  <1> QED  BY <1>1, <1>2, <1>6 DEF IInv, ReceiverTypes, Types

LEMMA WriterFailsStep == IInv /\ WriterFails => IInv'
  <1> SUFFICES ASSUME IInv, WriterFails  PROVE IInv'
    OBVIOUS
  <1>1. /\ s.started /\ ~q.failed /\ ~q.closed
        /\ q' = [q EXCEPT !.failed = TRUE, !.event = TRUE] /\ lost' = TRUE
        /\ UNCHANGED <<world, s, elapsed, qpc, exec, quit, bringUp, terminate, failed>>
        /\ mpc' = mpc /\ initResult' = initResult /\ external' = external
    BY DEF WriterFails, appVars
  <1>2. q \in [failed : BOOLEAN, closed : BOOLEAN, event : BOOLEAN]
    BY DEF IInv, Types
  <1>3. /\ q' \in [failed : BOOLEAN, closed : BOOLEAN, event : BOOLEAN]
        /\ q'.failed = TRUE /\ q'.closed = q.closed /\ q'.event = TRUE
    BY <1>1, <1>2
  <1>4. s.state # "idle"
    BY <1>1 DEF IInv, Whole, Sound, Fresh
  <1>5. Queue'
    BY <1>1, <1>3 DEF IInv, Queue
  <1>6. QtThreadAt'
    BY <1>1, <1>4 DEF IInv, QtThreadAt
  <1>7. Types' /\ Published'
    BY <1>1, <1>3, SessionKept DEF IInv, Types, Published, Ended
  <1> QED  BY <1>1, <1>5, <1>6, <1>7, SessionKept DEF IInv

LEMMA DurationReachedStep == IInv /\ DurationReached => IInv'
  <1> SUFFICES ASSUME IInv, DurationReached  PROVE IInv'
    OBVIOUS
  <1>1. /\ s.started /\ elapsed' = TRUE
        /\ UNCHANGED <<world, s, q, qpc, exec, quit, bringUp, terminate, failed, lost>>
        /\ mpc' = mpc /\ initResult' = initResult /\ external' = external
    BY DEF DurationReached, appVars
  <1>2. Types' /\ Queue' /\ QtThreadAt' /\ Published'
    BY <1>1, SessionKept DEF IInv, Types, Queue, QtThreadAt, Published, Ended
  <1> QED  BY <1>1, <1>2, SessionKept DEF IInv

(* Steps that leave the Session, the queue and the loss alone. *)
LEMMA ThreadsStep ==
    ASSUME IInv, UNCHANGED sessionVars,
           bringUp' = "recording" => bringUp = "recording",
           Types', QtThreadAt', Published'
    PROVE  IInv'
  <1>1. UNCHANGED <<world, s>> /\ elapsed' = elapsed /\ q' = q /\ lost' = lost /\ s' = s
    BY DEF sessionVars
  <1>2. Queue'
    BY <1>1 DEF IInv, Queue
  <1> QED  BY <1>1, <1>2, SessionKept DEF IInv

LEMMA StartSessionStep == IInv /\ StartSession => IInv'
  <1> SUFFICES ASSUME IInv, StartSession  PROVE IInv'
    OBVIOUS
  <1> DEFINE y(now, clean) == Connect(s, now, clean)
  <1>1. PICK now \in BOOLEAN, clean \in BOOLEAN :
           s' = y(now, clean) /\ q' = [q EXCEPT !.closed = now, !.failed = now /\ ~clean]
    BY DEF StartSession
  <1>2. /\ qpc = "start" /\ qpc' = (IF s'.fatal THEN "mark" ELSE "loop") /\ UNCHANGED world
        /\ elapsed' = elapsed /\ lost' = lost /\ exec' = exec /\ quit' = quit
        /\ bringUp' = bringUp /\ terminate' = terminate /\ failed' = failed
        /\ mpc' = mpc /\ initResult' = initResult /\ external' = external
    BY DEF StartSession, appVars
  <1>3. Whole(s) /\ s.state = "idle" /\ ~q.failed /\ ~lost
    BY <1>2 DEF IInv, QtThreadAt
  <1>4. /\ Whole(y(now, clean)) /\ y(now, clean).state # "idle"
        /\ y(now, clean).state = "stopping" <=> now
        /\ now => y(now, clean).incomplete
        /\ Advances(s, y(now, clean), clean)
    BY <1>3, ConnectWhole DEF Whole
  <1> DEFINE z == y(now, clean)
  <1> HIDE DEF y
  <1>5. Whole(z) /\ z.state # "idle" /\ (z.state = "stopping" <=> now) /\ (now => z.incomplete)
    BY <1>4
  <1>6. s' = z /\ ~elapsed /\ bringUp # "recording"
    <2>1. ~s.started /\ s.opened = 0
      BY <1>3 DEF Whole, Sound, Fresh
    <2> QED  BY <1>1, <2>1 DEF IInv, Queue
  <1>7. /\ q' \in [failed : BOOLEAN, closed : BOOLEAN, event : BOOLEAN]
        /\ q'.closed = now /\ q'.event = q.event /\ q'.failed = (now /\ ~clean)
    <2>1. q \in [failed : BOOLEAN, closed : BOOLEAN, event : BOOLEAN]
      BY DEF IInv, Types
    <2> QED  BY <1>1, <2>1
  <1>8. ~q'.event /\ (q'.closed <=> now) /\ (q'.failed => now)
    <2>1. ~q.event
      BY <1>3 DEF IInv, Queue
    <2> QED  BY <1>7, <2>1
  <1> HIDE DEF z
  <1>9. z.fatal => z.state = "stopping"
    BY <1>5 DEF Whole, Sound, Settled
  <1>10. qpc' \in {"mark", "loop"} /\ (qpc' = "mark" => z.state = "stopping")
    BY <1>2, <1>6, <1>9
  <1>11. Queue'
    BY <1>2, <1>3, <1>5, <1>6, <1>8 DEF Queue
  <1>12. doc' = doc /\ rcv' = rcv
    BY <1>2 DEF world
  <1>13. Whole(s)'
    BY <1>5, <1>6, <1>12 DEF Whole, Sound, Settled, Announced, Fresh, Counted, Deadline,
                             Recovering, DurationGate, SessionType
  <1>14. Types'
    BY <1>2, <1>7, <1>10, <1>12 DEF IInv, Types, QtPlaces
  <1>15. QtThreadAt'
    <2>1. ~quit
      BY <1>3 DEF IInv, QtThreadAt
    <2> QED  BY <1>2, <1>5, <1>6, <1>10, <2>1 DEF IInv, QtThreadAt, Late
  <1>16. Published'
    BY <1>2, <1>10 DEF IInv, Published, Ended, Late
  <1> QED  BY <1>11, <1>12, <1>13, <1>14, <1>15, <1>16, ReceiverKept DEF IInv

LEMMA FatalTerminatesStep == IInv /\ FatalTerminates => IInv'
  <1> SUFFICES ASSUME IInv, FatalTerminates  PROVE IInv'
    OBVIOUS
  <1>1. /\ qpc = "terminate" /\ qpc' = "loop" /\ terminate' = TRUE /\ quit' = (quit \/ exec)
        /\ s' = [s EXCEPT !.fatal = FALSE] /\ UNCHANGED world
        /\ UNCHANGED <<elapsed, q, lost, exec, bringUp, failed>>
        /\ mpc' = mpc /\ initResult' = initResult /\ external' = external
    BY DEF FatalTerminates, appVars
  <1>2. /\ Whole(s)' /\ ReceiverTypes' /\ doc' \in DOMAIN Documents
        /\ s'.state = s.state /\ s'.started = s.started /\ s'.opened = s.opened
        /\ s'.incomplete = s.incomplete
    BY <1>1, SessionDisarmed
  <1>3. Queue'
    BY <1>1, <1>2 DEF IInv, Queue
  <1>4. Types'
    BY <1>1, <1>2 DEF IInv, Types, QtPlaces
  <1>5. QtThreadAt'
    BY <1>1, <1>2 DEF IInv, QtThreadAt, Late
  <1>6. Published'
    BY <1>1 DEF IInv, Published, Ended, Late
  <1> QED  BY <1>2, <1>3, <1>4, <1>5, <1>6 DEF IInv

LEMMA DisarmSlotStep == IInv /\ DisarmSlot => IInv'
  <1> SUFFICES ASSUME IInv, DisarmSlot  PROVE IInv'
    OBVIOUS
  <1>1. /\ qpc = "disarm" /\ qpc' = "notifyEnd"
        /\ s' = [s EXCEPT !.slot = FALSE] /\ UNCHANGED world
        /\ UNCHANGED <<elapsed, q, lost, exec, quit, bringUp, terminate, failed>>
        /\ mpc' = mpc /\ initResult' = initResult /\ external' = external
    BY DEF DisarmSlot, appVars
  <1>2. /\ Whole(s)' /\ ReceiverTypes' /\ doc' \in DOMAIN Documents
        /\ s'.state = s.state /\ s'.started = s.started /\ s'.opened = s.opened
        /\ s'.incomplete = s.incomplete
    BY <1>1, SessionDisarmed
  <1>3. Queue'
    BY <1>1, <1>2 DEF IInv, Queue
  <1>4. Types'
    BY <1>1, <1>2 DEF IInv, Types, QtPlaces
  <1>5. QtThreadAt'
    BY <1>1, <1>2 DEF IInv, QtThreadAt, Late
  <1>6. Published'
    BY <1>1 DEF IInv, Published, Ended, Late
  <1> QED  BY <1>2, <1>3, <1>4, <1>5, <1>6 DEF IInv

LEMMA ShutdownAppStep == IInv /\ ShutdownApp => IInv'
  <1> SUFFICES ASSUME IInv, ShutdownApp  PROVE IInv'
    OBVIOUS
  <1>1. /\ mpc = "shutdown" /\ mpc' = "join" /\ terminate' = TRUE
        /\ s' = [s EXCEPT !.slot = FALSE] /\ UNCHANGED world
        /\ UNCHANGED <<elapsed, q, lost, qpc, exec, quit, bringUp, failed>>
        /\ initResult' = initResult /\ external' = external
    BY DEF ShutdownApp
  <1>2. /\ Whole(s)' /\ ReceiverTypes' /\ doc' \in DOMAIN Documents
        /\ s'.state = s.state /\ s'.started = s.started /\ s'.opened = s.opened
        /\ s'.incomplete = s.incomplete
    BY <1>1, SessionDisarmed
  <1>3. Queue'
    BY <1>1, <1>2 DEF IInv, Queue
  <1>4. Types'
    BY <1>1, <1>2 DEF IInv, Types, AppPlaces
  <1>5. QtThreadAt'
    BY <1>1, <1>2 DEF IInv, QtThreadAt
  <1>6. Published'
    BY <1>1 DEF IInv, Published, Ended, Late
  <1> QED  BY <1>2, <1>3, <1>4, <1>5, <1>6 DEF IInv

(* The other steps of the Qt thread. *)
LEMMA OtherQtSteps ==
    ASSUME IInv,
           \/ SessionThrows \/ Exec \/ MarkFailed \/ NotifyFailed
           \/ ExecReturns \/ CollectVerdict \/ NotifyEnd \/ TerminateEnd
    PROVE  IInv'
  <1>1. CASE SessionThrows
    <2>1. Types'
      BY <1>1, SessionKept DEF SessionThrows, IInv, Types, sessionVars, world, appVars, QtPlaces, AppPlaces
    <2>2. QtThreadAt'
      BY <1>1 DEF SessionThrows, IInv, QtThreadAt, sessionVars, appVars, Late
    <2>3. Published'
      BY <1>1 DEF SessionThrows, IInv, Published, Ended, Late, sessionVars, appVars
    <2>4. UNCHANGED sessionVars /\ (bringUp' = "recording" => bringUp = "recording")
      BY <1>1 DEF SessionThrows
    <2> QED  BY <2>1, <2>2, <2>3, <2>4, ThreadsStep
  <1>2. CASE Exec
    <2>1. Types'
      BY <1>2, SessionKept DEF Exec, IInv, Types, sessionVars, world, appVars, QtPlaces, AppPlaces
    <2>2. QtThreadAt'
      BY <1>2 DEF Exec, IInv, QtThreadAt, sessionVars, appVars, Late
    <2>3. Published'
      BY <1>2 DEF Exec, IInv, Published, Ended, Late, sessionVars, appVars
    <2>4. UNCHANGED sessionVars /\ (bringUp' = "recording" => bringUp = "recording")
      BY <1>2 DEF Exec
    <2> QED  BY <2>1, <2>2, <2>3, <2>4, ThreadsStep
  <1>3. CASE MarkFailed
    <2>1. Types'
      BY <1>3, SessionKept DEF MarkFailed, IInv, Types, sessionVars, world, appVars, QtPlaces, AppPlaces
    <2>2. QtThreadAt'
      BY <1>3 DEF MarkFailed, IInv, QtThreadAt, sessionVars, appVars, Late
    <2>3. Published'
      BY <1>3 DEF MarkFailed, IInv, Published, Ended, Late, sessionVars, appVars
    <2>4. UNCHANGED sessionVars /\ (bringUp' = "recording" => bringUp = "recording")
      BY <1>3 DEF MarkFailed
    <2> QED  BY <2>1, <2>2, <2>3, <2>4, ThreadsStep
  <1>4. CASE NotifyFailed
    <2>1. Types'
      BY <1>4, SessionKept DEF NotifyFailed, IInv, Types, sessionVars, world, appVars, QtPlaces, AppPlaces
    <2>2. QtThreadAt'
      BY <1>4 DEF NotifyFailed, IInv, QtThreadAt, sessionVars, appVars, Late
    <2>3. Published'
      BY <1>4 DEF NotifyFailed, IInv, Published, Ended, Late, sessionVars, appVars
    <2>4. UNCHANGED sessionVars /\ (bringUp' = "recording" => bringUp = "recording")
      BY <1>4 DEF NotifyFailed
    <2> QED  BY <2>1, <2>2, <2>3, <2>4, ThreadsStep
  <1>5. CASE ExecReturns
    <2>1. Types'
      BY <1>5, SessionKept DEF ExecReturns, IInv, Types, sessionVars, world, appVars, QtPlaces, AppPlaces
    <2>2. QtThreadAt'
      BY <1>5 DEF ExecReturns, IInv, QtThreadAt, sessionVars, appVars, Late
    <2>3. Published'
      BY <1>5 DEF ExecReturns, IInv, QtThreadAt, Published, Ended, Late, sessionVars, appVars
    <2>4. UNCHANGED sessionVars /\ (bringUp' = "recording" => bringUp = "recording")
      BY <1>5 DEF ExecReturns
    <2> QED  BY <2>1, <2>2, <2>3, <2>4, ThreadsStep
  <1>6. CASE CollectVerdict
    <2>1. Types'
      BY <1>6, SessionKept DEF CollectVerdict, IInv, Types, sessionVars, world, appVars, QtPlaces, AppPlaces
    <2>2. QtThreadAt'
      BY <1>6 DEF CollectVerdict, IInv, QtThreadAt, sessionVars, appVars, Late
    <2>3. Published'
      BY <1>6 DEF CollectVerdict, IInv, Published, Ended, Late, sessionVars, appVars
    <2>4. UNCHANGED sessionVars /\ (bringUp' = "recording" => bringUp = "recording")
      BY <1>6 DEF CollectVerdict
    <2> QED  BY <2>1, <2>2, <2>3, <2>4, ThreadsStep
  <1>7. CASE NotifyEnd
    <2>1. Types'
      BY <1>7, SessionKept DEF NotifyEnd, IInv, Types, sessionVars, world, appVars, QtPlaces, AppPlaces
    <2>2. QtThreadAt'
      BY <1>7 DEF NotifyEnd, IInv, QtThreadAt, sessionVars, appVars, Late
    <2>3. Published'
      BY <1>7 DEF NotifyEnd, IInv, Published, Ended, Late, sessionVars, appVars
    <2>4. UNCHANGED sessionVars /\ (bringUp' = "recording" => bringUp = "recording")
      BY <1>7 DEF NotifyEnd
    <2> QED  BY <2>1, <2>2, <2>3, <2>4, ThreadsStep
  <1>8. CASE TerminateEnd
    <2>1. Types'
      BY <1>8, SessionKept DEF TerminateEnd, IInv, Types, sessionVars, world, appVars, QtPlaces, AppPlaces
    <2>2. QtThreadAt'
      BY <1>8 DEF TerminateEnd, IInv, QtThreadAt, sessionVars, appVars, Late
    <2>3. Published'
      BY <1>8 DEF TerminateEnd, IInv, Published, Ended, Late, sessionVars, appVars
    <2>4. UNCHANGED sessionVars /\ (bringUp' = "recording" => bringUp = "recording")
      BY <1>8 DEF TerminateEnd
    <2> QED  BY <2>1, <2>2, <2>3, <2>4, ThreadsStep
  <1> QED  BY <1>1, <1>2, <1>3, <1>4, <1>5, <1>6, <1>7, <1>8

(* The other steps of the coordinator. *)
LEMMA OtherCoordinatorSteps ==
    ASSUME IInv,
           \/ ConfigError \/ StartQtThread \/ BringUpSettled \/ BringUpInterrupted
           \/ InterruptBringUp \/ JoinInInit \/ RunReturns \/ JoinQtThread
           \/ StopRequested
    PROVE  IInv'
  <1>1. CASE ConfigError
    <2>1. Types'
      BY <1>1, SessionKept DEF ConfigError, IInv, Types, sessionVars, world, appVars, QtPlaces, AppPlaces
    <2>2. QtThreadAt'
      BY <1>1 DEF ConfigError, IInv, QtThreadAt, sessionVars, appVars, Late
    <2>3. Published'
      BY <1>1 DEF ConfigError, IInv, Published, Ended, Late, sessionVars, appVars
    <2>4. UNCHANGED sessionVars /\ (bringUp' = "recording" => bringUp = "recording")
      BY <1>1 DEF ConfigError
    <2> QED  BY <2>1, <2>2, <2>3, <2>4, ThreadsStep
  <1>2. CASE StartQtThread
    <2>1. Types'
      BY <1>2, SessionKept DEF StartQtThread, IInv, Types, sessionVars, world, appVars, QtPlaces, AppPlaces
    <2>2. QtThreadAt'
      BY <1>2 DEF StartQtThread, IInv, QtThreadAt, sessionVars, appVars, Late
    <2>3. Published'
      BY <1>2 DEF StartQtThread, IInv, Published, Ended, Late, sessionVars, appVars
    <2>4. UNCHANGED sessionVars /\ (bringUp' = "recording" => bringUp = "recording")
      BY <1>2 DEF StartQtThread
    <2> QED  BY <2>1, <2>2, <2>3, <2>4, ThreadsStep
  <1>3. CASE BringUpSettled
    <2>1. Types'
      BY <1>3, SessionKept DEF BringUpSettled, IInv, Types, sessionVars, world, appVars, QtPlaces, AppPlaces
    <2>2. QtThreadAt'
      BY <1>3 DEF BringUpSettled, IInv, QtThreadAt, sessionVars, appVars, Late
    <2>3. Published'
      BY <1>3 DEF BringUpSettled, IInv, Published, Ended, Late, sessionVars, appVars
    <2>4. UNCHANGED sessionVars /\ (bringUp' = "recording" => bringUp = "recording")
      BY <1>3 DEF BringUpSettled
    <2> QED  BY <2>1, <2>2, <2>3, <2>4, ThreadsStep
  <1>4. CASE BringUpInterrupted
    <2>1. Types'
      BY <1>4, SessionKept DEF BringUpInterrupted, IInv, Types, sessionVars, world, appVars, QtPlaces, AppPlaces
    <2>2. QtThreadAt'
      BY <1>4 DEF BringUpInterrupted, IInv, QtThreadAt, sessionVars, appVars, Late
    <2>3. Published'
      BY <1>4 DEF BringUpInterrupted, IInv, Published, Ended, Late, sessionVars, appVars
    <2>4. UNCHANGED sessionVars /\ (bringUp' = "recording" => bringUp = "recording")
      BY <1>4 DEF BringUpInterrupted
    <2> QED  BY <2>1, <2>2, <2>3, <2>4, ThreadsStep
  <1>5. CASE InterruptBringUp
    <2>1. Types'
      BY <1>5, SessionKept DEF InterruptBringUp, IInv, Types, sessionVars, world, appVars, QtPlaces, AppPlaces
    <2>2. QtThreadAt'
      BY <1>5 DEF InterruptBringUp, IInv, QtThreadAt, sessionVars, appVars, Late
    <2>3. Published'
      BY <1>5 DEF InterruptBringUp, IInv, Published, Ended, Late, sessionVars, appVars
    <2>4. UNCHANGED sessionVars /\ (bringUp' = "recording" => bringUp = "recording")
      BY <1>5 DEF InterruptBringUp
    <2> QED  BY <2>1, <2>2, <2>3, <2>4, ThreadsStep
  <1>6. CASE JoinInInit
    <2>1. Types'
      BY <1>6, SessionKept DEF JoinInInit, IInv, Types, sessionVars, world, appVars, QtPlaces, AppPlaces
    <2>2. QtThreadAt'
      BY <1>6 DEF JoinInInit, IInv, QtThreadAt, sessionVars, appVars, Late
    <2>3. Published'
      BY <1>6 DEF JoinInInit, IInv, Published, Ended, Late, sessionVars, appVars
    <2>4. UNCHANGED sessionVars /\ (bringUp' = "recording" => bringUp = "recording")
      BY <1>6 DEF JoinInInit
    <2> QED  BY <2>1, <2>2, <2>3, <2>4, ThreadsStep
  <1>7. CASE RunReturns
    <2>1. Types'
      BY <1>7, SessionKept DEF RunReturns, IInv, Types, sessionVars, world, appVars, QtPlaces, AppPlaces
    <2>2. QtThreadAt'
      BY <1>7 DEF RunReturns, IInv, QtThreadAt, sessionVars, appVars, Late
    <2>3. Published'
      BY <1>7 DEF RunReturns, IInv, Published, Ended, Late, sessionVars, appVars
    <2>4. UNCHANGED sessionVars /\ (bringUp' = "recording" => bringUp = "recording")
      BY <1>7 DEF RunReturns
    <2> QED  BY <2>1, <2>2, <2>3, <2>4, ThreadsStep
  <1>8. CASE JoinQtThread
    <2>1. Types'
      BY <1>8, SessionKept DEF JoinQtThread, IInv, Types, sessionVars, world, appVars, QtPlaces, AppPlaces
    <2>2. QtThreadAt'
      BY <1>8 DEF JoinQtThread, IInv, QtThreadAt, sessionVars, appVars, Late
    <2>3. Published'
      BY <1>8 DEF JoinQtThread, IInv, Published, Ended, Late, sessionVars, appVars
    <2>4. UNCHANGED sessionVars /\ (bringUp' = "recording" => bringUp = "recording")
      BY <1>8 DEF JoinQtThread
    <2> QED  BY <2>1, <2>2, <2>3, <2>4, ThreadsStep
  <1>9. CASE StopRequested
    <2>1. Types'
      BY <1>9, SessionKept DEF StopRequested, IInv, Types, sessionVars, world, appVars, QtPlaces, AppPlaces
    <2>2. QtThreadAt'
      BY <1>9 DEF StopRequested, IInv, QtThreadAt, sessionVars, appVars, Late
    <2>3. Published'
      BY <1>9 DEF StopRequested, IInv, Published, Ended, Late, sessionVars, appVars
    <2>4. UNCHANGED sessionVars /\ (bringUp' = "recording" => bringUp = "recording")
      BY <1>9 DEF StopRequested
    <2> QED  BY <2>1, <2>2, <2>3, <2>4, ThreadsStep
  <1> QED  BY <1>1, <1>2, <1>3, <1>4, <1>5, <1>6, <1>7, <1>8, <1>9

----------------------------------------------------------------------------
(* The theorems. *)

LEMMA InitIInv == Init => IInv
  <1> SUFFICES ASSUME Init  PROVE IInv
    OBVIOUS
  <1>1. s = NewSession /\ doc \in DOMAIN Documents
    BY DEF Init
  <1>2. s \in SessionType
    BY <1>1 DEF NewSession, SessionType, States, Links
  <1>3. /\ s.state = "idle" /\ ~s.everConfigured /\ s.timers = {} /\ ~s.started
        /\ ~s.incomplete /\ s.rx = "none" /\ ~s.slot /\ s.windows = 0 /\ s.opened = 0
        /\ ~s.fatal /\ ~s.nested
    BY <1>1 DEF NewSession
  <1>4. Whole(s)
    BY <1>2, <1>3 DEF Whole, Sound, Settled, Announced, Fresh, Counted, Deadline, Recovering
  <1>5. PICK r \in Receivers :
           rcv = [boot |-> r.boot, lines |-> r.lines, bent |-> {}, aux1 |-> r.aux1,
                  antennas |-> r.antennas, reset |-> FALSE]
    BY DEF Init
  <1>6. ReceiverTypes
    BY <1>5, FS_EmptySet, UpTimesAssumption DEF ReceiverTypes
  <1>7. /\ elapsed = FALSE /\ q = [failed |-> FALSE, closed |-> FALSE, event |-> FALSE]
        /\ qpc = "none" /\ exec = FALSE /\ quit = FALSE
        /\ mpc = "init" /\ initResult = "none" /\ external = FALSE
        /\ bringUp = "pending" /\ terminate = FALSE /\ failed = FALSE /\ lost = FALSE
    BY DEF Init
  <1>8. Types
    BY <1>1, <1>7 DEF Types, QtPlaces, AppPlaces
  <1>9. Queue /\ QtThreadAt /\ Published
    BY <1>3, <1>7 DEF Queue, QtThreadAt, Published, Ended, Late
  <1> QED  BY <1>4, <1>6, <1>8, <1>9 DEF IInv

LEMMA NextIInv == IInv /\ [Next]_vars => IInv'
  <1> SUFFICES ASSUME IInv, [Next]_vars  PROVE IInv'
    OBVIOUS
  <1>1. CASE Receiver
    BY <1>1, ConnectedStep, NewConnectionDescriptorStep, CommandRejectedStep, ListingHeaderStep,
       NewCommandReplyStep, NewPromptStep, NewSbfBlockStep, SbfBlockRefusedStep,
       StreamDamageStep, LinkFailureStep DEF Receiver
  <1>2. CASE Deadlines
    BY <1>2, ConnectTimeoutStep, CommandTimeoutStep, WatchdogStep, RetryTimeoutStep,
       RecoveryTimeoutStep, WarmupLogStep DEF Deadlines
  <1>3. CASE QtThread
    BY <1>3, StartSessionStep, FatalTerminatesStep, DisarmSlotStep, OtherQtSteps DEF QtThread
  <1>4. CASE Coordinator
    BY <1>4, ShutdownAppStep, OtherCoordinatorSteps DEF Coordinator
  <1>5. CASE WriteFailedEvent \/ StopPoll \/ WriterFails \/ DurationReached \/ StopRequested
    BY <1>5, WriteFailedEventStep, StopPollStep, WriterFailsStep, DurationReachedStep,
       OtherCoordinatorSteps
  <1>6. CASE UNCHANGED vars \/ Done
    <2>1. UNCHANGED sessionVars /\ UNCHANGED <<qpc, exec, quit, bringUp, terminate, failed>>
          /\ mpc' = mpc /\ initResult' = initResult /\ external' = external
      BY <1>6 DEF Done, vars, sessionVars, appVars
    <2>2. Types' /\ QtThreadAt' /\ Published'
      BY <2>1, SessionKept DEF IInv, Types, QtThreadAt, Published, Ended, sessionVars, world
    <2> QED  BY <2>1, <2>2, ThreadsStep
  <1> QED  BY <1>1, <1>2, <1>3, <1>4, <1>5, <1>6 DEF Next

(* The inductive invariant implies the properties. *)
LEMMA IInvSession == IInv => SessionInv
  <1> SUFFICES ASSUME IInv  PROVE SessionInv
    OBVIOUS
  <1>1. s \in SessionType
    BY DEF IInv, Whole, Sound
  <1>2. TypeOK
    <2>1. /\ s.state \in States /\ s.timers \subseteq Timers /\ s.rx \in Links
          /\ s.descriptor \in Descriptors \cup {NoDescriptor} /\ s.cmd \in Nat
          /\ s.up \in UpTimes \cup {0} /\ s.windows \in Nat /\ s.opened \in Nat
      BY <1>1 DEF SessionType
    <2>2. {s.everConfigured, s.lst, s.started, s.fine, s.incomplete, s.slot, s.fatal,
           s.nested} \subseteq BOOLEAN
      BY <1>1 DEF SessionType
    <2>3. /\ doc \in DOMAIN Documents /\ Cardinality(rcv.bent) <= MaxBent
          /\ q \in [failed : BOOLEAN, closed : BOOLEAN, event : BOOLEAN]
          /\ qpc \in QtPlaces /\ mpc \in AppPlaces
          /\ initResult \in {"none", "ready", "failed", "interrupted"}
          /\ bringUp \in {"pending", "recording", "failed"}
      BY DEF IInv, Types, ReceiverTypes
    <2>4. {elapsed, exec, quit, terminate, failed, external, lost} \subseteq BOOLEAN
      BY DEF IInv, Types
    <2> QED  BY <2>1, <2>2, <2>3, <2>4 DEF TypeOK, Links, QtPlaces, AppPlaces
  <1>3. FailureNotReentered /\ ReadyOnce
    BY DEF IInv, Whole, Sound, Settled, Announced, Queue, FailureNotReentered, ReadyOnce
  <1>4. SlotArmedWhileRecording
    <2>1. s.slot => s.state = "recording"
      BY DEF IInv, Whole, Sound, Settled
    <2>2. mpc = "done" \/ qpc = "done" => s.state # "recording"
      BY DEF IInv, QtThreadAt, Late
    <2> QED  BY <2>1, <2>2 DEF SlotArmedWhileRecording
  <1>5. AlwaysADeadline /\ OneRecoveryWindow
    BY DEF IInv, Whole, Sound, Deadline, Recovering, Counted, AlwaysADeadline, OneRecoveryWindow
  <1> QED  BY <1>2, <1>3, <1>4, <1>5 DEF SessionInv

LEMMA IInvOutcome == IInv => OutcomeIsHonest
  <1> SUFFICES ASSUME IInv  PROVE OutcomeIsHonest
    OBVIOUS
  <1>1. NoSilentDeath
    BY DEF NoSilentDeath, IInv, Published, Ended, Late
  <1>2. InterruptionIsExternal
    BY DEF InterruptionIsExternal, IInv, Published
  <1>3. LossFailsTheDriver
    <2> SUFFICES ASSUME mpc = "done", lost  PROVE failed
      BY DEF LossFailsTheDriver
    <2>1. qpc = "done"
      BY DEF IInv, QtThreadAt
    <2>2. s.state = "stopping"
      BY <2>1 DEF IInv, QtThreadAt, Late
    <2>3. s.incomplete
      BY <2>2 DEF IInv, Queue
    <2> QED  BY <2>1, <2>3 DEF IInv, QtThreadAt, Late
  <1> QED  BY <1>1, <1>2, <1>3 DEF OutcomeIsHonest

(* For every configuration file, receiver and bound: between any two handlers
   of the Session no failure has run twice, readiness has been announced at
   most once and over a recording that had begun, every wait has its deadline
   and recovery only one window, and the no-data slot is armed only while the
   Session records, whatever the coordinator and the Qt thread do meanwhile
   (Session, AsterxDriverApp). *)
THEOREM SessionCorrect == Spec => []SessionInv
  <1>1. Init => IInv
    BY InitIInv
  <1>2. IInv /\ [Next]_vars => IInv'
    BY NextIInv
  <1>3. IInv => SessionInv
    BY IInvSession
  <1> QED  BY <1>1, <1>2, <1>3, PTL DEF Spec

(* What the coordinator learns of the driver is what happened: a death of its
   own is a failure, a failed start is no interruption, and known loss fails
   the driver before it is joined, although bring_up_, failed_ and terminate_
   are published one after the other (QtThreadMain, Init, Shutdown). *)
THEOREM OutcomeCorrect == Spec => []OutcomeIsHonest
  <1>1. Init => IInv
    BY InitIInv
  <1>2. IInv /\ [Next]_vars => IInv'
    BY NextIInv
  <1>3. IInv => OutcomeIsHonest
    BY IInvOutcome
  <1> QED  BY <1>1, <1>2, <1>3, PTL DEF Spec

----------------------------------------------------------------------------
(* What BuildCommandList returns. *)

IsList(c) == c \in Seq({c[i] : i \in DOMAIN c})

Sets(c, i) == c[i].verb = "set"

(* Every setting is followed by the question whether it was taken; what is not
   compared cannot be. *)
Paired(c) ==
    \A i \in DOMAIN c : Sets(c, i) =>
        /\ i + 1 \in DOMAIN c /\ c[i].kind = "plain"
        /\ c[i + 1].kind = "echo" /\ c[i + 1].verb = "get"
        /\ c[i + 1].name = c[i].name /\ c[i + 1].target = c[i].target
        /\ \A f \in c[i].fields \ c[i + 1].fields : <<c[i].name, f>> \in UncheckedArguments

(* No setting is made twice, but for the modes of a port. *)
Distinct(c) ==
    \A i, k \in DOMAIN c :
        Sets(c, i) /\ Sets(c, k) /\ c[i].name = c[k].name /\ c[i].target = c[k].target
            => i = k \/ c[i].name = "DataInOut"

Within(c, names) == \A i \in DOMAIN c : c[i].name \in names

(* Part of a list of commands, about the names of `names`. *)
Part(c, names) == IsList(c) /\ Paired(c) /\ Distinct(c) /\ Within(c, names)

(* The whole list, for the antennas a. *)
Listed(c, a) ==
    /\ IsList(c) /\ Len(c) >= 3 /\ Paired(c) /\ Distinct(c)
    /\ c[1].kind = "plain"
    /\ c[2].verb = "exe" /\ c[2].name = "CopyConfigFile" /\ c[2].kind = "plain"
    /\ c[3].kind = "capabilities"
    /\ \A i \in DOMAIN c : i > 2 => c[i].name \notin {"login", "CopyConfigFile"}
    /\ \A i \in DOMAIN c : Sets(c, i) => i > 3
    /\ \E k \in DOMAIN c : k > 2 /\ c[k].kind = "listing"
    /\ \/ a.main_type.text = "Unknown" /\ a.aux_type.text = "Unknown"
       \/ \E k \in DOMAIN c : k > 2 /\ c[k].kind = "antennas"

----------------------------------------------------------------------------
(* What the commands before the n-th have made of the receiver r, once its
   configuration has been reset by the second. *)

Carried(r, c, n) ==
    \A i \in 1 .. n - 1 : Sets(c, i) => Line(c[i].name, c[i].target) \in r.lines

(* An argument taken otherwise is one of a setting of this connection, and
   the question about it, once answered, did not name it. *)
BentKnown(r, c, n) ==
    \A x \in r.bent : \E i \in 1 .. n - 1 :
        /\ Sets(c, i) /\ x.name = c[i].name /\ x.target = c[i].target
        /\ x.field \in c[i].fields
        /\ i + 1 < n => x.field \notin c[i + 1].fields

Asked(c, n, kind) == \E k \in 1 .. n - 1 : k > 2 /\ c[k].kind = kind

(* Every line is explained, and once the receiver has listed them a line that
   it boots with has a name that the driver uses. *)
LinesKnown(r, c, n) ==
    \A l \in r.lines :
        \/ l.permanent \/ l.name = "UserAccessLevel"
        \/ \E i \in 1 .. n - 1 : Sets(c, i) /\ l = Line(c[i].name, c[i].target)
        \/ l \in r.boot /\ (Asked(c, n, "listing") => l.name \in DriverCommandWhitelist(c))

AntennasKnown(r, c, a, n) ==
    /\ n > 3 => r.aux1
    /\ Asked(c, n, "antennas") => VerifyAntennaTypes(r.antennas, a)

Achieved(r, c, a, n) ==
    n > 2 => /\ ~r.reset
             /\ Carried(r, c, n) /\ BentKnown(r, c, n) /\ LinesKnown(r, c, n)
             /\ AntennasKnown(r, c, a, n)

ReceiverFields == {"boot", "lines", "bent", "aux1", "antennas", "reset"}

Negotiated ==
    s.state = "configuring" =>
        /\ s.cmd \in 1 .. Len(Commands)
        /\ s.lst => Commands[s.cmd].kind \in ListKinds
        /\ Listed(Commands, TheSettings.antenna)
        /\ Achieved(rcv, Commands, TheSettings.antenna, s.cmd)

RecordsProven ==
    s.state \in {"warmingUp", "recording"} => IF rcv.reset THEN s.incomplete ELSE Proven

ListBuilt == s.cmd = 0 /\ DescriptorOk(s.descriptor) => s.descriptor.len > Placeholder.len

(* Between any two steps of the driver. *)
ConfigIInv ==
    /\ DOMAIN rcv = ReceiverFields
    /\ qpc # "none" => Loaded
    /\ Negotiated /\ RecordsProven /\ ListBuilt
(* Every nonempty set of naturals has a least element. *)
LEMMA Least ==
    ASSUME NEW T, T \subseteq Nat, T # {}
    PROVE  \E x \in T : \A y \in T : x <= y
  <1> DEFINE U == {1 .. n : n \in T}
  <1>1. U \subseteq FiniteSubsetsOf(Nat)
    <2>1. ASSUME NEW n \in Nat PROVE IsFiniteSet(1 .. n) /\ 1 .. n \in SUBSET Nat
      BY FS_Interval
    <2> QED BY <2>1 DEF FiniteSubsetsOf
  <1>2. U # {}
    OBVIOUS
  <1> HIDE DEF U
  <1>3. \E x \in U : \A y \in U : ~ (<<y, x>> \in StrictSubsetOrdering(Nat))
    BY FS_StrictSubsetOrderingWellFounded, WFMin, <1>1, <1>2, Zenon
  <1>4. PICK n \in T : \A m \in T : ~ (<<1 .. m, 1 .. n>> \in StrictSubsetOrdering(Nat))
    BY <1>3 DEF U
  <1>5. ASSUME NEW m \in T, m < n PROVE <<1 .. m, 1 .. n>> \in StrictSubsetOrdering(Nat)
    <2>1. /\ 1 .. m \subseteq 1 .. n /\ n \in 1 .. n /\ n \notin 1 .. m
          /\ 1 .. m \in SUBSET Nat /\ 1 .. n \in SUBSET Nat
      BY <1>5
    <2> QED BY <2>1, Zenon DEF StrictSubsetOrdering
  <1>6. \A m \in T : ~ (m < n)
    BY <1>4, <1>5, Zenon
  <1>7. n \in Nat /\ \A m \in T : m \in Nat
    OBVIOUS
  <1> HIDE DEF U
  <1>8. \A m \in T : n <= m
    BY <1>6, <1>7
  <1> QED BY <1>8
  
(* Induction, with a set for the property. *)
LEMMA Induct ==
    ASSUME NEW S, 0 \in S, \A n \in Nat : n \in S => n + 1 \in S
    PROVE  Nat \subseteq S
  <1> DEFINE T == {n \in Nat : n \notin S}
  <1>1. SUFFICES ASSUME T # {} PROVE FALSE
    OBVIOUS
  <1>2. PICK x \in T : \A y \in T : x <= y
    BY <1>1, Least
  <1>3. x # 0 /\ x - 1 \in Nat /\ x - 1 \notin T
    BY <1>2
  <1> QED BY <1>2, <1>3
----------------------------------------------------------------------------
(* Parts of a list of commands. *)

LEMMA ListIn == ASSUME NEW S, NEW c \in Seq(S) PROVE IsList(c)
  <1>1. c \in [1 .. Len(c) -> S] /\ DOMAIN c = 1 .. Len(c) /\ Len(c) \in Nat
    OBVIOUS
  <1>2. c \in [1 .. Len(c) -> {c[i] : i \in DOMAIN c}]
    BY <1>1
  <1> QED  BY <1>1, <1>2, SeqDef DEF IsList

LEMMA ListConcat ==
    ASSUME NEW a, NEW b, IsList(a), IsList(b)
    PROVE  LET c == a \o b
               n == Len(a)
           IN  /\ IsList(c) /\ n \in Nat /\ Len(b) \in Nat /\ Len(c) = n + Len(b)
               /\ DOMAIN a = 1 .. n /\ DOMAIN b = 1 .. Len(b) /\ DOMAIN c = 1 .. n + Len(b)
               /\ \A i \in DOMAIN c : c[i] = IF i <= n THEN a[i] ELSE b[i - n]
  <1> DEFINE A == {a[i] : i \in DOMAIN a}
             B == {b[i] : i \in DOMAIN b}
             S == A \cup B
  <1>1. a \in Seq(A) /\ b \in Seq(B)
    BY DEF IsList
  <1> HIDE DEF A, B
  <1>2. a \in Seq(S) /\ b \in Seq(S)
    BY <1>1
  <1> HIDE DEF S
  <1>3. a \o b \in Seq(S)
    BY <1>2
  <1>4. IsList(a \o b)
    BY <1>3, ListIn
  <1> QED  BY <1>2, <1>3, <1>4, ConcatProperties

LEMMA FirstStays ==
    ASSUME NEW a, NEW b, IsList(a), IsList(b), NEW i \in DOMAIN a
    PROVE  i \in DOMAIN (a \o b) /\ (a \o b)[i] = a[i]
  BY ListConcat

LEMMA FromEither ==
    ASSUME NEW a, NEW b, IsList(a), IsList(b), NEW i \in DOMAIN (a \o b)
    PROVE  \/ \E k \in DOMAIN a : (a \o b)[i] = a[k]
           \/ \E k \in DOMAIN b : (a \o b)[i] = b[k]
  <1>1. \/ i \in DOMAIN a /\ (a \o b)[i] = a[i]
        \/ i - Len(a) \in DOMAIN b /\ (a \o b)[i] = b[i - Len(a)]
    BY ListConcat
  <1> QED  BY <1>1

LEMMA PartConcat ==
    ASSUME NEW A, NEW B, NEW a, NEW b, Part(a, A), Part(b, B),
           \A i \in DOMAIN a, k \in DOMAIN b :
              Sets(a, i) /\ Sets(b, k) /\ a[i].name = b[k].name /\ a[i].target = b[k].target
                 => a[i].name = "DataInOut"
    PROVE  Part(a \o b, A \cup B)
  <1> DEFINE c == a \o b
             n == Len(a)
  <1>1. /\ IsList(a) /\ IsList(b)
        /\ Paired(a) /\ Paired(b) /\ Distinct(a) /\ Distinct(b) /\ Within(a, A) /\ Within(b, B)
    BY DEF Part
  <1>2. /\ IsList(c) /\ Len(c) = n + Len(b) /\ n \in Nat /\ Len(b) \in Nat
        /\ DOMAIN a = 1 .. n /\ DOMAIN b = 1 .. Len(b) /\ DOMAIN c = 1 .. n + Len(b)
    BY <1>1, ListConcat
  <1>3. \A i \in DOMAIN c : c[i] = IF i <= n THEN a[i] ELSE b[i - n]
    BY <1>1, ListConcat
  <1> HIDE DEF c, n
  <1>4. \A i \in DOMAIN c : \/ i \in DOMAIN a /\ c[i] = a[i]
                            \/ i - n \in DOMAIN b /\ c[i] = b[i - n] /\ i > n
    BY <1>2, <1>3
  <1>5. \A i \in DOMAIN a : i \in DOMAIN c /\ c[i] = a[i]
    BY <1>2, <1>3
  <1>6. \A k \in DOMAIN b : k + n \in DOMAIN c /\ c[k + n] = b[k]
    BY <1>2, <1>3
  <1>7. Within(c, A \cup B)
    BY <1>1, <1>4 DEF Within
  <1>8. Paired(c)
    <2> SUFFICES ASSUME NEW i \in DOMAIN c, Sets(c, i)
                 PROVE  /\ i + 1 \in DOMAIN c /\ c[i].kind = "plain"
                        /\ c[i + 1].kind = "echo" /\ c[i + 1].verb = "get"
                        /\ c[i + 1].name = c[i].name /\ c[i + 1].target = c[i].target
                        /\ \A f \in c[i].fields \ c[i + 1].fields :
                              <<c[i].name, f>> \in UncheckedArguments
      BY DEF Paired
    <2>1. CASE i \in DOMAIN a /\ c[i] = a[i]
      <3>1. i + 1 \in DOMAIN a /\ c[i + 1] = a[i + 1] /\ i + 1 \in DOMAIN c
        BY <1>1, <1>5, <2>1 DEF Paired, Sets
      <3> QED  BY <1>1, <2>1, <3>1 DEF Paired, Sets
    <2>2. CASE i - n \in DOMAIN b /\ c[i] = b[i - n]
      <3>1. (i - n) + 1 \in DOMAIN b /\ i \in Int
        BY <1>1, <1>2, <2>2 DEF Paired, Sets
      <3>2. ((i - n) + 1) + n = i + 1
        BY <1>2, <3>1
      <3>3. c[i + 1] = b[(i - n) + 1] /\ i + 1 \in DOMAIN c
        BY <1>6, <3>1, <3>2
      <3> QED  BY <1>1, <2>2, <3>1, <3>3 DEF Paired, Sets
    <2> QED  BY <1>4, <2>1, <2>2
  <1>9. Distinct(c)
    <2> SUFFICES ASSUME NEW i \in DOMAIN c, NEW k \in DOMAIN c, Sets(c, i), Sets(c, k),
                        c[i].name = c[k].name, c[i].target = c[k].target
                 PROVE  i = k \/ c[i].name = "DataInOut"
      BY DEF Distinct
    <2>1. CASE i \in DOMAIN a /\ c[i] = a[i] /\ k \in DOMAIN a /\ c[k] = a[k]
      BY <1>1, <2>1 DEF Distinct, Sets
    <2>2. CASE i \in DOMAIN a /\ c[i] = a[i] /\ k - n \in DOMAIN b /\ c[k] = b[k - n]
      BY <2>2 DEF Sets
    <2>3. CASE i - n \in DOMAIN b /\ c[i] = b[i - n] /\ k \in DOMAIN a /\ c[k] = a[k]
      BY <2>3 DEF Sets
    <2>4. CASE i - n \in DOMAIN b /\ c[i] = b[i - n] /\ k - n \in DOMAIN b /\ c[k] = b[k - n]
      <3>1. i - n = k - n \/ c[i].name = "DataInOut"
        BY <1>1, <2>4 DEF Distinct, Sets
      <3>2. i \in Int /\ k \in Int
        BY <1>2
      <3> QED  BY <1>2, <3>1, <3>2
    <2> QED  BY <1>4, <2>1, <2>2, <2>3, <2>4
  <1> QED  BY <1>2, <1>7, <1>8, <1>9 DEF Part, c

LEMMA PartJoin ==
    ASSUME NEW A, NEW B, NEW a, NEW b, Part(a, A), Part(b, B), A \cap B \subseteq {"DataInOut"}
    PROVE  Part(a \o b, A \cup B)
  <1>1. ASSUME NEW i \in DOMAIN a, NEW k \in DOMAIN b, a[i].name = b[k].name
        PROVE  a[i].name = "DataInOut"
    <2>1. a[i].name \in A /\ b[k].name \in B
      BY DEF Part, Within
    <2> QED  BY <1>1, <2>1
  <1> QED  BY <1>1, PartConcat

LEMMA PartWider ==
    ASSUME NEW A, NEW B, NEW a, Part(a, A), A \subseteq B
    PROVE  Part(a, B)
  BY DEF Part, Within

LEMMA EmptyPart == Part(<< >>, {})
  <1>1. << >> \in Seq({})
    OBVIOUS
  <1>2. IsList(<< >>)
    BY <1>1, ListIn
  <1>3. DOMAIN << >> = {}
    OBVIOUS
  <1> QED  BY <1>2, <1>3 DEF Part, Paired, Distinct, Within

(* A single command that is no setting. *)
LEMMA AskPart ==
    ASSUME NEW kind, NEW verb, verb # "set", NEW name, NEW target
    PROVE  LET c == <<Command(kind, verb, name, target, {})>>
           IN  Part(c, {name}) /\ DOMAIN c = {1} /\ c[1].kind = kind
  <1> DEFINE m == Command(kind, verb, name, target, {})
             c == <<m>>
  <1>1. m.verb = verb /\ m.name = name /\ m.kind = kind
    BY DEF Command
  <1> HIDE DEF m
  <1>2. IsList(c) /\ DOMAIN c = {1} /\ c[1] = m
    <2>1. c \in Seq({m})
      OBVIOUS
    <2>2. IsList(c)
      BY <2>1, ListIn
    <2>3. DOMAIN c = {1} /\ c[1] = m
      OBVIOUS
    <2> QED  BY <2>2, <2>3
  <1> HIDE DEF c
  <1> QED  BY <1>1, <1>2 DEF Part, Paired, Distinct, Within, Sets, c, m

(* A setting and the question about it. *)
LEMMA PairPart ==
    ASSUME NEW name, NEW target, NEW arguments, NEW compared,
           \A f \in arguments \ compared : <<name, f>> \in UncheckedArguments
    PROVE  LET c == SetAndEcho(name, target, arguments, compared)
           IN  Part(c, {name}) /\ \A i \in DOMAIN c : c[i].target = target
  <1> DEFINE u == Command("plain", "set", name, target, arguments)
             v == Command("echo", "get", name, target, compared)
             c == <<u, v>>
  <1>1. /\ u.verb = "set" /\ u.name = name /\ u.kind = "plain"
        /\ u.target = target /\ u.fields = arguments
        /\ v.verb = "get" /\ v.name = name /\ v.kind = "echo"
        /\ v.target = target /\ v.fields = compared
    BY DEF Command
  <1> HIDE DEF u, v
  <1>2. IsList(c) /\ DOMAIN c = {1, 2} /\ c[1] = u /\ c[2] = v
    <2>1. c \in Seq({u, v})
      OBVIOUS
    <2>2. IsList(c)
      BY <2>1, ListIn
    <2>3. DOMAIN c = {1, 2} /\ c[1] = u /\ c[2] = v
      OBVIOUS
    <2> QED  BY <2>2, <2>3
  <1> HIDE DEF c
  <1>3. Paired(c)
    <2> SUFFICES ASSUME NEW i \in DOMAIN c, Sets(c, i)
                 PROVE  /\ i + 1 \in DOMAIN c /\ c[i].kind = "plain"
                        /\ c[i + 1].kind = "echo" /\ c[i + 1].verb = "get"
                        /\ c[i + 1].name = c[i].name /\ c[i + 1].target = c[i].target
                        /\ \A f \in c[i].fields \ c[i + 1].fields :
                              <<c[i].name, f>> \in UncheckedArguments
      BY DEF Paired
    <2>1. i = 1 /\ 1 + 1 = 2
      BY <1>1, <1>2 DEF Sets
    <2> QED  BY <1>1, <1>2, <2>1
  <1>4. Distinct(c) /\ Within(c, {name}) /\ \A i \in DOMAIN c : c[i].target = target
    BY <1>1, <1>2 DEF Distinct, Within, Sets
  <1>5. c = SetAndEcho(name, target, arguments, compared)
    BY DEF c, u, v, SetAndEcho
  <1> HIDE DEF c
  <1> QED  BY <1>2, <1>3, <1>4, <1>5 DEF Part

LEMMA SimplePart == ASSUME NEW name PROVE Part(Simple(name), {name})
  BY PairPart DEF Simple

LEMMA TimePart == ASSUME NEW ts PROVE Part(TimeCommands(ts), {"PPSParameters", "NTPServer", "PTPServer"})
  <1> DEFINE P1 == SetAndEcho("PPSParameters", "", 1 .. 6, 1 .. 6)
             P2 == Simple("NTPServer")
             P3 == Simple("PTPServer")
  <1>1. Part(P1, {"PPSParameters"})
    BY PairPart DEF UncheckedArguments
  <1>2. Part(P2, {"NTPServer"})
    BY SimplePart
  <1>3. Part(P3, {"PTPServer"})
    BY SimplePart
  <1> HIDE DEF P1, P2, P3
  <1>4. Part(P1 \o P2,
             {"PPSParameters", "NTPServer"})
    <2>1. /\ {"PPSParameters"} \cap {"NTPServer"} = {}
          /\ {"PPSParameters"} \cup {"NTPServer"}
              = {"PPSParameters", "NTPServer"}
      OBVIOUS
    <2> QED  BY <1>1, <1>2, <2>1, PartJoin
  <1>5. Part(P1 \o P2 \o P3,
             {"PPSParameters", "NTPServer", "PTPServer"})
    <2>1. /\ {"PPSParameters", "NTPServer"} \cap {"PTPServer"} = {}
          /\ {"PPSParameters", "NTPServer"} \cup {"PTPServer"}
              = {"PPSParameters", "NTPServer", "PTPServer"}
      OBVIOUS
    <2> QED  BY <1>4, <1>3, <2>1, PartJoin
  <1> QED  BY <1>5 DEF TimeCommands, P1, P2, P3

LEMMA GnssPart ==
    ASSUME NEW g
    PROVE  Part(GnssCommands(g),
                {"CN0Mask", "ElevationMask", "SatelliteTracking", "SatelliteUsage",
                 "SatelliteHealthOverride", "SignalTracking", "SignalUsage"})
  <1> DEFINE P1 == SetAndEcho("CN0Mask", "", {1, 2}, {2})
             P2 == SetAndEcho("ElevationMask", "", {1, 2}, {2})
             P3 == SetAndEcho("SatelliteTracking", "", {1}, IF g.satellite_tracking = {<<"none">>} THEN {1} ELSE {})
             P4 == SetAndEcho("SatelliteUsage", "", {1}, IF g.satellite_usage = {<<"none">>} THEN {1} ELSE {})
             P5 == SetAndEcho("SatelliteHealthOverride", "", {1, 2}, IF g.satellite_health_override = {<<"none">>} THEN {1, 2} ELSE {})
             P6 == SetAndEcho("SignalTracking", "", {1}, {})
             P7 == SetAndEcho("SignalUsage", "", {1, 2}, {})
  <1>1. Part(P1, {"CN0Mask"})
    BY PairPart DEF UncheckedArguments
  <1>2. Part(P2, {"ElevationMask"})
    BY PairPart DEF UncheckedArguments
  <1>3. Part(P3, {"SatelliteTracking"})
    BY PairPart DEF UncheckedArguments
  <1>4. Part(P4, {"SatelliteUsage"})
    BY PairPart DEF UncheckedArguments
  <1>5. Part(P5, {"SatelliteHealthOverride"})
    BY PairPart DEF UncheckedArguments
  <1>6. Part(P6, {"SignalTracking"})
    BY PairPart DEF UncheckedArguments
  <1>7. Part(P7, {"SignalUsage"})
    BY PairPart DEF UncheckedArguments
  <1> HIDE DEF P1, P2, P3, P4, P5, P6, P7
  <1>8. Part(P1 \o P2,
             {"CN0Mask", "ElevationMask"})
    <2>1. /\ {"CN0Mask"} \cap {"ElevationMask"} = {}
          /\ {"CN0Mask"} \cup {"ElevationMask"}
              = {"CN0Mask", "ElevationMask"}
      OBVIOUS
    <2> QED  BY <1>1, <1>2, <2>1, PartJoin
  <1>9. Part(P1 \o P2 \o P3,
             {"CN0Mask", "ElevationMask", "SatelliteTracking"})
    <2>1. /\ {"CN0Mask", "ElevationMask"} \cap {"SatelliteTracking"} = {}
          /\ {"CN0Mask", "ElevationMask"} \cup {"SatelliteTracking"}
              = {"CN0Mask", "ElevationMask", "SatelliteTracking"}
      OBVIOUS
    <2> QED  BY <1>8, <1>3, <2>1, PartJoin
  <1>10. Part(P1 \o P2 \o P3 \o P4,
             {"CN0Mask", "ElevationMask", "SatelliteTracking", "SatelliteUsage"})
    <2>1. /\ {"CN0Mask", "ElevationMask", "SatelliteTracking"} \cap {"SatelliteUsage"} = {}
          /\ {"CN0Mask", "ElevationMask", "SatelliteTracking"} \cup {"SatelliteUsage"}
              = {"CN0Mask", "ElevationMask", "SatelliteTracking", "SatelliteUsage"}
      OBVIOUS
    <2> QED  BY <1>9, <1>4, <2>1, PartJoin
  <1>11. Part(P1 \o P2 \o P3 \o P4 \o P5,
             {"CN0Mask", "ElevationMask", "SatelliteTracking", "SatelliteUsage", "SatelliteHealthOverride"})
    <2>1. /\ {"CN0Mask", "ElevationMask", "SatelliteTracking", "SatelliteUsage"} \cap {"SatelliteHealthOverride"} = {}
          /\ {"CN0Mask", "ElevationMask", "SatelliteTracking", "SatelliteUsage"} \cup {"SatelliteHealthOverride"}
              = {"CN0Mask", "ElevationMask", "SatelliteTracking", "SatelliteUsage", "SatelliteHealthOverride"}
      OBVIOUS
    <2> QED  BY <1>10, <1>5, <2>1, PartJoin
  <1>12. Part(P1 \o P2 \o P3 \o P4 \o P5 \o P6,
             {"CN0Mask", "ElevationMask", "SatelliteTracking", "SatelliteUsage", "SatelliteHealthOverride", "SignalTracking"})
    <2>1. /\ {"CN0Mask", "ElevationMask", "SatelliteTracking", "SatelliteUsage", "SatelliteHealthOverride"} \cap {"SignalTracking"} = {}
          /\ {"CN0Mask", "ElevationMask", "SatelliteTracking", "SatelliteUsage", "SatelliteHealthOverride"} \cup {"SignalTracking"}
              = {"CN0Mask", "ElevationMask", "SatelliteTracking", "SatelliteUsage", "SatelliteHealthOverride", "SignalTracking"}
      OBVIOUS
    <2> QED  BY <1>11, <1>6, <2>1, PartJoin
  <1>13. Part(P1 \o P2 \o P3 \o P4 \o P5 \o P6 \o P7,
             {"CN0Mask", "ElevationMask", "SatelliteTracking", "SatelliteUsage", "SatelliteHealthOverride", "SignalTracking", "SignalUsage"})
    <2>1. /\ {"CN0Mask", "ElevationMask", "SatelliteTracking", "SatelliteUsage", "SatelliteHealthOverride", "SignalTracking"} \cap {"SignalUsage"} = {}
          /\ {"CN0Mask", "ElevationMask", "SatelliteTracking", "SatelliteUsage", "SatelliteHealthOverride", "SignalTracking"} \cup {"SignalUsage"}
              = {"CN0Mask", "ElevationMask", "SatelliteTracking", "SatelliteUsage", "SatelliteHealthOverride", "SignalTracking", "SignalUsage"}
      OBVIOUS
    <2> QED  BY <1>12, <1>7, <2>1, PartJoin
  <1> QED  BY <1>13 DEF GnssCommands, P1, P2, P3, P4, P5, P6, P7

LEMMA ImuPart ==
    ASSUME NEW imu
    PROVE  Part(ImuCommands(imu), {"IMUStartupDataMode", "IMUOrientation", "GNSSAttitude"})
  <1> DEFINE P1 == Simple("IMUStartupDataMode")
             P2 == SetAndEcho("IMUOrientation", "", IF imu.orientation_mode = "SensorDefault" THEN {1} ELSE 1 .. 4,
                              IF imu.orientation_mode = "SensorDefault" THEN {1} ELSE 1 .. 4)
             P3 == Simple("GNSSAttitude")
  <1>1. Part(P1, {"IMUStartupDataMode"})
    BY SimplePart
  <1>2. Part(P2, {"IMUOrientation"})
    BY PairPart
  <1>3. Part(P3, {"GNSSAttitude"})
    BY SimplePart
  <1> HIDE DEF P1, P2, P3
  <1>4. Part(P1 \o P2,
             {"IMUStartupDataMode", "IMUOrientation"})
    <2>1. /\ {"IMUStartupDataMode"} \cap {"IMUOrientation"} = {}
          /\ {"IMUStartupDataMode"} \cup {"IMUOrientation"}
              = {"IMUStartupDataMode", "IMUOrientation"}
      OBVIOUS
    <2> QED  BY <1>1, <1>2, <2>1, PartJoin
  <1>5. Part(P1 \o P2 \o P3,
             {"IMUStartupDataMode", "IMUOrientation", "GNSSAttitude"})
    <2>1. /\ {"IMUStartupDataMode", "IMUOrientation"} \cap {"GNSSAttitude"} = {}
          /\ {"IMUStartupDataMode", "IMUOrientation"} \cup {"GNSSAttitude"}
              = {"IMUStartupDataMode", "IMUOrientation", "GNSSAttitude"}
      OBVIOUS
    <2> QED  BY <1>4, <1>3, <2>1, PartJoin
  <1> QED  BY <1>5 DEF ImuCommands, P1, P2, P3

LEMMA NavigationPart ==
    ASSUME NEW nav
    PROVE  Part(NavigationCommands(nav),
                {"PVTMode", "ReceiverDynamics", "VehicleApplication", "ClockSyncThreshold",
                 "MultipathMitigation", "INSNavConfig"})
  <1> DEFINE P1 == SetAndEcho("PVTMode", "", {1, 2}, {1})
             P2 == Simple("ReceiverDynamics")
             P3 == Simple("VehicleApplication")
             P4 == Simple("ClockSyncThreshold")
             P5 == SetAndEcho("MultipathMitigation", "", {1, 2}, {1, 2})
             P6 == SetAndEcho("INSNavConfig", "", 1 .. 3, {1, 3})
  <1>1. Part(P1, {"PVTMode"})
    BY PairPart DEF UncheckedArguments
  <1>2. Part(P2, {"ReceiverDynamics"})
    BY SimplePart
  <1>3. Part(P3, {"VehicleApplication"})
    BY SimplePart
  <1>4. Part(P4, {"ClockSyncThreshold"})
    BY SimplePart
  <1>5. Part(P5, {"MultipathMitigation"})
    BY PairPart DEF UncheckedArguments
  <1>6. Part(P6, {"INSNavConfig"})
    <2>1. (1 .. 3) \ {1, 3} = {2}
      OBVIOUS
    <2> QED  BY <2>1, PairPart DEF UncheckedArguments
  <1> HIDE DEF P1, P2, P3, P4, P5, P6
  <1>7. Part(P1 \o P2,
             {"PVTMode", "ReceiverDynamics"})
    <2>1. /\ {"PVTMode"} \cap {"ReceiverDynamics"} = {}
          /\ {"PVTMode"} \cup {"ReceiverDynamics"}
              = {"PVTMode", "ReceiverDynamics"}
      OBVIOUS
    <2> QED  BY <1>1, <1>2, <2>1, PartJoin
  <1>8. Part(P1 \o P2 \o P3,
             {"PVTMode", "ReceiverDynamics", "VehicleApplication"})
    <2>1. /\ {"PVTMode", "ReceiverDynamics"} \cap {"VehicleApplication"} = {}
          /\ {"PVTMode", "ReceiverDynamics"} \cup {"VehicleApplication"}
              = {"PVTMode", "ReceiverDynamics", "VehicleApplication"}
      OBVIOUS
    <2> QED  BY <1>7, <1>3, <2>1, PartJoin
  <1>9. Part(P1 \o P2 \o P3 \o P4,
             {"PVTMode", "ReceiverDynamics", "VehicleApplication", "ClockSyncThreshold"})
    <2>1. /\ {"PVTMode", "ReceiverDynamics", "VehicleApplication"} \cap {"ClockSyncThreshold"} = {}
          /\ {"PVTMode", "ReceiverDynamics", "VehicleApplication"} \cup {"ClockSyncThreshold"}
              = {"PVTMode", "ReceiverDynamics", "VehicleApplication", "ClockSyncThreshold"}
      OBVIOUS
    <2> QED  BY <1>8, <1>4, <2>1, PartJoin
  <1>10. Part(P1 \o P2 \o P3 \o P4 \o P5,
             {"PVTMode", "ReceiverDynamics", "VehicleApplication", "ClockSyncThreshold", "MultipathMitigation"})
    <2>1. /\ {"PVTMode", "ReceiverDynamics", "VehicleApplication", "ClockSyncThreshold"} \cap {"MultipathMitigation"} = {}
          /\ {"PVTMode", "ReceiverDynamics", "VehicleApplication", "ClockSyncThreshold"} \cup {"MultipathMitigation"}
              = {"PVTMode", "ReceiverDynamics", "VehicleApplication", "ClockSyncThreshold", "MultipathMitigation"}
      OBVIOUS
    <2> QED  BY <1>9, <1>5, <2>1, PartJoin
  <1>11. Part(P1 \o P2 \o P3 \o P4 \o P5 \o P6,
             {"PVTMode", "ReceiverDynamics", "VehicleApplication", "ClockSyncThreshold", "MultipathMitigation", "INSNavConfig"})
    <2>1. /\ {"PVTMode", "ReceiverDynamics", "VehicleApplication", "ClockSyncThreshold", "MultipathMitigation"} \cap {"INSNavConfig"} = {}
          /\ {"PVTMode", "ReceiverDynamics", "VehicleApplication", "ClockSyncThreshold", "MultipathMitigation"} \cup {"INSNavConfig"}
              = {"PVTMode", "ReceiverDynamics", "VehicleApplication", "ClockSyncThreshold", "MultipathMitigation", "INSNavConfig"}
      OBVIOUS
    <2> QED  BY <1>10, <1>6, <2>1, PartJoin
  <1> QED  BY <1>11 DEF NavigationCommands, P1, P2, P3, P4, P5, P6

LEMMA NtripPart ==
    ASSUME NEW n
    PROVE  Part(NtripCommands(n), {"NtripSettings", "NtripTlsSettings"})
  <1> DEFINE P0 == SetAndEcho("NtripSettings", "NTR1", {1, 2}, {1, 2})
             P1 == SetAndEcho("NtripSettings", "NTR1", 1 .. 9, (1 .. 9) \ {6})
             P2 == SetAndEcho("NtripTlsSettings", "NTR1", 1 .. 3, {1, 2})
  <1>1. Part(P0, {"NtripSettings"})
    BY PairPart
  <1>2. Part(P1, {"NtripSettings"})
    BY PairPart DEF UncheckedArguments
  <1>3. Part(P2, {"NtripTlsSettings"})
    <2>1. (1 .. 3) \ {1, 2} = {3}
      OBVIOUS
    <2> QED  BY <2>1, PairPart DEF UncheckedArguments
  <1>4. NtripCommands(n) = IF ~n.enabled THEN P0 ELSE P1 \o P2
    BY DEF NtripCommands
  <1> HIDE DEF P0, P1, P2
  <1>5. /\ {"NtripSettings"} \cap {"NtripTlsSettings"} = {}
        /\ {"NtripSettings"} \cup {"NtripTlsSettings"} = {"NtripSettings", "NtripTlsSettings"}
    OBVIOUS
  <1>6. Part(P1 \o P2, {"NtripSettings", "NtripTlsSettings"})
    BY <1>2, <1>3, <1>5, PartJoin
  <1>7. Part(P0, {"NtripSettings", "NtripTlsSettings"})
    BY <1>1, PartWider
  <1> QED  BY <1>4, <1>6, <1>7
(* The two antennas are told apart by their target. *)
LEMMA AntennaPart ==
    ASSUME NEW a
    PROVE  LET c == AntennaCommands(a)
           IN  /\ Part(c, {"AntennaInfo", "AntennaType", "AttitudeOffset", "INSAntLeverArm"})
               /\ \/ a.main_type.text = "Unknown" /\ a.aux_type.text = "Unknown"
                  \/ \E k \in DOMAIN c : c[k].kind = "antennas"
  <1> DEFINE Q == <<Command("antennas", "lst", "AntennaInfo", "", {})>>
             P0 == IF a.main_type.text # "Unknown" \/ a.aux_type.text # "Unknown" THEN Q ELSE << >>
             P1 == SetAndEcho("AntennaType", "Main", {1, 2}, {1, 2})
             P2 == SetAndEcho("AntennaType", "Aux1", {1, 2}, {1, 2})
             P3 == SetAndEcho("AttitudeOffset", "", {1, 2}, {1, 2})
             P4 == SetAndEcho("INSAntLeverArm", "", 1 .. 3, 1 .. 3)
  <1>1. Part(Q, {"AntennaInfo"}) /\ DOMAIN Q = {1} /\ Q[1].kind = "antennas"
    BY AskPart
  <1> HIDE DEF Q
  <1>2. Part(P0, {"AntennaInfo"})
    <2>1. Part(<< >>, {"AntennaInfo"})
      BY EmptyPart, PartWider
    <2> QED  BY <1>1, <2>1
  <1>3. \/ a.main_type.text = "Unknown" /\ a.aux_type.text = "Unknown"
        \/ 1 \in DOMAIN P0 /\ P0[1].kind = "antennas"
    BY <1>1
  <1>4. Part(P1, {"AntennaType"}) /\ \A i \in DOMAIN P1 : P1[i].target = "Main"
    BY PairPart
  <1>5. Part(P2, {"AntennaType"}) /\ \A i \in DOMAIN P2 : P2[i].target = "Aux1"
    BY PairPart
  <1>6. Part(P3, {"AttitudeOffset"})
    BY PairPart
  <1>7. Part(P4, {"INSAntLeverArm"})
    BY PairPart
  <1>8. AntennaCommands(a) = P0 \o P1 \o P2 \o P3 \o P4
    BY DEF AntennaCommands, Q
  <1> HIDE DEF P0, P1, P2, P3, P4
  <1> DEFINE B == P0 \o P1
  <1>9. Part(B, {"AntennaInfo", "AntennaType"})
    <2>1. /\ {"AntennaInfo"} \cap {"AntennaType"} = {}
          /\ {"AntennaInfo"} \cup {"AntennaType"} = {"AntennaInfo", "AntennaType"}
      OBVIOUS
    <2> QED  BY <1>2, <1>4, <2>1, PartJoin
  <1>10. \A i \in DOMAIN B : B[i].name = "AntennaInfo" \/ B[i].target = "Main"
    <2>1. /\ \A i \in DOMAIN B : B[i] = IF i <= Len(P0) THEN P0[i] ELSE P1[i - Len(P0)]
          /\ DOMAIN P0 = 1 .. Len(P0) /\ DOMAIN P1 = 1 .. Len(P1)
          /\ DOMAIN B = 1 .. Len(P0) + Len(P1) /\ Len(P0) \in Nat /\ Len(P1) \in Nat
      BY <1>2, <1>4, ListConcat DEF Part
    <2> HIDE DEF B
    <2>2. \A i \in DOMAIN B : \/ i \in DOMAIN P0 /\ B[i] = P0[i]
                              \/ i - Len(P0) \in DOMAIN P1 /\ B[i] = P1[i - Len(P0)]
      BY <2>1
    <2>3. \A i \in DOMAIN P0 : P0[i].name = "AntennaInfo"
      BY <1>2 DEF Part, Within
    <2> QED  BY <1>4, <2>2, <2>3
  <1>11. \A k \in DOMAIN P2 : P2[k].name = "AntennaType"
    BY <1>5 DEF Part, Within
  <1>12. Part(B \o P2, {"AntennaInfo", "AntennaType"} \cup {"AntennaType"})
    <2> HIDE DEF B
    <2>1. \A i \in DOMAIN B, k \in DOMAIN P2 :
             ~(B[i].name = P2[k].name /\ B[i].target = P2[k].target)
      BY <1>5, <1>10, <1>11
    <2> QED  BY <1>5, <1>9, <2>1, PartConcat
  <1>13. Part(B \o P2 \o P3, {"AntennaInfo", "AntennaType", "AttitudeOffset"})
    <2>1. /\ ({"AntennaInfo", "AntennaType"} \cup {"AntennaType"}) \cap {"AttitudeOffset"} = {}
          /\ ({"AntennaInfo", "AntennaType"} \cup {"AntennaType"}) \cup {"AttitudeOffset"}
                = {"AntennaInfo", "AntennaType", "AttitudeOffset"}
      OBVIOUS
    <2> QED  BY <1>6, <1>12, <2>1, PartJoin
  <1>14. Part(B \o P2 \o P3 \o P4,
              {"AntennaInfo", "AntennaType", "AttitudeOffset", "INSAntLeverArm"})
    <2>1. /\ {"AntennaInfo", "AntennaType", "AttitudeOffset"} \cap {"INSAntLeverArm"} = {}
          /\ {"AntennaInfo", "AntennaType", "AttitudeOffset"} \cup {"INSAntLeverArm"}
                = {"AntennaInfo", "AntennaType", "AttitudeOffset", "INSAntLeverArm"}
      OBVIOUS
    <2> QED  BY <1>7, <1>13, <2>1, PartJoin
  <1> DEFINE c == B \o P2 \o P3 \o P4
  <1>15. ASSUME 1 \in DOMAIN P0, P0[1].kind = "antennas"
         PROVE  1 \in DOMAIN c /\ c[1].kind = "antennas"
    <2>1. 1 \in DOMAIN B /\ B[1] = P0[1]
      BY <1>2, <1>4, <1>15, FirstStays DEF Part
    <2>2. 1 \in DOMAIN (B \o P2) /\ (B \o P2)[1] = P0[1]
      BY <1>5, <1>9, <2>1, FirstStays DEF Part
    <2>3. 1 \in DOMAIN (B \o P2 \o P3) /\ (B \o P2 \o P3)[1] = P0[1]
      BY <1>6, <1>12, <2>2, FirstStays DEF Part
    <2>4. 1 \in DOMAIN c /\ c[1] = P0[1]
      BY <1>7, <1>13, <2>3, FirstStays DEF Part
    <2> QED  BY <1>15, <2>4
  <1>16. AntennaCommands(a) = c
    BY <1>8
  <1> HIDE DEF c
  <1> QED  BY <1>3, <1>14, <1>15, <1>16 DEF c


(* The lists that are built stream by stream exist. *)
LEMMA ChainExists ==
    ASSUME NEW n \in Nat, NEW X
    PROVE  \E f : f = [i \in 0 .. n |-> IF i = 0 THEN << >> ELSE f[i - 1] \o X[i]]
  <1> DEFINE Rec(m, f) == f = [i \in 0 .. m |-> IF i = 0 THEN << >> ELSE f[i - 1] \o X[i]]
             T == {m \in Nat : \E f : Rec(m, f)}
  <1>1. 0 \in T
    <2> DEFINE f == [i \in 0 .. 0 |-> << >>]
    <2>1. Rec(0, f)
      OBVIOUS
    <2> QED  BY <2>1
  <1>2. ASSUME NEW m \in Nat, m \in T  PROVE m + 1 \in T
    <2>1. PICK f : Rec(m, f)
      BY <1>2
    <2> DEFINE v == f[m] \o X[m + 1]
               g == [i \in 0 .. m + 1 |-> IF i = m + 1 THEN v ELSE f[i]]
    <2> HIDE DEF v
    <2>2. /\ \A i \in 0 .. m : g[i] = f[i]
          /\ g[m + 1] = v
      <3>1. m + 1 \in 0 .. m + 1 /\ \A i \in 0 .. m : i \in 0 .. m + 1 /\ i # m + 1
        OBVIOUS
      <3> QED  BY <3>1
    <2>3. ASSUME NEW i \in 0 .. m + 1
          PROVE  g[i] = IF i = 0 THEN << >> ELSE g[i - 1] \o X[i]
      <3>1. CASE i = m + 1
        <4>1. i - 1 = m /\ i # 0 /\ m \in 0 .. m
          BY <3>1
        <4> QED  BY <2>2, <3>1, <4>1 DEF v
      <3>2. CASE i # m + 1
        <4>1. i \in 0 .. m /\ (i # 0 => i - 1 \in 0 .. m)
          BY <3>2
        <4>2. f[i] = IF i = 0 THEN << >> ELSE f[i - 1] \o X[i]
          BY <2>1, <4>1
        <4> HIDE DEF g, Rec
        <4> QED  BY <2>2, <4>1, <4>2
      <3> QED  BY <3>1, <3>2
    <2>4. g = [i \in 0 .. m + 1 |-> g[i]]
      OBVIOUS
    <2> HIDE DEF g
    <2>5. Rec(m + 1, g)
      BY <2>3, <2>4
    <2> HIDE DEF Rec
    <2> QED  BY <2>5
  <1> HIDE DEF T
  <1>3. n \in T
    BY <1>1, <1>2, Induct
  <1> QED  BY <1>3 DEF T

LEMMA StreamNamesDiffer ==
    ASSUME NEW i \in 1 .. 10, NEW k \in 1 .. 10, StreamNames[i] = StreamNames[k]
    PROVE  i = k
  BY DEF StreamNames

(* The streams of data; each has a number of its own. *)
LEMMA SbfPart ==
    ASSUME NEW S, NEW streams \in Seq(S), DistinctIds(streams),
           \A i \in DOMAIN streams : streams[i].id \in 1 .. 10
    PROVE  Part(SbfCommands(streams), {"SBFOutput"})
  <1> DEFINE n == Len(streams)
             x(i) == SetAndEcho("SBFOutput", StreamNames[streams[i].id], 1 .. 4, {1, 2, 4})
             X == [i \in 1 .. n |-> x(i)]
             C == CHOOSE f : f = [i \in 0 .. n |-> IF i = 0 THEN << >> ELSE f[i - 1] \o x(i)]
  <1>1. n \in Nat /\ DOMAIN streams = 1 .. n
    OBVIOUS
  <1>2. SbfCommands(streams) = C[n]
    BY DEF SbfCommands
  <1>3. C = [i \in 0 .. n |-> IF i = 0 THEN << >> ELSE C[i - 1] \o x(i)]
    <2>1. PICK f : f = [i \in 0 .. n |-> IF i = 0 THEN << >> ELSE f[i - 1] \o X[i]]
      BY <1>1, ChainExists
    <2>2. \A i \in 0 .. n : i # 0 => X[i] = x(i)
      BY <1>1
    <2> HIDE DEF X, x
    <2>3. f = [i \in 0 .. n |-> IF i = 0 THEN << >> ELSE f[i - 1] \o x(i)]
      BY <2>1, <2>2
    <2> QED  BY <2>3
  <1> HIDE DEF C, X
  <1>4. /\ C[0] = << >>
        /\ \A i \in 1 .. n : C[i] = C[i - 1] \o x(i)
    BY <1>1, <1>3
  <1>5. ASSUME NEW i \in 1 .. n
        PROVE  Part(x(i), {"SBFOutput"}) /\ \A k \in DOMAIN x(i) : x(i)[k].target = StreamNames[streams[i].id]
    <2>1. (1 .. 4) \ {1, 2, 4} = {3}
      OBVIOUS
    <2> QED  BY <2>1, PairPart DEF UncheckedArguments
  <1> DEFINE Good(i) == /\ Part(C[i], {"SBFOutput"})
                        /\ \A k \in DOMAIN C[i] : \E j \in 1 .. i :
                              C[i][k].target = StreamNames[streams[j].id]
             T == {i \in Nat : i <= n => Good(i)}
  <1>6. 0 \in T
    <2>1. Part(<< >>, {"SBFOutput"}) /\ DOMAIN << >> = {}
      BY EmptyPart, PartWider
    <2> QED  BY <1>4, <2>1
  <1>7. ASSUME NEW i \in Nat, i \in T  PROVE i + 1 \in T
    <2> SUFFICES ASSUME i + 1 <= n  PROVE Good(i + 1)
      OBVIOUS
    <2>1. i + 1 \in 1 .. n /\ (i + 1) - 1 = i /\ i <= n
      BY <1>1
    <2> DEFINE a == C[i]
               b == x(i + 1)
               c == C[i + 1]
    <2>2. c = a \o b
      BY <1>4, <2>1
    <2>3. /\ Part(a, {"SBFOutput"})
          /\ \A k \in DOMAIN a : \E j \in 1 .. i : a[k].target = StreamNames[streams[j].id]
      BY <1>7, <2>1
    <2>4. /\ Part(b, {"SBFOutput"})
          /\ \A k \in DOMAIN b : b[k].target = StreamNames[streams[i + 1].id]
      BY <1>5, <2>1
    <2> HIDE DEF a, b, c, x
    <2>5. ASSUME NEW j \in 1 .. i
          PROVE  StreamNames[streams[j].id] # StreamNames[streams[i + 1].id]
      <3>1. j \in DOMAIN streams /\ i + 1 \in DOMAIN streams /\ j # i + 1
        BY <1>1, <2>1
      <3>2. streams[j].id # streams[i + 1].id
        BY <3>1 DEF DistinctIds
      <3> QED  BY <3>1, <3>2, StreamNamesDiffer
    <2>6. Part(c, {"SBFOutput"} \cup {"SBFOutput"})
      <3>1. \A k \in DOMAIN a, l \in DOMAIN b : a[k].target # b[l].target
        BY <2>3, <2>4, <2>5
      <3> QED  BY <2>2, <2>3, <2>4, <3>1, PartConcat
    <2>7. \A k \in DOMAIN c : \E j \in 1 .. i + 1 : c[k].target = StreamNames[streams[j].id]
      <3>1. \A k \in DOMAIN c : \/ \E m \in DOMAIN a : c[k] = a[m]
                                \/ \E m \in DOMAIN b : c[k] = b[m]
        BY <2>2, <2>3, <2>4, FromEither DEF Part
      <3>2. \A j \in 1 .. i : j \in 1 .. i + 1
        OBVIOUS
      <3>3. i + 1 \in 1 .. i + 1
        OBVIOUS
      <3> QED  BY <2>3, <2>4, <3>1, <3>2, <3>3
    <2>8. {"SBFOutput"} \cup {"SBFOutput"} = {"SBFOutput"}
      OBVIOUS
    <2> QED  BY <2>6, <2>7, <2>8 DEF c
  <1> HIDE DEF T
  <1>8. n \in T
    BY <1>1, <1>6, <1>7, Induct
  <1> QED  BY <1>1, <1>2, <1>8 DEF T

(* The lists of pin streams, of which each may open its port before. *)
Chain(f, n, Y, X) ==
    /\ f = [i \in 0 .. n |-> f[i]] /\ f[0] = << >>
    /\ \A i \in 1 .. n : f[i] = f[i - 1] \o Y[i] \o X[i]

LEMMA ChainExists2 ==
    ASSUME NEW n \in Nat, NEW Y, NEW X
    PROVE  \E f : Chain(f, n, Y, X)
  <1> DEFINE Rec(m, f) == f = [i \in 0 .. m |-> IF i = 0 THEN << >> ELSE f[i - 1] \o Y[i] \o X[i]]
             T == {m \in Nat : \E f : Rec(m, f)}
  <1>1. 0 \in T
    <2> DEFINE f == [i \in 0 .. 0 |-> << >>]
    <2>1. Rec(0, f)
      OBVIOUS
    <2> QED  BY <2>1
  <1>2. ASSUME NEW m \in Nat, m \in T  PROVE m + 1 \in T
    <2>1. PICK f : Rec(m, f)
      BY <1>2
    <2> DEFINE v == f[m] \o Y[m + 1] \o X[m + 1]
               g == [i \in 0 .. m + 1 |-> IF i = m + 1 THEN v ELSE f[i]]
    <2> HIDE DEF v
    <2>2. /\ \A i \in 0 .. m : g[i] = f[i]
          /\ g[m + 1] = v
      <3>1. m + 1 \in 0 .. m + 1 /\ \A i \in 0 .. m : i \in 0 .. m + 1 /\ i # m + 1
        OBVIOUS
      <3> QED  BY <3>1
    <2>3. ASSUME NEW i \in 0 .. m + 1
          PROVE  g[i] = IF i = 0 THEN << >> ELSE g[i - 1] \o Y[i] \o X[i]
      <3>1. CASE i = m + 1
        <4>1. i - 1 = m /\ i # 0 /\ m \in 0 .. m
          BY <3>1
        <4> QED  BY <2>2, <3>1, <4>1 DEF v
      <3>2. CASE i # m + 1
        <4>1. i \in 0 .. m /\ (i # 0 => i - 1 \in 0 .. m)
          BY <3>2
        <4>2. f[i] = IF i = 0 THEN << >> ELSE f[i - 1] \o Y[i] \o X[i]
          BY <2>1, <4>1
        <4> HIDE DEF g, Rec
        <4> QED  BY <2>2, <4>1, <4>2
      <3> QED  BY <3>1, <3>2
    <2>4. g = [i \in 0 .. m + 1 |-> g[i]]
      OBVIOUS
    <2> HIDE DEF g
    <2>5. Rec(m + 1, g)
      BY <2>3, <2>4
    <2> HIDE DEF Rec
    <2> QED  BY <2>5
  <1> HIDE DEF T
  <1>3. n \in T
    BY <1>1, <1>2, Induct
  <1>4. PICK f : Rec(n, f)
    BY <1>3 DEF T
  <1>5. f = [i \in 0 .. n |-> f[i]]
    BY <1>4
  <1>6. f[0] = << >> /\ \A i \in 1 .. n : f[i] = f[i - 1] \o Y[i] \o X[i]
    BY <1>4
  <1> QED  BY <1>5, <1>6 DEF Chain

LEMMA NmeaPart ==
    ASSUME NEW S, NEW streams \in Seq(S), DistinctIds(streams),
           \A i \in DOMAIN streams : streams[i].id \in 1 .. 10
    PROVE  Part(NmeaCommands(streams), {"DataInOut", "NMEAOutput"})
  <1> DEFINE N == {"DataInOut", "NMEAOutput"}
             n == Len(streams)
             first(i) == \A k \in 1 .. i - 1 : streams[k].descriptor # streams[i].descriptor
             y(i) == IF first(i) THEN SetAndEcho("DataInOut", streams[i].descriptor, {1, 3}, {1})
                     ELSE << >>
             x(i) == SetAndEcho("NMEAOutput", StreamNames[streams[i].id], 1 .. 4, {1, 2, 4})
             Y == [i \in 1 .. n |-> y(i)]
             X == [i \in 1 .. n |-> x(i)]
             C == CHOOSE f : f = [i \in 0 .. n |-> IF i = 0 THEN << >> ELSE f[i - 1] \o y(i) \o x(i)]
  <1>1. n \in Nat /\ DOMAIN streams = 1 .. n
    OBVIOUS
  <1>2. NmeaCommands(streams) = C[n]
    BY DEF NmeaCommands
  <1>3. C = [i \in 0 .. n |-> IF i = 0 THEN << >> ELSE C[i - 1] \o y(i) \o x(i)]
    <2>1. PICK f : Chain(f, n, Y, X)
      <3> HIDE DEF X, Y, n
      <3> QED  BY <1>1, ChainExists2
    <2>2. \A i \in 1 .. n : X[i] = x(i) /\ Y[i] = y(i)
      BY <1>1
    <2> HIDE DEF X, x, Y, y, n
    <2>3. \A i \in 0 .. n : f[i] = IF i = 0 THEN << >> ELSE f[i - 1] \o y(i) \o x(i)
      <3>1. \A i \in 0 .. n : i # 0 => i \in 1 .. n
        BY <1>1
      <3> QED  BY <2>1, <2>2, <3>1 DEF Chain
    <2>4. f = [i \in 0 .. n |-> IF i = 0 THEN << >> ELSE f[i - 1] \o y(i) \o x(i)]
      BY <2>1, <2>3 DEF Chain
    <2> QED  BY <2>4
  <1> HIDE DEF C, X, Y
  <1>4. /\ C[0] = << >>
        /\ \A i \in 1 .. n : C[i] = C[i - 1] \o y(i) \o x(i)
    <2> HIDE DEF x, y, n
    <2>1. 0 \in 0 .. n /\ \A i \in 1 .. n : i \in 0 .. n /\ i # 0
      BY <1>1
    <2> QED  BY <1>3, <2>1
  <1>5. ASSUME NEW i \in 1 .. n
        PROVE  /\ Part(x(i), {"NMEAOutput"})
               /\ \A k \in DOMAIN x(i) : x(i)[k].target = StreamNames[streams[i].id]
               /\ Part(y(i), {"DataInOut"})
    <2>1. (1 .. 4) \ {1, 2, 4} = {3} /\ {1, 3} \ {1} = {3}
      OBVIOUS
    <2>2. /\ Part(x(i), {"NMEAOutput"})
          /\ \A k \in DOMAIN x(i) : x(i)[k].target = StreamNames[streams[i].id]
      BY <2>1, PairPart DEF UncheckedArguments
    <2>3. Part(SetAndEcho("DataInOut", streams[i].descriptor, {1, 3}, {1}), {"DataInOut"})
      BY <2>1, PairPart DEF UncheckedArguments
    <2>4. Part(<< >>, {"DataInOut"})
      BY EmptyPart, PartWider
    <2> QED  BY <2>2, <2>3, <2>4
  <1> HIDE DEF x, y
  <1> DEFINE Good(i) == /\ Part(C[i], N)
                        /\ \A k \in DOMAIN C[i] : C[i][k].name = "NMEAOutput" =>
                              \E j \in 1 .. i : C[i][k].target = StreamNames[streams[j].id]
             T == {i \in Nat : i <= n => Good(i)}
  <1>6. 0 \in T
    <2>1. Part(<< >>, N) /\ DOMAIN << >> = {}
      BY EmptyPart, PartWider
    <2> QED  BY <1>4, <2>1
  <1>7. ASSUME NEW i \in Nat, i \in T  PROVE i + 1 \in T
    <2> SUFFICES ASSUME i + 1 <= n  PROVE Good(i + 1)
      OBVIOUS
    <2>1. i + 1 \in 1 .. n /\ (i + 1) - 1 = i /\ i <= n
      BY <1>1
    <2> DEFINE a == C[i]
               b == y(i + 1)
               d == x(i + 1)
               c == C[i + 1]
    <2>2. c = (a \o b) \o d
      BY <1>4, <2>1
    <2>3. /\ Part(a, N)
          /\ \A k \in DOMAIN a : a[k].name = "NMEAOutput" =>
                \E j \in 1 .. i : a[k].target = StreamNames[streams[j].id]
      BY <1>7, <2>1
    <2>4. /\ Part(b, {"DataInOut"}) /\ Part(d, {"NMEAOutput"})
          /\ \A k \in DOMAIN d : d[k].target = StreamNames[streams[i + 1].id]
      BY <1>5, <2>1
    <2> HIDE DEF a, b, c, d
    <2>5. ASSUME NEW j \in 1 .. i
          PROVE  StreamNames[streams[j].id] # StreamNames[streams[i + 1].id]
      <3>1. j \in DOMAIN streams /\ i + 1 \in DOMAIN streams /\ j # i + 1
        BY <1>1, <2>1
      <3>2. streams[j].id # streams[i + 1].id
        BY <3>1 DEF DistinctIds
      <3> QED  BY <3>1, <3>2, StreamNamesDiffer
    <2>6. /\ N \cup {"DataInOut"} = N /\ N \cup {"NMEAOutput"} = N
          /\ N \cap {"DataInOut"} \subseteq {"DataInOut"}
          /\ \A w \in N : w = "NMEAOutput" \/ w = "DataInOut"
      OBVIOUS
    <2> HIDE DEF N
    <2>7. Part(a \o b, N)
      BY <2>3, <2>4, <2>6, PartJoin
    <2>8. ASSUME NEW k \in DOMAIN (a \o b), (a \o b)[k].name = "NMEAOutput"
          PROVE  \E j \in 1 .. i : (a \o b)[k].target = StreamNames[streams[j].id]
      <3>1. \/ \E m \in DOMAIN a : (a \o b)[k] = a[m]
            \/ \E m \in DOMAIN b : (a \o b)[k] = b[m]
        <4>1. IsList(a) /\ IsList(b)
          BY <2>3, <2>4 DEF Part
        <4> QED  BY <4>1, FromEither
      <3>2. \A m \in DOMAIN b : b[m].name = "DataInOut"
        BY <2>4 DEF Part, Within
      <3> QED  BY <2>3, <2>8, <3>1, <3>2
    <2>9. Part(c, N)
      <3>1. \A k \in DOMAIN (a \o b), l \in DOMAIN d :
               (a \o b)[k].target = d[l].target => (a \o b)[k].name # "NMEAOutput"
        BY <2>4, <2>5, <2>8
      <3>2. \A k \in DOMAIN (a \o b) : (a \o b)[k].name \in N
        BY <2>7 DEF Part, Within
      <3>3. \A k \in DOMAIN (a \o b), l \in DOMAIN d :
               (a \o b)[k].target = d[l].target => (a \o b)[k].name = "DataInOut"
        BY <2>6, <3>1, <3>2
      <3>4. Part(c, N \cup {"NMEAOutput"})
        BY <2>2, <2>4, <2>7, <3>3, PartConcat
      <3> QED  BY <2>6, <3>4
    <2>10. ASSUME NEW k \in DOMAIN c, c[k].name = "NMEAOutput"
           PROVE  \E j \in 1 .. i + 1 : c[k].target = StreamNames[streams[j].id]
      <3>1. \/ \E m \in DOMAIN (a \o b) : c[k] = (a \o b)[m]
            \/ \E m \in DOMAIN d : c[k] = d[m]
        <4> DEFINE e == a \o b
        <4>1. IsList(e) /\ IsList(d)
          BY <2>4, <2>7 DEF Part
        <4>2. c = e \o d
          BY <2>2
        <4> HIDE DEF e
        <4>3. k \in DOMAIN (e \o d)
          BY <4>2
        <4>4. \/ \E m \in DOMAIN e : (e \o d)[k] = e[m]
              \/ \E m \in DOMAIN d : (e \o d)[k] = d[m]
          BY <4>1, <4>3, FromEither
        <4> QED  BY <4>2, <4>4 DEF e
      <3>2. \A j \in 1 .. i : j \in 1 .. i + 1
        OBVIOUS
      <3>3. i + 1 \in 1 .. i + 1
        OBVIOUS
      <3> QED  BY <2>4, <2>8, <2>10, <3>1, <3>2, <3>3
    <2> QED  BY <2>9, <2>10 DEF c
  <1> HIDE DEF T
  <1>8. n \in T
    BY <1>1, <1>6, <1>7, Induct
  <1> QED  BY <1>1, <1>2, <1>8 DEF T

----------------------------------------------------------------------------
(* The whole list. *)

Opening == {"login", "CopyConfigFile", "ReceiverCapabilities"}

Asks(c, kind) == \E k \in DOMAIN c : k > 2 /\ c[k].kind = kind

(* A list that begins as BuildCommandList's does and goes on about `names`. *)
Begun(c, names) ==
    /\ Part(c, Opening \cup names) /\ Len(c) >= 3
    /\ c[1].kind = "plain"
    /\ c[2].verb = "exe" /\ c[2].name = "CopyConfigFile" /\ c[2].kind = "plain"
    /\ c[3].kind = "capabilities"
    /\ \A i \in DOMAIN c : i > 2 => c[i].name \notin {"login", "CopyConfigFile"}
    /\ \A i \in DOMAIN c : Sets(c, i) => i > 3

LEMMA BegunJoin ==
    ASSUME NEW A, NEW B, NEW a, NEW b, Begun(a, A), Part(b, B),
           A \cap B \subseteq {"DataInOut"}, Opening \cap B = {}
    PROVE  /\ Begun(a \o b, A \cup B)
           /\ \A kind : Asks(a, kind) \/ (\E k \in DOMAIN b : b[k].kind = kind)
                           => Asks(a \o b, kind)
  <1> DEFINE c == a \o b
             n == Len(a)
  <1>1. /\ IsList(c) /\ n \in Nat /\ Len(b) \in Nat /\ Len(c) = n + Len(b)
        /\ DOMAIN a = 1 .. n /\ DOMAIN b = 1 .. Len(b) /\ DOMAIN c = 1 .. n + Len(b)
        /\ \A i \in DOMAIN c : c[i] = IF i <= n THEN a[i] ELSE b[i - n]
    BY ListConcat DEF Begun, Part
  <1>2. n >= 3
    BY DEF Begun
  <1>3. Part(c, (Opening \cup A) \cup B)
    <2>1. (Opening \cup A) \cap B \subseteq {"DataInOut"}
      OBVIOUS
    <2> QED  BY <2>1, PartJoin DEF Begun
  <1> HIDE DEF c, n
  <1>4. (Opening \cup A) \cup B = Opening \cup (A \cup B)
    OBVIOUS
  <1>5. \A i \in DOMAIN c : \/ i \in DOMAIN a /\ c[i] = a[i]
                            \/ i - n \in DOMAIN b /\ c[i] = b[i - n] /\ i > 3
    BY <1>1, <1>2
  <1>6. \A i \in DOMAIN a : i \in DOMAIN c /\ c[i] = a[i]
    BY <1>1
  <1>7. \A k \in DOMAIN b : k + n \in DOMAIN c /\ c[k + n] = b[k] /\ k + n > 2
    BY <1>1, <1>2
  <1>8. \A k \in DOMAIN b : b[k].name \notin {"login", "CopyConfigFile"}
    <2>1. \A k \in DOMAIN b : b[k].name \in B
      BY DEF Part, Within
    <2> QED  BY <2>1 DEF Opening
  <1>9. 1 \in DOMAIN a /\ 2 \in DOMAIN a /\ 3 \in DOMAIN a /\ Len(c) >= 3
    BY <1>1, <1>2
  <1>10. \A i \in DOMAIN c : i > 2 => c[i].name \notin {"login", "CopyConfigFile"}
    BY <1>5, <1>8 DEF Begun
  <1>11. \A i \in DOMAIN c : Sets(c, i) => i > 3
    BY <1>5 DEF Begun, Sets
  <1>12. Begun(c, A \cup B)
    BY <1>3, <1>4, <1>6, <1>9, <1>10, <1>11 DEF Begun
  <1>13. \A kind : Asks(a, kind) => Asks(c, kind)
    BY <1>6 DEF Asks
  <1>14. \A kind : (\E k \in DOMAIN b : b[k].kind = kind) => Asks(c, kind)
    BY <1>7 DEF Asks
  <1> QED  BY <1>12, <1>13, <1>14 DEF c

(* For every file that loads the list begins with the reset, lists the receiver's
   configuration and, where an antenna is named, the antennas it knows. *)
LEMMA ListIsListed ==
    ASSUME NEW settings, NEW descriptor, NEW S, NEW T, ValidStreams(settings),
           settings.sbf_streams \in Seq(S), settings.nmea_streams \in Seq(T)
    PROVE  Listed(BuildCommandList(settings, descriptor), settings.antenna)
  <1> DEFINE H1 == Command("plain", "exe", "login", "", {})
             H2 == Command("plain", "exe", "CopyConfigFile", "Boot", {})
             H3 == Command("capabilities", "get", "ReceiverCapabilities", "", {})
             P0 == <<H1, H2, H3>>
             P1 == TimeCommands(settings.time_system)
             P2 == NmeaCommands(settings.nmea_streams)
             P3 == AntennaCommands(settings.antenna)
             P4 == GnssCommands(settings.gnss)
             P5 == ImuCommands(settings.imu)
             P6 == NtripCommands(settings.ntrip)
             P7 == NavigationCommands(settings.navigation)
             P8 == SetAndEcho("DataInOut", descriptor.text, {1, 3}, {1})
             P9 == <<Command("listing", "lst", "ConfigFile", "Current", {})>>
             P10 == SbfCommands(settings.sbf_streams)
             N1 == {"PPSParameters", "NTPServer", "PTPServer"}
             N2 == {"DataInOut", "NMEAOutput"}
             N3 == {"AntennaInfo", "AntennaType", "AttitudeOffset", "INSAntLeverArm"}
             N4 == {"CN0Mask", "ElevationMask", "SatelliteTracking", "SatelliteUsage",
                    "SatelliteHealthOverride", "SignalTracking", "SignalUsage"}
             N5 == {"IMUStartupDataMode", "IMUOrientation", "GNSSAttitude"}
             N6 == {"NtripSettings", "NtripTlsSettings"}
             N7 == {"PVTMode", "ReceiverDynamics", "VehicleApplication", "ClockSyncThreshold",
                    "MultipathMitigation", "INSNavConfig"}
             N8 == {"DataInOut"}
             N9 == {"ConfigFile"}
             N10 == {"SBFOutput"}
  <1>1. BuildCommandList(settings, descriptor)
           = P0 \o P1 \o P2 \o P3 \o P4 \o P5 \o P6 \o P7 \o P8 \o P9 \o P10
    BY DEF BuildCommandList
  <1>2. /\ DistinctIds(settings.sbf_streams) /\ DistinctIds(settings.nmea_streams)
        /\ \A i \in DOMAIN settings.sbf_streams : settings.sbf_streams[i].id \in 1 .. 10
        /\ \A i \in DOMAIN settings.nmea_streams : settings.nmea_streams[i].id \in 1 .. 10
    BY DEF ValidStreams, SbfStreamOk, NmeaStreamOk
  <1>3. Part(P1, N1)
    BY TimePart
  <1>4. Part(P2, N2)
    BY <1>2, NmeaPart
  <1>5. /\ Part(P3, N3)
        /\ \/ settings.antenna.main_type.text = "Unknown" /\ settings.antenna.aux_type.text = "Unknown"
           \/ \E k \in DOMAIN P3 : P3[k].kind = "antennas"
    BY AntennaPart
  <1>6. Part(P4, N4)
    BY GnssPart
  <1>7. Part(P5, N5)
    BY ImuPart
  <1>8. Part(P6, N6)
    BY NtripPart
  <1>9. Part(P7, N7)
    BY NavigationPart
  <1>10. Part(P8, N8)
    <2>1. {1, 3} \ {1} = {3}
      OBVIOUS
    <2> QED  BY <2>1, PairPart DEF UncheckedArguments
  <1>11. Part(P9, N9) /\ \E k \in DOMAIN P9 : P9[k].kind = "listing"
    <2> DEFINE H == Command("listing", "lst", "ConfigFile", "Current", {})
    <2>1. H.kind = "listing" /\ P9 = <<H>>
      BY DEF Command
    <2>2. Part(<<H>>, {"ConfigFile"}) /\ DOMAIN <<H>> = {1} /\ <<H>>[1].kind = "listing"
      BY AskPart
    <2> QED  BY <2>1, <2>2
  <1>12. Part(P10, N10)
    BY <1>2, SbfPart
  <1>13. Begun(P0, {})
    <2>1. /\ H1.verb = "exe" /\ H1.name = "login" /\ H1.kind = "plain"
          /\ H2.verb = "exe" /\ H2.name = "CopyConfigFile" /\ H2.kind = "plain"
          /\ H3.verb = "get" /\ H3.name = "ReceiverCapabilities" /\ H3.kind = "capabilities"
      BY DEF Command
    <2> HIDE DEF H1, H2, H3
    <2>2. P0 \in Seq({H1, H2, H3})
      OBVIOUS
    <2>3. IsList(P0)
      BY <2>2, ListIn
    <2>4. DOMAIN P0 = {1, 2, 3} /\ Len(P0) = 3 /\ P0[1] = H1 /\ P0[2] = H2 /\ P0[3] = H3
      OBVIOUS
    <2> HIDE DEF P0
    <2>5. \A i \in DOMAIN P0 : ~Sets(P0, i)
      BY <2>1, <2>4 DEF Sets
    <2>6. Paired(P0) /\ Distinct(P0)
      BY <2>5 DEF Paired, Distinct
    <2>7. Within(P0, Opening \cup {})
      BY <2>1, <2>4 DEF Within, Opening
    <2>8. \A i \in DOMAIN P0 : i > 2 => P0[i].name \notin {"login", "CopyConfigFile"}
      BY <2>1, <2>4
    <2> QED  BY <2>1, <2>3, <2>4, <2>5, <2>6, <2>7, <2>8 DEF Begun, Part
  <1> HIDE DEF P0, P1, P2, P3, P4, P5, P6, P7, P8, P9, P10
  <1> DEFINE U0 == {}
             E0 == P0
             U1 == U0 \cup N1
             E1 == E0 \o P1
             U2 == U1 \cup N2
             E2 == E1 \o P2
             U3 == U2 \cup N3
             E3 == E2 \o P3
             U4 == U3 \cup N4
             E4 == E3 \o P4
             U5 == U4 \cup N5
             E5 == E4 \o P5
             U6 == U5 \cup N6
             E6 == E5 \o P6
             U7 == U6 \cup N7
             E7 == E6 \o P7
             U8 == U7 \cup N8
             E8 == E7 \o P8
             U9 == U8 \cup N9
             E9 == E8 \o P9
             U10 == U9 \cup N10
             E10 == E9 \o P10
             Unnamed == /\ settings.antenna.main_type.text = "Unknown"
                        /\ settings.antenna.aux_type.text = "Unknown"
  <1> HIDE DEF U0, E0, U1, E1, U2, E2, U3, E3, U4, E4, U5, E5, U6, E6, U7, E7, U8, E8, U9, E9, U10, E10,
              N1, N2, N3, N4, N5, N6, N7, N8, N9, N10, Unnamed
  <1>14. Begun(E1, U1)
    <2>1. U0 \cap N1 \subseteq {"DataInOut"} /\ Opening \cap N1 = {}
      BY DEF Opening, U0, N1
    <2>2. Begun(E0, U0)
      BY <1>13 DEF U0, E0
    <2>3. Part(P1, N1)
      BY <1>3 DEF N1
    <2>4. /\ Begun(E0 \o P1, U0 \cup N1)
          /\ \A kind : Asks(E0, kind) \/ (\E j \in DOMAIN P1 : P1[j].kind = kind)
                          => Asks(E0 \o P1, kind)
      BY <2>1, <2>2, <2>3, BegunJoin
    <2> QED  BY <1>13, <2>4 DEF E1, U1
  <1>15. Begun(E2, U2)
    <2>1. U1 \cap N2 \subseteq {"DataInOut"} /\ Opening \cap N2 = {}
      BY DEF Opening, U0, U1, N1, N2
    <2>2. Begun(E1, U1)
      BY <1>14
    <2>3. Part(P2, N2)
      BY <1>4 DEF N2
    <2>4. /\ Begun(E1 \o P2, U1 \cup N2)
          /\ \A kind : Asks(E1, kind) \/ (\E j \in DOMAIN P2 : P2[j].kind = kind)
                          => Asks(E1 \o P2, kind)
      BY <2>1, <2>2, <2>3, BegunJoin
    <2> QED  BY <1>14, <2>4 DEF E2, U2
  <1>16. Begun(E3, U3) /\ (Unnamed \/ Asks(E3, "antennas"))
    <2>1. U2 \cap N3 \subseteq {"DataInOut"} /\ Opening \cap N3 = {}
      BY DEF Opening, U0, U1, U2, N1, N2, N3
    <2>2. Begun(E2, U2)
      BY <1>15
    <2>3. Part(P3, N3)
      BY <1>5 DEF N3
    <2>4. /\ Begun(E2 \o P3, U2 \cup N3)
          /\ \A kind : Asks(E2, kind) \/ (\E j \in DOMAIN P3 : P3[j].kind = kind)
                          => Asks(E2 \o P3, kind)
      BY <2>1, <2>2, <2>3, BegunJoin
    <2> QED  BY <1>5, <2>4 DEF E3, U3, Unnamed
  <1>17. Begun(E4, U4) /\ (Unnamed \/ Asks(E4, "antennas"))
    <2>1. U3 \cap N4 \subseteq {"DataInOut"} /\ Opening \cap N4 = {}
      BY DEF Opening, U0, U1, U2, U3, N1, N2, N3, N4
    <2>2. Begun(E3, U3)
      BY <1>16
    <2>3. Part(P4, N4)
      BY <1>6 DEF N4
    <2>4. /\ Begun(E3 \o P4, U3 \cup N4)
          /\ \A kind : Asks(E3, kind) \/ (\E j \in DOMAIN P4 : P4[j].kind = kind)
                          => Asks(E3 \o P4, kind)
      BY <2>1, <2>2, <2>3, BegunJoin
    <2> QED  BY <1>16, <2>4 DEF E4, U4
  <1>18. Begun(E5, U5) /\ (Unnamed \/ Asks(E5, "antennas"))
    <2>1. U4 \cap N5 \subseteq {"DataInOut"} /\ Opening \cap N5 = {}
      BY DEF Opening, U0, U1, U2, U3, U4, N1, N2, N3, N4, N5
    <2>2. Begun(E4, U4)
      BY <1>17
    <2>3. Part(P5, N5)
      BY <1>7 DEF N5
    <2>4. /\ Begun(E4 \o P5, U4 \cup N5)
          /\ \A kind : Asks(E4, kind) \/ (\E j \in DOMAIN P5 : P5[j].kind = kind)
                          => Asks(E4 \o P5, kind)
      BY <2>1, <2>2, <2>3, BegunJoin
    <2> QED  BY <1>17, <2>4 DEF E5, U5
  <1>19. Begun(E6, U6) /\ (Unnamed \/ Asks(E6, "antennas"))
    <2>1. U5 \cap N6 \subseteq {"DataInOut"} /\ Opening \cap N6 = {}
      BY DEF Opening, U0, U1, U2, U3, U4, U5, N1, N2, N3, N4, N5, N6
    <2>2. Begun(E5, U5)
      BY <1>18
    <2>3. Part(P6, N6)
      BY <1>8 DEF N6
    <2>4. /\ Begun(E5 \o P6, U5 \cup N6)
          /\ \A kind : Asks(E5, kind) \/ (\E j \in DOMAIN P6 : P6[j].kind = kind)
                          => Asks(E5 \o P6, kind)
      BY <2>1, <2>2, <2>3, BegunJoin
    <2> QED  BY <1>18, <2>4 DEF E6, U6
  <1>20. Begun(E7, U7) /\ (Unnamed \/ Asks(E7, "antennas"))
    <2>1. U6 \cap N7 \subseteq {"DataInOut"} /\ Opening \cap N7 = {}
      BY DEF Opening, U0, U1, U2, U3, U4, U5, U6, N1, N2, N3, N4, N5, N6, N7
    <2>2. Begun(E6, U6)
      BY <1>19
    <2>3. Part(P7, N7)
      BY <1>9 DEF N7
    <2>4. /\ Begun(E6 \o P7, U6 \cup N7)
          /\ \A kind : Asks(E6, kind) \/ (\E j \in DOMAIN P7 : P7[j].kind = kind)
                          => Asks(E6 \o P7, kind)
      BY <2>1, <2>2, <2>3, BegunJoin
    <2> QED  BY <1>19, <2>4 DEF E7, U7
  <1>21. Begun(E8, U8) /\ (Unnamed \/ Asks(E8, "antennas"))
    <2>1. U7 \cap N8 \subseteq {"DataInOut"} /\ Opening \cap N8 = {}
      BY DEF Opening, U0, U1, U2, U3, U4, U5, U6, U7, N1, N2, N3, N4, N5, N6, N7, N8
    <2>2. Begun(E7, U7)
      BY <1>20
    <2>3. Part(P8, N8)
      BY <1>10 DEF N8
    <2>4. /\ Begun(E7 \o P8, U7 \cup N8)
          /\ \A kind : Asks(E7, kind) \/ (\E j \in DOMAIN P8 : P8[j].kind = kind)
                          => Asks(E7 \o P8, kind)
      BY <2>1, <2>2, <2>3, BegunJoin
    <2> QED  BY <1>20, <2>4 DEF E8, U8
  <1>22. Begun(E9, U9) /\ (Unnamed \/ Asks(E9, "antennas")) /\ Asks(E9, "listing")
    <2>1. U8 \cap N9 \subseteq {"DataInOut"} /\ Opening \cap N9 = {}
      BY DEF Opening, U0, U1, U2, U3, U4, U5, U6, U7, U8, N1, N2, N3, N4, N5, N6, N7, N8, N9
    <2>2. Begun(E8, U8)
      BY <1>21
    <2>3. Part(P9, N9)
      BY <1>11 DEF N9
    <2>4. /\ Begun(E8 \o P9, U8 \cup N9)
          /\ \A kind : Asks(E8, kind) \/ (\E j \in DOMAIN P9 : P9[j].kind = kind)
                          => Asks(E8 \o P9, kind)
      BY <2>1, <2>2, <2>3, BegunJoin
    <2> QED  BY <1>11, <1>21, <2>4 DEF E9, U9
  <1>23. Begun(E10, U10) /\ (Unnamed \/ Asks(E10, "antennas")) /\ Asks(E10, "listing")
    <2>1. U9 \cap N10 \subseteq {"DataInOut"} /\ Opening \cap N10 = {}
      BY DEF Opening, U0, U1, U2, U3, U4, U5, U6, U7, U8, U9, N1, N2, N3, N4, N5, N6, N7, N8, N9, N10
    <2>2. Begun(E9, U9)
      BY <1>22
    <2>3. Part(P10, N10)
      BY <1>12 DEF N10
    <2>4. /\ Begun(E9 \o P10, U9 \cup N10)
          /\ \A kind : Asks(E9, kind) \/ (\E j \in DOMAIN P10 : P10[j].kind = kind)
                          => Asks(E9 \o P10, kind)
      BY <2>1, <2>2, <2>3, BegunJoin
    <2> QED  BY <1>22, <2>4 DEF E10, U10
  <1>24. BuildCommandList(settings, descriptor) = E10
    BY <1>1 DEF E0, E1, E2, E3, E4, E5, E6, E7, E8, E9, E10
  <1> QED  BY <1>23, <1>24 DEF Listed, Begun, Part, Asks, Unnamed

----------------------------------------------------------------------------
(* What the Session's operations do to the connection. *)

Running == {"warmingUp", "recording"}

(* The connection goes on as it was, or it is given up; no operation goes back
   to the commands or skips them. *)
Stays(x, y) ==
    /\ y \in SessionType
    /\ x.incomplete => y.incomplete
    /\ y.descriptor = x.descriptor /\ y.cmd = x.cmd
    /\ y.state = "configuring" => x.state = "configuring" /\ (y.lst => x.lst)
    /\ y.state \in Running => x.state \in Running

LEMMA StaysOn ==
    ASSUME NEW x, NEW y, NEW z, Stays(x, y), Stays(y, z)
    PROVE  Stays(x, z)
  BY DEF Stays

LEMMA StaysSame ==
    ASSUME NEW x \in SessionType
    PROVE  Stays(x, x)
  BY DEF Stays

LEMMA CloseStays ==
    ASSUME NEW x \in SessionType
    PROVE  Stays(x, CloseConnection(x))
  <1>1. /\ CloseConnection(x).descriptor = x.descriptor /\ CloseConnection(x).cmd = x.cmd
        /\ CloseConnection(x).lst = x.lst
    BY DEF CloseConnection, SessionType
  <1> QED  BY <1>1, CloseFields DEF Stays

LEMMA ShutdownStays ==
    ASSUME NEW x \in SessionType, NEW clean \in BOOLEAN
    PROVE  Stays(x, Shutdown(x, clean))
  <1>1. CASE x.state = "stopping"
    BY <1>1, StaysSame DEF Shutdown
  <1>2. CASE x.state # "stopping"
    <2> DEFINE w == [x EXCEPT !.state = "stopping"]
               v == CloseConnection(w)
               y == Shutdown(x, clean)
    <2>1. w \in SessionType /\ w.descriptor = x.descriptor /\ w.cmd = x.cmd
      BY DEF SessionType, States
    <2>2. y = [v EXCEPT !.slot = FALSE, !.timers = {}, !.windows = 0,
                        !.incomplete = @ \/ ~clean, !.fatal = @ \/ ~clean]
      BY <1>2 DEF Shutdown
    <2>3. /\ y \in SessionType /\ y.state = "stopping"
          /\ x.incomplete \/ ~clean => y.incomplete
      BY <1>2, ShutdownFields
    <2> HIDE DEF w
    <2>4. Stays(w, v)
      BY <2>1, CloseStays
    <2> HIDE DEF v
    <2>5. v \in SessionType /\ v.descriptor = x.descriptor /\ v.cmd = x.cmd
      BY <2>1, <2>4 DEF Stays
    <2>6. y.descriptor = v.descriptor /\ y.cmd = v.cmd
      BY <2>2, <2>5 DEF SessionType
    <2> HIDE DEF y
    <2>7. Stays(x, y)
      BY <2>3, <2>5, <2>6 DEF Stays, Running
    <2> QED  BY <2>7 DEF y
  <1> QED  BY <1>1, <1>2

LEMMA FailStartupStays ==
    ASSUME NEW x \in SessionType, NEW clean \in BOOLEAN
    PROVE  Stays(x, FailStartup(x, clean))
  <1>1. CASE x.state = "stopping"
    BY <1>1, StaysSame DEF FailStartup
  <1>2. CASE x.state # "stopping"
    <2> DEFINE w == Shutdown(x, clean)
               y == [w EXCEPT !.fatal = TRUE]
    <2>1. Stays(x, w) /\ FailStartup(x, clean) = y
      BY <1>2, ShutdownStays DEF FailStartup
    <2> HIDE DEF w
    <2>2. Stays(w, y)
      BY <2>1 DEF Stays, SessionType
    <2> HIDE DEF y
    <2> QED  BY <2>1, <2>2, StaysOn
  <1> QED  BY <1>1, <1>2

LEMMA MarkStays ==
    ASSUME NEW x \in SessionType
    PROVE  Stays(x, [x EXCEPT !.incomplete = TRUE])
  BY DEF SessionType, Stays

LEMMA StopRigStays ==
    ASSUME NEW x \in SessionType, NEW clean \in BOOLEAN
    PROVE  Stays(x, StopRig(x, clean))
  <1>1. CASE x.state = "stopping"
    BY <1>1, StaysSame DEF StopRig
  <1>2. CASE x.state # "stopping"
    <2> DEFINE w == [x EXCEPT !.incomplete = TRUE]
    <2>1. Stays(x, w) /\ StopRig(x, clean) = FailStartup(w, clean)
      BY <1>2, MarkStays DEF StopRig
    <2> HIDE DEF w
    <2>2. Stays(w, FailStartup(w, clean))
      BY <2>1, FailStartupStays DEF Stays
    <2> QED  BY <2>1, <2>2, StaysOn
  <1> QED  BY <1>1, <1>2

LEMMA EnterBackoffStays ==
    ASSUME NEW x \in SessionType
    PROVE  Stays(x, EnterBackoff(x))
  <1> DEFINE n == IF "recovery" \in x.timers THEN x.windows ELSE x.windows + 1
             T == (x.timers \ {"connect", "command", "watchdog", "warmupLog"})
                      \cup {"recovery", "retry"}
             w == [x EXCEPT !.state = "backoff", !.slot = FALSE, !.windows = n, !.timers = T]
  <1>1. n \in Nat /\ T \in SUBSET Timers
    BY DEF SessionType, Timers
  <1>2. EnterBackoff(x) = CloseConnection(w)
    BY DEF EnterBackoff, SessionType
  <1> HIDE DEF n, T
  <1>3. w \in SessionType
    BY <1>1 DEF SessionType, States
  <1>4. /\ w.state = "backoff" /\ w.descriptor = x.descriptor /\ w.cmd = x.cmd
        /\ w.incomplete = x.incomplete
    BY DEF SessionType
  <1> HIDE DEF w
  <1>5. Stays(x, w)
    BY <1>3, <1>4 DEF Stays, Running
  <1> QED  BY <1>2, <1>3, <1>5, CloseStays, StaysOn

LEMMA HandleFailureStays ==
    ASSUME NEW x \in SessionType, NEW clean \in BOOLEAN
    PROVE  Stays(x, HandleFailure(x, clean))
  <1> DEFINE w == [x EXCEPT !.incomplete = TRUE]
  <1>1. \/ HandleFailure(x, clean) = x
        \/ HandleFailure(x, clean) = StopRig(x, clean)
        \/ HandleFailure(x, clean) = EnterBackoff(w)
    BY DEF HandleFailure
  <1>2. Stays(x, w)
    BY MarkStays
  <1> HIDE DEF w
  <1>3. Stays(w, EnterBackoff(w))
    BY <1>2, EnterBackoffStays DEF Stays
  <1> QED  BY <1>1, <1>2, <1>3, StaysSame, StaysOn, StopRigStays

(* A connection that has just begun: no descriptor, no commands. *)
Begins(y) ==
    /\ y.descriptor = NoDescriptor /\ y.cmd = 0
    /\ y.state # "configuring" /\ y.state \notin Running

LEMMA ConnectBegins ==
    ASSUME NEW x \in SessionType, NEW now \in BOOLEAN, NEW clean \in BOOLEAN
    PROVE  Begins(Connect(x, now, clean))
  <1> DEFINE T == x.timers \cup {"connect"}
             w == StartConnect(x)
  <1>1. T \in SUBSET Timers
    BY DEF SessionType, Timers
  <1>2. w = [x EXCEPT !.state = "connecting", !.rx = "connecting", !.up = 0, !.fine = FALSE,
                      !.descriptor = NoDescriptor, !.cmd = 0, !.lst = FALSE, !.timers = T]
    BY DEF StartConnect, SessionType
  <1> HIDE DEF T, w
  <1>3. w \in SessionType
    BY <1>1, <1>2 DEF SessionType, States, Links
  <1>4. w.descriptor = NoDescriptor /\ w.cmd = 0 /\ w.state = "connecting"
    BY <1>2 DEF SessionType
  <1>5. Begins(w)
    BY <1>4 DEF Begins, Running
  <1>6. Begins(HandleFailure(w, clean))
    BY <1>3, <1>5, HandleFailureStays DEF Stays, Begins
  <1>7. Connect(x, now, clean) = IF now THEN HandleFailure(w, clean) ELSE w
    BY DEF Connect, w
  <1> QED  BY <1>5, <1>6, <1>7

LEMMA EnterRecordingStays ==
    ASSUME NEW x \in SessionType, NEW clean \in BOOLEAN
    PROVE  Stays(x, EnterRecording(x, clean))
  <1> DEFINE T == (x.timers \ {"recovery", "command", "warmupLog"}) \cup {"watchdog"}
             n == x.opened + 1
             y == [x EXCEPT !.state = "recording", !.windows = 0, !.slot = TRUE, !.opened = n,
                            !.timers = T]
  <1>1. \/ EnterRecording(x, clean) = x
        \/ EnterRecording(x, clean) = StopRig(x, clean)
        \/ x.state = "warmingUp" /\ EnterRecording(x, clean) = y
    BY DEF EnterRecording, SessionType
  <1>2. T \in SUBSET Timers /\ n \in Nat
    BY DEF SessionType, Timers
  <1> HIDE DEF T, n
  <1>3. y \in SessionType
    BY <1>2 DEF SessionType, States
  <1>4. y.descriptor = x.descriptor /\ y.cmd = x.cmd /\ y.incomplete = x.incomplete
        /\ y.state = "recording"
    BY DEF SessionType
  <1> HIDE DEF y
  <1>5. x.state = "warmingUp" => Stays(x, y)
    BY <1>3, <1>4 DEF Stays, Running
  <1> QED  BY <1>1, <1>5, StaysSame, StopRigStays

LEMMA OnReceiverStatusStays ==
    ASSUME NEW x \in SessionType, NEW clean \in BOOLEAN,
           NEW status \in [up : UpTimes, fine : BOOLEAN]
    PROVE  Stays(x, OnReceiverStatus(x, status, clean))
  <1> DEFINE back == x.up # 0 /\ status.up < x.up
             y == [x EXCEPT !.up = status.up, !.fine = status.fine]
             i == y.incomplete \/ back
             z == [y EXCEPT !.incomplete = i]
  <1>1. /\ y \in SessionType /\ y.state = x.state /\ y.descriptor = x.descriptor
        /\ y.cmd = x.cmd /\ y.incomplete = x.incomplete /\ y.lst = x.lst
    BY DEF SessionType
  <1>2. Stays(x, y)
    BY <1>1 DEF Stays
  <1>3. \/ OnReceiverStatus(x, status, clean) = StopRig(y, clean)
        \/ OnReceiverStatus(x, status, clean) = z
    <2>1. z = [y EXCEPT !.incomplete = @ \/ back]
      BY <1>1 DEF SessionType
    <2> QED  BY <2>1 DEF OnReceiverStatus
  <1>4. i \in BOOLEAN /\ (y.incomplete => i)
    BY <1>1 DEF SessionType
  <1> HIDE DEF y, i
  <1>5. Stays(y, z)
    BY <1>1, <1>4 DEF SessionType, Stays
  <1> HIDE DEF z
  <1> QED  BY <1>1, <1>2, <1>3, <1>5, StopRigStays, StaysOn

LEMMA OnRecordedBlockStays ==
    ASSUME NEW x \in SessionType, NEW clean \in BOOLEAN, NEW status \in Statuses
    PROVE  Stays(x, OnRecordedBlock(x, status, clean))
  <1> DEFINE a == [x EXCEPT !.started = TRUE]
             T == a.timers \cup {"watchdog"}
             w == [a EXCEPT !.timers = T]
             b == IF x.state \notin {"warmingUp", "recording"} THEN a
                  ELSE IF status = NoStatus THEN w ELSE OnReceiverStatus(w, status, clean)
             c == IF b.state = "warmingUp" /\ Ready(b) THEN EnterRecording(b, clean) ELSE b
             d == IF c.state = "recording" THEN [c EXCEPT !.slot = TRUE] ELSE c
  <1>1. OnRecordedBlock(x, status, clean) = d
    BY DEF OnRecordedBlock
  <1>2. Stays(x, a)
    BY DEF SessionType, Stays
  <1> HIDE DEF a
  <1>3. a \in SessionType
    BY <1>2 DEF Stays
  <1>4. T \in SUBSET Timers
    BY <1>3 DEF SessionType, Timers
  <1> HIDE DEF T
  <1>5. Stays(a, w)
    BY <1>3, <1>4 DEF SessionType, Stays
  <1> HIDE DEF w
  <1>6. w \in SessionType
    BY <1>5 DEF Stays
  <1>7. Stays(a, b)
    <2>1. CASE x.state \notin {"warmingUp", "recording"}
      BY <1>3, <2>1, StaysSame
    <2>2. CASE x.state \in {"warmingUp", "recording"} /\ status = NoStatus
      BY <1>5, <2>2
    <2>3. CASE x.state \in {"warmingUp", "recording"} /\ status # NoStatus
      <3>1. b = OnReceiverStatus(w, status, clean)
        BY <2>3
      <3>2. status \in [up : UpTimes, fine : BOOLEAN]
        BY <2>3 DEF Statuses
      <3> HIDE DEF b
      <3> QED  BY <1>5, <1>6, <3>1, <3>2, OnReceiverStatusStays, StaysOn
    <2> QED  BY <2>1, <2>2, <2>3
  <1> HIDE DEF b
  <1>8. b \in SessionType
    BY <1>7 DEF Stays
  <1>9. Stays(b, c)
    BY <1>8, EnterRecordingStays, StaysSame
  <1> HIDE DEF c
  <1>10. c \in SessionType
    BY <1>9 DEF Stays
  <1>11. Stays(c, d)
    <2>1. Stays(c, [c EXCEPT !.slot = TRUE])
      BY <1>10 DEF SessionType, Stays
    <2> QED  BY <1>10, <2>1, StaysSame
  <1> HIDE DEF d
  <1> QED  BY <1>1, <1>2, <1>7, <1>9, <1>11, StaysOn

LEMMA OnStreamDamageStays ==
    ASSUME NEW x \in SessionType, NEW clean \in BOOLEAN
    PROVE  Stays(x, OnStreamDamage(x, clean))
  BY StaysSame, StopRigStays, MarkStays DEF OnStreamDamage

(* The gate after the last command is not a way back. *)
LEMMA EnterWarmupFields ==
    ASSUME NEW x \in SessionType, NEW clean \in BOOLEAN
    PROVE  LET y == EnterWarmup(x, clean)
           IN  /\ y \in SessionType /\ (x.incomplete => y.incomplete)
               /\ y.descriptor = x.descriptor /\ y.cmd = x.cmd /\ y.state # "configuring"
  <1> DEFINE T == (x.timers \ {"command"}) \cup {"watchdog"}
             w == [x EXCEPT !.state = "warmingUp", !.everConfigured = TRUE, !.up = 0,
                            !.fine = FALSE, !.slot = FALSE, !.timers = T]
             U == w.timers \cup {"warmupLog"}
             v == [w EXCEPT !.timers = U]
             y == EnterWarmup(x, clean)
  <1>1. T \in SUBSET Timers
    BY DEF SessionType, Timers
  <1>2. w = [x EXCEPT !.state = "warmingUp", !.everConfigured = TRUE, !.up = 0,
                      !.fine = FALSE, !.slot = FALSE,
                      !.timers = (@ \ {"command"}) \cup {"watchdog"}]
    BY DEF SessionType
  <1>3. y = EnterRecording(w, clean) \/ y = [w EXCEPT !.timers = @ \cup {"warmupLog"}]
    BY <1>2 DEF EnterWarmup
  <1> HIDE DEF T, y
  <1>4. w \in SessionType
    BY <1>1, UpTimesNat DEF SessionType, States
  <1>5. /\ w.state = "warmingUp" /\ w.descriptor = x.descriptor /\ w.cmd = x.cmd
        /\ w.incomplete = x.incomplete
    BY DEF SessionType
  <1> HIDE DEF w
  <1>6. U \in SUBSET Timers
    BY <1>4 DEF SessionType, Timers
  <1>7. v = [w EXCEPT !.timers = @ \cup {"warmupLog"}]
    BY <1>4 DEF SessionType
  <1> HIDE DEF U
  <1>8. Stays(w, v)
    BY <1>4, <1>6 DEF SessionType, Stays
  <1> HIDE DEF v
  <1>9. Stays(w, y)
    BY <1>3, <1>4, <1>7, <1>8, EnterRecordingStays
  <1> QED  BY <1>5, <1>9 DEF Stays, y

(* A command more: the next one is outstanding, or there was none left. *)
LEMMA NextCommandFields ==
    ASSUME NEW x \in SessionType, NEW clean \in BOOLEAN
    PROVE  LET y == NextCommand(x, clean)
           IN  /\ y \in SessionType /\ (x.incomplete => y.incomplete)
               /\ y.descriptor = x.descriptor /\ y.cmd = x.cmd + 1
               /\ IF x.cmd + 1 > Len(Commands) THEN y.state # "configuring"
                                               ELSE y.state = x.state /\ ~y.lst
  <1> DEFINE n == x.cmd + 1
             w == [x EXCEPT !.cmd = n, !.lst = FALSE]
             T == w.timers \cup {"command"}
             v == [w EXCEPT !.lst = FALSE, !.timers = T]
             y == NextCommand(x, clean)
  <1>1. n \in Nat
    BY DEF SessionType
  <1>2. y = SendCurrentCommand(w, clean)
    BY DEF NextCommand, SessionType
  <1> HIDE DEF n, y
  <1>3. /\ w \in SessionType /\ w.state = x.state /\ w.incomplete = x.incomplete
        /\ w.descriptor = x.descriptor /\ w.cmd = n
    BY <1>1 DEF SessionType
  <1> HIDE DEF w
  <1>4. T \in SUBSET Timers
    BY <1>3 DEF SessionType, Timers
  <1>5. v = SendCommand(w)
    BY <1>3 DEF SendCommand, SessionType
  <1> HIDE DEF T
  <1>6. /\ v \in SessionType /\ v.state = w.state /\ v.incomplete = w.incomplete
        /\ v.descriptor = w.descriptor /\ v.cmd = w.cmd /\ v.lst = FALSE
    BY <1>3, <1>4 DEF SessionType
  <1> HIDE DEF v
  <1>7. y = IF n > Len(Commands) THEN EnterWarmup(w, clean) ELSE v
    BY <1>2, <1>3, <1>5 DEF SendCurrentCommand
  <1>8. CASE n > Len(Commands)
    BY <1>3, <1>7, <1>8, EnterWarmupFields DEF n, y
  <1>9. CASE ~(n > Len(Commands))
    BY <1>3, <1>6, <1>7, <1>9 DEF n, y
  <1> QED  BY <1>8, <1>9

----------------------------------------------------------------------------
(* The steps that leave the receiver alone. *)

(* They keep the connection, or begin one, and find the file loaded. *)
Quiet ==
    /\ doc' = doc /\ rcv' = rcv
    /\ qpc' # "none" => qpc # "none" \/ Loaded
    /\ Stays(s, s') \/ Begins(s')

LEMMA ConfigKept ==
    ASSUME ConfigIInv, Quiet
    PROVE  ConfigIInv'
  <1>1. doc' = doc /\ rcv' = rcv /\ Loaded' = Loaded /\ TheSettings' = TheSettings
    BY DEF Quiet, Loaded, TheSettings
  <1>2. DOMAIN rcv' = ReceiverFields /\ (qpc' # "none" => Loaded')
    BY <1>1 DEF Quiet, ConfigIInv
  <1>3. CASE Stays(s, s')
    <2>1. Commands' = Commands
      BY <1>1, <1>3 DEF Commands, Stays
    <2>2. Negotiated'
      BY <1>1, <1>3, <2>1 DEF ConfigIInv, Negotiated, Stays
    <2>3. Proven' = Proven
      BY <1>1, <2>1 DEF Proven
    <2>4. RecordsProven'
      BY <1>1, <1>3, <2>3 DEF ConfigIInv, RecordsProven, Stays, Running
    <2>5. ListBuilt'
      BY <1>3 DEF ConfigIInv, ListBuilt, Stays
    <2> QED  BY <1>2, <2>2, <2>4, <2>5 DEF ConfigIInv
  <1>4. CASE Begins(s')
    <2>1. ~DescriptorOk(s'.descriptor)
      <3>1. NoDescriptor.len = 0
        BY DEF NoDescriptor
      <3>2. s'.descriptor = NoDescriptor
        BY <1>4 DEF Begins
      <3>3. ~(0 > 0)
        OBVIOUS
      <3> QED  BY <3>1, <3>2, <3>3 DEF DescriptorOk
    <2> QED  BY <1>2, <1>4, <2>1 DEF ConfigIInv, Begins, Running, Negotiated, RecordsProven, ListBuilt
  <1> QED  BY <1>3, <1>4 DEF Quiet

LEMMA SessionTyped == IInv => s \in SessionType
  BY DEF IInv, Whole, Sound

LEMMA HandledStays ==
    ASSUME NEW y, NEW clean, NEW loses, Handled(y, clean, loses),
           UNCHANGED rcv, UNCHANGED doc, Stays(s, y) \/ Begins(y)
    PROVE  Quiet
  BY DEF Handled, Quiet

LEMMA RestVarsKept == UNCHANGED restVars => UNCHANGED rcv /\ UNCHANGED doc
  BY DEF restVars, appRest

LEMMA ExpiredStays ==
    ASSUME NEW x \in SessionType, NEW t
    PROVE  Stays(x, [x EXCEPT !.timers = @ \ {t}])
  BY DEF SessionType, Stays

LEMMA ConnectedQuiet == IInv /\ Connected => Quiet
  <1> SUFFICES ASSUME IInv, Connected  PROVE Quiet
    OBVIOUS
  <1> DEFINE T == (s.timers \ {"connect"}) \cup {"command"}
             y == [s EXCEPT !.rx = "open", !.state = "waitingDescriptor", !.timers = T]
  <1>1. PICK clean \in BOOLEAN : Handled(y, clean, FALSE)
    BY SessionTyped DEF Connected, Handle, Handled, SessionType
  <1>2. UNCHANGED restVars
    BY DEF Connected
  <1>3. T \in SUBSET Timers
    BY SessionTyped DEF SessionType, Timers
  <1> HIDE DEF T
  <1>4. y \in SessionType
    BY <1>3, SessionTyped DEF SessionType, States, Links
  <1>5. /\ y.state = "waitingDescriptor" /\ y.descriptor = s.descriptor /\ y.cmd = s.cmd
        /\ y.incomplete = s.incomplete
    BY SessionTyped DEF SessionType
  <1> HIDE DEF y
  <1>6. Stays(s, y)
    BY <1>4, <1>5 DEF Stays, Running
  <1> QED  BY <1>1, <1>2, <1>6, HandledStays, RestVarsKept

LEMMA CommandRejectedQuiet == IInv /\ CommandRejected => Quiet
  <1> SUFFICES ASSUME IInv, CommandRejected  PROVE Quiet
    OBVIOUS
  <1> DEFINE x == [s EXCEPT !.timers = @ \ {"command"}]
             y(clean) == HandleFailure(x, clean)
  <1>1. PICK clean \in BOOLEAN : Handled(y(clean), clean, FALSE)
    BY DEF CommandRejected, Handle, Handled
  <1>2. UNCHANGED restVars
    BY DEF CommandRejected
  <1>3. Stays(s, x)
    BY SessionTyped, ExpiredStays
  <1> HIDE DEF x
  <1>4. Stays(x, y(clean))
    BY <1>3, HandleFailureStays DEF Stays
  <1> HIDE DEF y
  <1> QED  BY <1>1, <1>2, <1>3, <1>4, StaysOn, HandledStays, RestVarsKept

LEMMA HandleQueueFailureQuiet == IInv /\ HandleQueueFailure => Quiet
  <1> SUFFICES ASSUME IInv, HandleQueueFailure  PROVE Quiet
    OBVIOUS
  <1>1. s' = StopRig(s, FALSE) /\ UNCHANGED restVars /\ qpc = "loop"
    BY DEF HandleQueueFailure
  <1>2. Stays(s, s')
    BY <1>1, SessionTyped, StopRigStays
  <1> QED  BY <1>1, <1>2, RestVarsKept DEF Quiet

LEMMA StreamDamageQuiet == IInv /\ StreamDamage => Quiet
  <1> SUFFICES ASSUME IInv, StreamDamage  PROVE Quiet
    OBVIOUS
  <1> DEFINE y(clean) == OnStreamDamage(s, clean)
  <1>1. PICK clean \in BOOLEAN : Handled(y(clean), clean, s.state # "stopping")
    BY DEF StreamDamage, Handle, Handled
  <1>2. UNCHANGED restVars
    BY DEF StreamDamage
  <1>3. Stays(s, y(clean))
    BY SessionTyped, OnStreamDamageStays
  <1> HIDE DEF y
  <1> QED  BY <1>1, <1>2, <1>3, HandledStays, RestVarsKept

LEMMA LinkFailureQuiet == IInv /\ LinkFailure => Quiet
  <1> SUFFICES ASSUME IInv, LinkFailure  PROVE Quiet
    OBVIOUS
  <1> DEFINE y(clean) == HandleFailure(s, clean)
  <1>1. PICK clean \in BOOLEAN : Handled(y(clean), clean, s.everConfigured)
    BY DEF LinkFailure, Handle, Handled
  <1>2. UNCHANGED restVars
    BY DEF LinkFailure
  <1>3. Stays(s, y(clean))
    BY SessionTyped, HandleFailureStays
  <1> HIDE DEF y
  <1> QED  BY <1>1, <1>2, <1>3, HandledStays, RestVarsKept

(* A timer that expires is a failure, the end, or nothing. *)
LEMMA ExpiredQuiet ==
    ASSUME IInv, NEW t, NEW y, NEW clean \in BOOLEAN, NEW loses,
           Handled(y, clean, loses), UNCHANGED restVars,
           LET x == [s EXCEPT !.timers = @ \ {t}]
           IN  y \in {x, HandleFailure(x, clean), FailStartup(x, clean)}
    PROVE  Quiet
  <1> DEFINE x == [s EXCEPT !.timers = @ \ {t}]
  <1>1. Stays(s, x)
    BY SessionTyped, ExpiredStays
  <1>2. y \in {x, HandleFailure(x, clean), FailStartup(x, clean)}
    OBVIOUS
  <1> HIDE DEF x
  <1>3. x \in SessionType
    BY <1>1 DEF Stays
  <1>4. Stays(x, HandleFailure(x, clean)) /\ Stays(x, FailStartup(x, clean))
    BY <1>3, HandleFailureStays, FailStartupStays
  <1>5. Stays(s, y)
    BY <1>1, <1>2, <1>4, StaysOn
  <1> QED  BY <1>5, HandledStays, RestVarsKept

LEMMA DeadlinesQuiet == IInv /\ Deadlines => Quiet
  <1> SUFFICES ASSUME IInv, Deadlines  PROVE Quiet
    OBVIOUS
  <1> DEFINE x(t) == [s EXCEPT !.timers = @ \ {t}]
  <1>1. CASE ConnectTimeout
    <2>1. PICK clean \in BOOLEAN :
             Handled(IF x("connect").state = "connecting" THEN HandleFailure(x("connect"), clean)
                     ELSE x("connect"), clean, FALSE)
      BY <1>1 DEF ConnectTimeout, Expires, Handle, Handled
    <2>2. UNCHANGED restVars
      BY <1>1 DEF ConnectTimeout, Expires
    <2> DEFINE y == IF x("connect").state = "connecting" THEN HandleFailure(x("connect"), clean)
                    ELSE x("connect")
    <2>3. y \in {x("connect"), HandleFailure(x("connect"), clean)}
      OBVIOUS
    <2>4. Handled(y, clean, FALSE)
      BY <2>1
    <2> HIDE DEF y
    <2> QED  BY <2>2, <2>3, <2>4, ExpiredQuiet
  <1>2. CASE CommandTimeout
    <2>1. PICK clean \in BOOLEAN :
             Handled(IF x("command").state \in {"configuring", "waitingDescriptor"}
                     THEN HandleFailure(x("command"), clean) ELSE x("command"), clean, FALSE)
      BY <1>2 DEF CommandTimeout, Expires, Handle, Handled
    <2>2. UNCHANGED restVars
      BY <1>2 DEF CommandTimeout, Expires
    <2> DEFINE y == IF x("command").state \in {"configuring", "waitingDescriptor"}
                    THEN HandleFailure(x("command"), clean) ELSE x("command")
    <2>3. y \in {x("command"), HandleFailure(x("command"), clean)}
      OBVIOUS
    <2>4. Handled(y, clean, FALSE)
      BY <2>1
    <2> HIDE DEF y
    <2> QED  BY <2>2, <2>3, <2>4, ExpiredQuiet
  <1>3. CASE Watchdog
    <2>1. PICK clean \in BOOLEAN :
             Handled(IF x("watchdog").state \in {"warmingUp", "recording"}
                     THEN HandleFailure(x("watchdog"), clean) ELSE x("watchdog"), clean,
                     s.state \in {"warmingUp", "recording"})
      BY <1>3 DEF Watchdog, OnWatchdog, Expires, Handle, Handled
    <2> QED  BY <1>3, <2>1, ExpiredQuiet DEF Watchdog, Expires
  <1>4. CASE RetryTimeout
    <2> DEFINE w == x("retry")
               y(now, clean) == IF w.state = "backoff" THEN Connect(w, now, clean) ELSE w
    <2>1. PICK now \in BOOLEAN, clean \in BOOLEAN : Handled(y(now, clean), clean, FALSE)
      BY <1>4 DEF RetryTimeout, Expires, Handle, Handled
    <2>2. UNCHANGED restVars
      BY <1>4 DEF RetryTimeout, Expires
    <2>3. Stays(s, w)
      BY SessionTyped, ExpiredStays
    <2> HIDE DEF w
    <2>4. Begins(Connect(w, now, clean))
      BY <2>3, ConnectBegins DEF Stays
    <2>5. Stays(s, y(now, clean)) \/ Begins(y(now, clean))
      BY <2>3, <2>4
    <2> HIDE DEF y
    <2> QED  BY <2>1, <2>2, <2>5, HandledStays, RestVarsKept
  <1>5. CASE RecoveryTimeout
    <2>1. PICK clean \in BOOLEAN : Handled(FailStartup(x("recovery"), clean), clean, FALSE)
      BY <1>5 DEF RecoveryTimeout, Expires, Handle, Handled
    <2> QED  BY <1>5, <2>1, ExpiredQuiet DEF RecoveryTimeout, Expires
  <1>6. CASE WarmupLog
    <2> DEFINE y(clean) == EnterRecording(s, clean)
    <2>1. PICK clean \in BOOLEAN : Handled(y(clean), clean, FALSE)
      BY <1>6 DEF WarmupLog, Handle, Handled
    <2>2. UNCHANGED restVars
      BY <1>6 DEF WarmupLog
    <2>3. Stays(s, y(clean))
      BY SessionTyped, EnterRecordingStays
    <2> HIDE DEF y
    <2> QED  BY <2>1, <2>2, <2>3, HandledStays, RestVarsKept
  <1> QED  BY <1>1, <1>2, <1>3, <1>4, <1>5, <1>6 DEF Deadlines

LEMMA StopPollQuiet == IInv /\ StopPoll => Quiet
  <1> SUFFICES ASSUME IInv, StopPoll  PROVE Quiet
    OBVIOUS
  <1> DEFINE y(clean) == Shutdown(s, clean)
  <1>1. PICK clean \in BOOLEAN : Handled(y(clean), clean, FALSE)
    BY DEF StopPoll, Handle, Handled
  <1>2. UNCHANGED rcv /\ UNCHANGED doc
    BY DEF StopPoll, world
  <1>3. Stays(s, y(clean))
    BY SessionTyped, ShutdownStays
  <1> HIDE DEF y
  <1> QED  BY <1>1, <1>2, <1>3, HandledStays

(* What happens outside the handlers. *)
LEMMA ThreadsQuiet ==
    ASSUME IInv, \/ QtThread \/ Coordinator \/ StopRequested
                 \/ WriterFails \/ DurationReached \/ Done \/ UNCHANGED vars
    PROVE  Quiet
  <1> DEFINE slotOff == [s EXCEPT !.slot = FALSE]
             fatalOff == [s EXCEPT !.fatal = FALSE]
  <1>1. Stays(s, s) /\ Stays(s, slotOff) /\ Stays(s, fatalOff)
    <2>1. s \in SessionType
      BY SessionTyped
    <2> QED  BY <2>1 DEF SessionType, Stays
  <1> HIDE DEF slotOff, fatalOff
  <1>2. CASE StartSession
    <2>1. PICK now \in BOOLEAN, clean \in BOOLEAN : s' = Connect(s, now, clean)
      BY <1>2 DEF StartSession
    <2>2. Begins(s')
      BY <2>1, SessionTyped, ConnectBegins
    <2> QED  BY <1>2, <2>2 DEF StartSession, world, Quiet
  <1>3. CASE FatalTerminates \/ DisarmSlot \/ ShutdownApp
    <2>1. s' \in {slotOff, fatalOff} /\ UNCHANGED world /\ (qpc' # "none" => qpc # "none")
      BY <1>3 DEF FatalTerminates, DisarmSlot, ShutdownApp, slotOff, fatalOff, world
    <2> QED  BY <1>1, <2>1 DEF world, Quiet
  <1>4. CASE \/ SessionThrows \/ Exec \/ MarkFailed \/ NotifyFailed \/ ExecReturns
             \/ CollectVerdict \/ NotifyEnd \/ TerminateEnd
    <2>1. UNCHANGED sessionVars /\ qpc # "none"
      BY <1>4 DEF SessionThrows, Exec, MarkFailed, NotifyFailed, ExecReturns, CollectVerdict,
                  NotifyEnd, TerminateEnd
    <2> QED  BY <1>1, <2>1 DEF sessionVars, world, Quiet
  <1>5. CASE StartQtThread
    BY <1>1, <1>5 DEF StartQtThread, sessionVars, world, Quiet
  <1>6. CASE \/ ConfigError \/ BringUpSettled \/ BringUpInterrupted \/ InterruptBringUp
             \/ JoinInInit \/ StopRequested \/ RunReturns \/ JoinQtThread
    <2>1. UNCHANGED sessionVars /\ qpc' = qpc
      BY <1>6 DEF ConfigError, BringUpSettled, BringUpInterrupted, InterruptBringUp, JoinInInit,
                  StopRequested, RunReturns, JoinQtThread
    <2> QED  BY <1>1, <2>1 DEF sessionVars, world, Quiet
  <1>7. CASE WriterFails \/ DurationReached
    BY <1>1, <1>7 DEF WriterFails, DurationReached, world, Quiet
  <1>8. CASE Done \/ UNCHANGED vars
    BY <1>1, <1>8 DEF Done, vars, world, Quiet
  <1> QED  BY <1>2, <1>3, <1>4, <1>5, <1>6, <1>7, <1>8 DEF QtThread, Coordinator

----------------------------------------------------------------------------
(* What one command more achieves. *)

LEMMA Kinds ==
    ASSUME NEW c, NEW a, Listed(c, a)
    PROVE  /\ DOMAIN c = 1 .. Len(c) /\ Len(c) \in Nat /\ Len(c) >= 3
           /\ \A i \in DOMAIN c : Sets(c, i) => i > 3 /\ c[i].kind = "plain"
  <1>1. c \in Seq({c[i] : i \in DOMAIN c})
    BY DEF Listed, IsList
  <1>2. DOMAIN c = 1 .. Len(c) /\ Len(c) \in Nat
    BY <1>1
  <1> QED  BY <1>2 DEF Listed, Paired

(* The second command resets the receiver's configuration. *)
LEMMA AchievedReset ==
    ASSUME NEW c, NEW a, Listed(c, a), NEW r, DOMAIN r = ReceiverFields, NEW t,
           t = [Obey(r, c[2], 0) EXCEPT !.reset = @ /\ c[2].name # "CopyConfigFile"]
    PROVE  DOMAIN t = ReceiverFields /\ Achieved(t, c, a, 3)
  <1>1. c[2].verb = "exe" /\ c[2].name = "CopyConfigFile"
    BY DEF Listed
  <1> DEFINE u == [r EXCEPT !.lines = r.boot \cup {l \in @ : l.permanent}, !.bent = {}]
  <1>2. Obey(r, c[2], 0) = u
    BY <1>1 DEF Obey
  <1>3. /\ DOMAIN u = ReceiverFields /\ u.bent = {} /\ u.boot = r.boot
        /\ u.lines = r.boot \cup {l \in r.lines : l.permanent}
    BY DEF ReceiverFields
  <1> HIDE DEF u
  <1>4. /\ DOMAIN t = ReceiverFields /\ t.bent = {} /\ t.boot = r.boot
        /\ t.lines = r.boot \cup {l \in r.lines : l.permanent} /\ t.reset = FALSE
    BY <1>1, <1>2, <1>3 DEF ReceiverFields
  <1>5. \A i \in 1 .. 3 - 1 : i \in DOMAIN c /\ ~Sets(c, i) /\ ~(i > 2)
    BY Kinds
  <1>6. Carried(t, c, 3) /\ BentKnown(t, c, 3)
    BY <1>4, <1>5 DEF Carried, BentKnown
  <1>7. ~Asked(c, 3, "listing") /\ ~Asked(c, 3, "antennas")
    BY <1>5 DEF Asked
  <1>8. LinesKnown(t, c, 3)
    BY <1>4, <1>7 DEF LinesKnown
  <1>9. AntennasKnown(t, c, a, 3)
    BY <1>7 DEF AntennasKnown
  <1> QED  BY <1>4, <1>6, <1>8, <1>9 DEF Achieved

(* What is achieved by the n-th command is achieved for good. *)
LEMMA Before ==
    ASSUME NEW n \in Nat, n > 2
    PROVE  /\ 1 .. (n + 1) - 1 = (1 .. n - 1) \cup {n}
           /\ \A i \in 1 .. n - 1 : i \in 1 .. (n + 1) - 1 /\ i < n
           /\ n \in 1 .. (n + 1) - 1 /\ n + 1 > 2 /\ ~(n + 1 < n + 1)
  OBVIOUS

(* A setting puts its line into force, and may bend one of its arguments. *)
LEMMA AchievedSet ==
    ASSUME NEW c, NEW a, Listed(c, a), NEW n \in 1 .. Len(c), n > 2, Sets(c, n),
           NEW r, DOMAIN r = ReceiverFields, Achieved(r, c, a, n),
           NEW bent \in {0} \cup c[n].fields, NEW t,
           t = [Obey(r, c[n], bent) EXCEPT !.reset = @ /\ c[n].name # "CopyConfigFile"]
    PROVE  DOMAIN t = ReceiverFields /\ Achieved(t, c, a, n + 1)
  <1> DEFINE line == Line(c[n].name, c[n].target)
             one == [name |-> c[n].name, target |-> c[n].target, field |-> bent]
             B == (r.bent \ OfLine(r.bent, c[n])) \cup IF bent = 0 THEN {} ELSE {one}
             u == [r EXCEPT !.lines = r.lines \cup {line}, !.bent = B]
  <1>1. n \in Nat /\ n > 3 /\ n \in DOMAIN c /\ DOMAIN c = 1 .. Len(c) /\ c[n].kind = "plain"
    BY Kinds
  <1>2. Obey(r, c[n], bent) = u
    BY DEF Obey, Sets, ReceiverFields
  <1>3. \A x \in B : x \in r.bent \/ (x = one /\ bent \in c[n].fields)
    OBVIOUS
  <1>4. one.name = c[n].name /\ one.target = c[n].target /\ one.field = bent
    OBVIOUS
  <1> HIDE DEF B, line, one
  <1>5. /\ DOMAIN u = ReceiverFields /\ u.bent = B /\ u.boot = r.boot
        /\ u.lines = r.lines \cup {line} /\ u.aux1 = r.aux1 /\ u.antennas = r.antennas
        /\ u.reset = r.reset
    BY DEF ReceiverFields
  <1> HIDE DEF u
  <1>6. /\ DOMAIN t = ReceiverFields /\ t.bent = B /\ t.boot = r.boot
        /\ t.lines = r.lines \cup {line} /\ t.aux1 = r.aux1 /\ t.antennas = r.antennas
        /\ (~r.reset => ~t.reset)
    BY <1>2, <1>5 DEF ReceiverFields
  <1>7. /\ ~r.reset /\ Carried(r, c, n) /\ BentKnown(r, c, n) /\ LinesKnown(r, c, n)
        /\ AntennasKnown(r, c, a, n)
    BY DEF Achieved
  <1>8. /\ 1 .. (n + 1) - 1 = (1 .. n - 1) \cup {n}
        /\ \A i \in 1 .. n - 1 : i \in 1 .. (n + 1) - 1 /\ i < n
        /\ n \in 1 .. (n + 1) - 1 /\ n + 1 > 2 /\ ~(n + 1 < n + 1)
    BY <1>1, Before
  <1>9. \A i \in 1 .. n - 1 : Sets(c, i) => i + 1 # n
    <2>1. \A i \in DOMAIN c : Sets(c, i) => c[i + 1].verb = "get"
      BY DEF Listed, Paired
    <2>2. \A i \in 1 .. n - 1 : i \in DOMAIN c
      BY <1>1
    <2> QED  BY <2>1, <2>2 DEF Sets
  <1>10. \A kind : kind # "plain" => (Asked(c, n + 1, kind) => Asked(c, n, kind))
    BY <1>1, <1>8 DEF Asked
  <1>11. Carried(t, c, n + 1)
    BY <1>6, <1>7, <1>8 DEF Carried, line
  <1>12. BentKnown(t, c, n + 1)
    <2> SUFFICES ASSUME NEW x \in B
        PROVE \E i \in 1 .. (n + 1) - 1 :
                  /\ Sets(c, i) /\ x.name = c[i].name /\ x.target = c[i].target
                  /\ x.field \in c[i].fields
                  /\ i + 1 < n + 1 => x.field \notin c[i + 1].fields
      BY <1>6 DEF BentKnown
    <2>1. CASE x \in r.bent
      <3>1. PICK i \in 1 .. n - 1 :
               /\ Sets(c, i) /\ x.name = c[i].name /\ x.target = c[i].target
               /\ x.field \in c[i].fields
               /\ i + 1 < n => x.field \notin c[i + 1].fields
        BY <1>7, <2>1 DEF BentKnown
      <3>2. i + 1 < n
        BY <1>1, <1>9, <3>1
      <3> QED  BY <1>8, <3>1, <3>2
    <2>2. CASE x = one /\ bent \in c[n].fields
      BY <1>4, <1>8, <2>2
    <2> QED  BY <1>3, <2>1, <2>2
  <1>13. LinesKnown(t, c, n + 1)
    <2> SUFFICES ASSUME NEW l \in r.lines \cup {line}
        PROVE \/ l.permanent \/ l.name = "UserAccessLevel"
              \/ \E i \in 1 .. (n + 1) - 1 : Sets(c, i) /\ l = Line(c[i].name, c[i].target)
              \/ /\ l \in r.boot
                 /\ (Asked(c, n + 1, "listing") => l.name \in DriverCommandWhitelist(c))
      BY <1>6 DEF LinesKnown
    <2>1. CASE l = line
      BY <1>8, <2>1 DEF line
    <2>2. CASE l \in r.lines
      BY <1>7, <1>8, <1>10, <2>2 DEF LinesKnown
    <2> QED  BY <2>1, <2>2
  <1>14. AntennasKnown(t, c, a, n + 1)
    BY <1>1, <1>6, <1>7, <1>10 DEF AntennasKnown
  <1> QED  BY <1>6, <1>7, <1>11, <1>12, <1>13, <1>14 DEF Achieved

(* A question changes nothing, and its accepted answer tells. *)
LEMMA AchievedAsk ==
    ASSUME NEW c, NEW a, Listed(c, a), NEW n \in 1 .. Len(c), n > 2, ~Sets(c, n),
           NEW r, Achieved(r, c, a, n), NEW settings, settings.antenna = a,
           AnswerAccepted(r, c[n], settings, DriverCommandWhitelist(c))
    PROVE  Achieved(r, c, a, n + 1)
  <1>1. n \in Nat /\ n \in DOMAIN c /\ DOMAIN c = 1 .. Len(c)
    BY Kinds
  <1>2. /\ ~r.reset /\ Carried(r, c, n) /\ BentKnown(r, c, n) /\ LinesKnown(r, c, n)
        /\ AntennasKnown(r, c, a, n)
    BY DEF Achieved
  <1>3. /\ 1 .. (n + 1) - 1 = (1 .. n - 1) \cup {n}
        /\ \A i \in 1 .. n - 1 : i \in 1 .. (n + 1) - 1 /\ i < n
        /\ n \in 1 .. (n + 1) - 1 /\ n + 1 > 2 /\ ~(n + 1 < n + 1)
    BY <1>1, Before
  <1>4. /\ c[n].kind = "echo" => EchoMatches(r, c[n])
        /\ c[n].kind = "capabilities" => r.aux1
        /\ c[n].kind = "antennas" => VerifyAntennaTypes(r.antennas, a)
        /\ c[n].kind = "listing" => VerifyConfigListing(r.lines, DriverCommandWhitelist(c))
    BY DEF AnswerAccepted
  <1>5. Carried(r, c, n + 1)
    BY <1>2, <1>3 DEF Carried
  <1>6. BentKnown(r, c, n + 1)
    <2> SUFFICES ASSUME NEW x \in r.bent
        PROVE \E i \in 1 .. (n + 1) - 1 :
                  /\ Sets(c, i) /\ x.name = c[i].name /\ x.target = c[i].target
                  /\ x.field \in c[i].fields
                  /\ i + 1 < n + 1 => x.field \notin c[i + 1].fields
      BY DEF BentKnown
    <2>1. PICK i \in 1 .. n - 1 :
             /\ Sets(c, i) /\ x.name = c[i].name /\ x.target = c[i].target
             /\ x.field \in c[i].fields
             /\ i + 1 < n => x.field \notin c[i + 1].fields
      BY <1>2 DEF BentKnown
    <2>2. x.field \notin c[i + 1].fields
      <3>1. CASE i + 1 < n
        BY <2>1, <3>1
      <3>2. CASE i + 1 = n
        <4>1. i \in DOMAIN c
          BY <1>1
        <4>2. c[n].kind = "echo" /\ c[n].name = c[i].name /\ c[n].target = c[i].target
          BY <2>1, <3>2, <4>1 DEF Listed, Paired
        <4>3. x \in OfLine(r.bent, c[n])
          BY <2>1, <4>2 DEF OfLine
        <4> QED  BY <1>4, <3>2, <4>2, <4>3 DEF EchoMatches
      <3> QED  BY <1>1, <3>1, <3>2
    <2> QED  BY <1>3, <2>1, <2>2
  <1>7. \A kind : Asked(c, n + 1, kind) => Asked(c, n, kind) \/ c[n].kind = kind
    BY <1>3 DEF Asked
  <1>8. LinesKnown(r, c, n + 1)
    <2> SUFFICES ASSUME NEW l \in r.lines
        PROVE \/ l.permanent \/ l.name = "UserAccessLevel"
              \/ \E i \in 1 .. (n + 1) - 1 : Sets(c, i) /\ l = Line(c[i].name, c[i].target)
              \/ /\ l \in r.boot
                 /\ (Asked(c, n + 1, "listing") => l.name \in DriverCommandWhitelist(c))
      BY DEF LinesKnown
    <2>1. c[n].kind = "listing" => l.permanent \/ l.name \in DriverCommandWhitelist(c)
      BY <1>4 DEF VerifyConfigListing
    <2> QED  BY <1>2, <1>3, <1>7, <2>1 DEF LinesKnown
  <1>9. AntennasKnown(r, c, a, n + 1)
    <2>1. n + 1 > 3 => n > 3 \/ n = 3
      BY <1>1
    <2>2. c[3].kind = "capabilities"
      BY DEF Listed
    <2> QED  BY <1>2, <1>4, <1>7, <2>1, <2>2 DEF AntennasKnown
  <1> QED  BY <1>2, <1>5, <1>6, <1>8, <1>9 DEF Achieved

(* The answer to the n-th command, once it is accepted. *)
LEMMA AchievedNext ==
    ASSUME NEW c, NEW a, Listed(c, a), NEW n \in 1 .. Len(c),
           NEW r, DOMAIN r = ReceiverFields, Achieved(r, c, a, n),
           NEW settings, settings.antenna = a,
           AnswerAccepted(r, c[n], settings, DriverCommandWhitelist(c)),
           NEW bent \in {0} \cup c[n].fields, bent # 0 => Sets(c, n), NEW t,
           t = [Obey(r, c[n], bent) EXCEPT !.reset = @ /\ c[n].name # "CopyConfigFile"]
    PROVE  DOMAIN t = ReceiverFields /\ Achieved(t, c, a, n + 1)
  <1>1. CASE n > 2 /\ Sets(c, n)
    BY <1>1, AchievedSet
  <1>2. CASE n > 2 /\ ~Sets(c, n)
    <2>1. ~r.reset /\ Achieved(r, c, a, n + 1)
      BY <1>2, AchievedAsk DEF Achieved
    <2>2. /\ DOMAIN t = ReceiverFields /\ t.boot = r.boot /\ t.lines = r.lines
          /\ t.bent = r.bent /\ t.aux1 = r.aux1 /\ t.antennas = r.antennas /\ ~t.reset
      <3>1. c[n].name \notin {"login", "CopyConfigFile"}
        BY <1>2, Kinds DEF Listed
      <3>2. Obey(r, c[n], bent) = r
        BY <1>2, <3>1 DEF Obey, Sets
      <3> QED  BY <2>1, <3>2 DEF ReceiverFields
    <2>3. Achieved(t, c, a, n + 1)
      BY <2>1, <2>2 DEF Achieved, Carried, BentKnown, LinesKnown, AntennasKnown
    <2> QED  BY <2>2, <2>3
  <1>3. CASE ~(n > 2)
    <2>1. n \in {1, 2} /\ n \in DOMAIN c
      BY <1>3, Kinds
    <2>2. ~Sets(c, n) /\ bent = 0
      BY <2>1, Kinds
    <2>3. CASE n = 2
      BY <2>2, <2>3, AchievedReset
    <2>4. CASE n = 1
      <3>1. Achieved(t, c, a, n + 1)
        BY <2>4 DEF Achieved
      <3>2. DOMAIN Obey(r, c[n], bent) = ReceiverFields
        BY <2>2 DEF Obey, Sets, ReceiverFields
      <3> QED  BY <3>1, <3>2
    <2> QED  BY <2>1, <2>3, <2>4
  <1> QED  BY <1>1, <1>2, <1>3

----------------------------------------------------------------------------
(* After the last command the configuration is proved. *)

LEMMA SettingsCounted ==
    ASSUME NEW c, NEW a, Listed(c, a), NEW S, NEW L,
           S = {i \in DOMAIN c : Sets(c, i) /\ c[i].name # "DataInOut"},
           L = {Line(c[i].name, c[i].target) : i \in S}
    PROVE  Cardinality(S) = Cardinality(L)
  <1> DEFINE f == [i \in S |-> Line(c[i].name, c[i].target)]
  <1>1. IsFiniteSet(S)
    <2>1. DOMAIN c = 1 .. Len(c) /\ Len(c) \in Nat
      BY Kinds
    <2>2. IsFiniteSet(1 .. Len(c))
      BY <2>1, FS_Interval
    <2>3. S \in SUBSET (1 .. Len(c))
      BY <2>1
    <2> QED  BY <2>2, <2>3, FS_Subset
  <1>2. ASSUME NEW i \in S, NEW k \in S, f[i] = f[k]  PROVE i = k
    <2>1. Line(c[i].name, c[i].target) = Line(c[k].name, c[k].target)
      BY <1>2
    <2>2. c[i].name = c[k].name /\ c[i].target = c[k].target
      BY <2>1 DEF Line
    <2> QED  BY <2>2 DEF Listed, Distinct
  <1>3. f \in [S -> L] /\ \A l \in L : \E i \in S : f[i] = l
    OBVIOUS
  <1> HIDE DEF f
  <1>4. f \in Surjection(S, L)
    BY <1>3 DEF Surjection
  <1>5. f \in Injection(S, L)
    <2>1. f \in [S -> L] /\ DOMAIN f = S
      BY <1>3
    <2>2. IsInjective(f)
      BY <1>2, <2>1 DEF IsInjective
    <2> QED  BY <2>1, <2>2 DEF Injection
  <1> QED  BY <1>1, <1>4, <1>5, FS_Surjection

(* Proven, of any receiver and any list. *)
ProvenOf(r, c, a) ==
    LET sets == {i \in DOMAIN c : c[i].verb = "set"}
        ours == {Line(c[i].name, c[i].target) : i \in sets}
    IN  /\ ours \subseteq r.lines
        /\ \A x \in r.bent : <<x.name, x.field>> \in UncheckedArguments
        /\ Cardinality({i \in sets : c[i].name # "DataInOut"})
              = Cardinality({l \in ours : l.name # "DataInOut"})
        /\ \A l \in r.lines \ ours :
              \/ l.permanent \/ l.name = "UserAccessLevel"
              \/ l \in r.boot /\ \E i \in sets : c[i].name = l.name
        /\ r.aux1 /\ VerifyAntennaTypes(r.antennas, a)

LEMMA AchievedProven ==
    ASSUME NEW c, NEW a, Listed(c, a), NEW r, Achieved(r, c, a, Len(c) + 1)
    PROVE  ~r.reset /\ ProvenOf(r, c, a)
  <1> DEFINE n == Len(c) + 1
             sets == {i \in DOMAIN c : c[i].verb = "set"}
             ours == {Line(c[i].name, c[i].target) : i \in sets}
  <1>1. DOMAIN c = 1 .. n - 1 /\ n \in Nat /\ n > 3
    BY Kinds
  <1>2. /\ ~r.reset /\ Carried(r, c, n) /\ BentKnown(r, c, n) /\ LinesKnown(r, c, n)
        /\ AntennasKnown(r, c, a, n)
    BY <1>1 DEF Achieved
  <1> HIDE DEF n
  <1>3. ours \subseteq r.lines
    BY <1>1, <1>2 DEF Carried, Sets
  <1>4. \A x \in r.bent : <<x.name, x.field>> \in UncheckedArguments
    <2> SUFFICES ASSUME NEW x \in r.bent  PROVE <<x.name, x.field>> \in UncheckedArguments
      OBVIOUS
    <2>1. PICK i \in 1 .. n - 1 :
             /\ Sets(c, i) /\ x.name = c[i].name /\ x.target = c[i].target
             /\ x.field \in c[i].fields
             /\ i + 1 < n => x.field \notin c[i + 1].fields
      BY <1>2 DEF BentKnown
    <2>2. /\ i + 1 \in DOMAIN c
          /\ \A g \in c[i].fields \ c[i + 1].fields : <<c[i].name, g>> \in UncheckedArguments
      BY <1>1, <2>1 DEF Listed, Paired
    <2>3. i + 1 < n
      BY <1>1, <2>2
    <2> QED  BY <2>1, <2>2, <2>3
  <1>5. Cardinality({i \in sets : c[i].name # "DataInOut"})
           = Cardinality({l \in ours : l.name # "DataInOut"})
    <2> DEFINE S == {i \in DOMAIN c : Sets(c, i) /\ c[i].name # "DataInOut"}
               L == {Line(c[i].name, c[i].target) : i \in S}
    <2>1. S = {i \in sets : c[i].name # "DataInOut"}
      BY DEF Sets
    <2>2. \A i : Line(c[i].name, c[i].target).name = c[i].name
      BY DEF Line
    <2>3. L = {l \in ours : l.name # "DataInOut"}
      BY <2>2 DEF Sets
    <2>4. Cardinality(S) = Cardinality(L)
      <3> HIDE DEF L, S
      <3>1. S = {i \in DOMAIN c : Sets(c, i) /\ c[i].name # "DataInOut"}
            /\ L = {Line(c[i].name, c[i].target) : i \in S}
        BY DEF S, L
      <3> QED  BY <3>1, SettingsCounted
    <2> QED  BY <2>1, <2>3, <2>4
  <1>6. Asked(c, n, "listing")
    BY <1>1 DEF Listed, Asked
  <1>7. \A l \in r.lines \ ours :
           \/ l.permanent \/ l.name = "UserAccessLevel"
           \/ l \in r.boot /\ \E i \in sets : c[i].name = l.name
    <2> SUFFICES ASSUME NEW l \in r.lines \ ours
        PROVE \/ l.permanent \/ l.name = "UserAccessLevel"
              \/ l \in r.boot /\ \E i \in sets : c[i].name = l.name
      OBVIOUS
    <2>1. \/ l.permanent \/ l.name = "UserAccessLevel"
          \/ \E i \in 1 .. n - 1 : Sets(c, i) /\ l = Line(c[i].name, c[i].target)
          \/ l \in r.boot /\ l.name \in DriverCommandWhitelist(c)
      BY <1>2, <1>6 DEF LinesKnown
    <2>2. ~ \E i \in 1 .. n - 1 : Sets(c, i) /\ l = Line(c[i].name, c[i].target)
      BY <1>1 DEF Sets
    <2>3. l.name \in DriverCommandWhitelist(c)
             => l.name = "UserAccessLevel" \/ \E i \in sets : c[i].name = l.name
      BY DEF DriverCommandWhitelist
    <2> QED  BY <2>1, <2>2, <2>3
  <1>8. r.aux1
    BY <1>1, <1>2 DEF AntennasKnown
  <1>9. VerifyAntennaTypes(r.antennas, a)
    <2>1. CASE a.main_type.text = "Unknown" /\ a.aux_type.text = "Unknown"
      BY <2>1 DEF VerifyAntennaTypes
    <2>2. CASE \E k \in DOMAIN c : k > 2 /\ c[k].kind = "antennas"
      <3>1. Asked(c, n, "antennas")
        BY <1>1, <2>2 DEF Asked
      <3> QED  BY <1>2, <3>1 DEF AntennasKnown
    <2> QED  BY <2>1, <2>2 DEF Listed
  <1> QED  BY <1>2, <1>3, <1>4, <1>5, <1>7, <1>8, <1>9 DEF ProvenOf

----------------------------------------------------------------------------
(* The steps that move the configuration on. *)

LEMMA DocumentTyped ==
    ASSUME IInv
    PROVE  /\ TheSettings.sbf_streams
                 \in Seq([id : Int, blocks : SUBSET STRING, interval : STRING, len : Nat])
           /\ TheSettings.nmea_streams
                 \in Seq([id : Int, descriptor : STRING, messages : SUBSET STRING,
                          interval : STRING])
  BY DocumentsAssumption DEF IInv, Types, TheSettings

LEMMA StreamsValid == Loaded => ValidStreams(TheSettings)
  <1>1. \A x : ValidateReceiverSettings(x) => ValidStreams(x)
    BY DEF ValidateReceiverSettings
  <1>2. \A d : LoadAppConfig(d) => ValidateReceiverSettings(Settings(d))
    BY DEF LoadAppConfig
  <1> QED  BY <1>1, <1>2 DEF Loaded, TheSettings

(* A file that loads never makes BuildCommandList throw, whatever proper name
   the connection is given, as long as that name is no longer than the one the
   streams were tried with. *)
LEMMA NeverThrows ==
    ASSUME IInv, Loaded, NEW d \in Descriptors, DescriptorOk(d), d.len <= Placeholder.len
    PROVE  ~BuildThrows(TheSettings, d)
  <1> DEFINE sbf == TheSettings.sbf_streams
             nmea == TheSettings.nmea_streams
  <1>1. /\ \A i \in DOMAIN sbf : SbfStreamOk(sbf[i], Placeholder)
        /\ \A i \in DOMAIN nmea : NmeaStreamOk(nmea[i])
    BY StreamsValid DEF ValidStreams
  <1>2. sbf \in Seq([id : Int, blocks : SUBSET STRING, interval : STRING, len : Nat])
    BY DocumentTyped
  <1>3. d.len \in Nat /\ Placeholder.len = 4
    BY DescriptorsAssumption DEF Placeholder
  <1> HIDE DEF sbf, nmea
  <1>4. ASSUME NEW i \in DOMAIN sbf  PROVE SbfStreamOk(sbf[i], d)
    <2> DEFINE R == [id : Int, blocks : SUBSET STRING, interval : STRING, len : Nat]
    <2>1. sbf \in Seq(R)
      BY <1>2
    <2> HIDE DEF R
    <2>2. sbf[i] \in R
      BY <2>1
    <2>3. sbf[i].len \in Nat
      BY <2>2 DEF R
    <2>4. SbfStreamOk(sbf[i], Placeholder)
      BY <1>1
    <2>5. sbf[i].len + d.len <= kMaxAsciiCommandLength
      BY <1>3, <2>3, <2>4 DEF SbfStreamOk, kMaxAsciiCommandLength
    <2> QED  BY <2>4, <2>5 DEF SbfStreamOk
  <1> QED  BY <1>1, <1>4 DEF BuildThrows, sbf, nmea

LEMMA CommandsListed ==
    ASSUME IInv, Loaded, NEW d
    PROVE  Listed(BuildCommandList(TheSettings, d), TheSettings.antenna)
  BY StreamsValid, DocumentTyped, ListIsListed

(* What is left to show of a step of the connection. *)
LEMMA ConfigMoved ==
    ASSUME ConfigIInv, doc' = doc, qpc = "loop", DOMAIN rcv' = ReceiverFields,
           Negotiated', RecordsProven', ListBuilt'
    PROVE  ConfigIInv'
  <1>1. Loaded' = Loaded /\ Loaded
    BY DEF Loaded, ConfigIInv
  <1> QED  BY <1>1 DEF ConfigIInv

LEMMA NewConnectionDescriptorConfig == IInv /\ ConfigIInv /\ NewConnectionDescriptor => ConfigIInv'
  <1> SUFFICES ASSUME IInv, ConfigIInv, NewConnectionDescriptor  PROVE ConfigIInv'
    OBVIOUS
  <1> DEFINE f(d) == [s EXCEPT !.descriptor = d]
             w(d) == [s EXCEPT !.descriptor = d, !.cmd = 1, !.state = "configuring"]
  <1>1. PICK d \in Descriptors, clean \in BOOLEAN :
           IF BuildThrows(TheSettings, d)
           THEN Handled(FailStartup(f(d), clean), clean, FALSE)
           ELSE Handled(SendCommand(w(d)), clean, FALSE)
    BY DEF NewConnectionDescriptor, Handle, Handled
  <1>2. /\ doc' = doc /\ rcv' = rcv /\ qpc = "loop" /\ s.state = "waitingDescriptor" /\ Loaded
    BY <1>1, RestVarsKept DEF NewConnectionDescriptor, Handled, ConfigIInv
  <1>3. TheSettings' = TheSettings /\ DOMAIN rcv' = ReceiverFields
    BY <1>2 DEF TheSettings, ConfigIInv
  <1>4. s \in SessionType
    BY SessionTyped
  <1>5. CASE BuildThrows(TheSettings, d)
    <2>1. s' = FailStartup(f(d), clean)
      BY <1>1, <1>5 DEF Handled
    <2>2. f(d) \in SessionType /\ f(d).descriptor = d /\ f(d).state = "waitingDescriptor"
      BY <1>2, <1>4 DEF SessionType
    <2> HIDE DEF f
    <2>3. Stays(f(d), s')
      BY <2>1, <2>2, FailStartupStays
    <2>4. /\ s'.descriptor = d /\ s'.state # "configuring"
          /\ s'.state \notin {"warmingUp", "recording"}
      BY <2>2, <2>3 DEF Stays, Running
    <2>5. ~(DescriptorOk(d) /\ d.len <= Placeholder.len)
      BY <1>2, <1>5, NeverThrows
    <2>6. DescriptorOk(d) => d.len > Placeholder.len
      <3>1. d.len \in Nat /\ Placeholder.len = 4
        BY DescriptorsAssumption DEF Placeholder
      <3> QED  BY <2>5, <3>1
    <2>7. Negotiated' /\ RecordsProven' /\ ListBuilt'
      BY <2>4, <2>6 DEF Negotiated, RecordsProven, ListBuilt
    <2> QED  BY <1>2, <1>3, <2>7, ConfigMoved
  <1>6. CASE ~BuildThrows(TheSettings, d)
    <2> DEFINE T == w(d).timers \cup {"command"}
               y == [w(d) EXCEPT !.lst = FALSE, !.timers = T]
    <2>1. /\ w(d) \in SessionType /\ w(d).descriptor = d /\ w(d).state = "configuring"
          /\ w(d).cmd = 1
      BY <1>4 DEF SessionType, States
    <2> HIDE DEF w
    <2>2. s' = y
      BY <1>1, <1>6, <2>1 DEF Handled, SendCommand, SessionType
    <2> HIDE DEF T
    <2>3. s'.state = "configuring" /\ s'.descriptor = d /\ s'.cmd = 1 /\ ~s'.lst
      BY <2>1, <2>2 DEF SessionType
    <2>4. Commands' = BuildCommandList(TheSettings, d)
      BY <1>3, <2>3 DEF Commands
    <2>5. Listed(Commands', TheSettings'.antenna)
      BY <1>2, <1>3, <2>4, CommandsListed
    <2>6. 1 \in 1 .. Len(Commands')
      BY <2>5, Kinds
    <2>7. Achieved(rcv', Commands', TheSettings'.antenna, 1)
      BY DEF Achieved
    <2>8. Negotiated' /\ RecordsProven' /\ ListBuilt'
      BY <2>3, <2>5, <2>6, <2>7 DEF Negotiated, RecordsProven, ListBuilt
    <2> QED  BY <1>2, <1>3, <2>8, ConfigMoved
  <1> QED  BY <1>5, <1>6

LEMMA ListingHeaderConfig == IInv /\ ConfigIInv /\ ListingHeader => ConfigIInv'
  <1> SUFFICES ASSUME IInv, ConfigIInv, ListingHeader  PROVE ConfigIInv'
    OBVIOUS
  <1> DEFINE T == s.timers \cup {"command"}
             y == [s EXCEPT !.lst = TRUE, !.timers = T]
  <1>1. PICK clean \in BOOLEAN : Handled(y, clean, FALSE)
    BY SessionTyped DEF ListingHeader, Handle, Handled, SessionType
  <1>2. /\ doc' = doc /\ rcv' = rcv /\ qpc = "loop" /\ s.state = "configuring"
        /\ Commands[s.cmd].kind \in ListKinds
    BY <1>1, RestVarsKept DEF ListingHeader, Outstanding, Handled
  <1> HIDE DEF T
  <1>3. s'.state = s.state /\ s'.descriptor = s.descriptor /\ s'.cmd = s.cmd
    BY <1>1, SessionTyped DEF Handled, SessionType
  <1>4. Commands' = Commands /\ TheSettings' = TheSettings
    BY <1>2, <1>3 DEF Commands, TheSettings
  <1>5. Negotiated' /\ RecordsProven' /\ ListBuilt'
    BY <1>2, <1>3, <1>4 DEF ConfigIInv, Negotiated, RecordsProven, ListBuilt
  <1> QED  BY <1>2, <1>5, ConfigMoved DEF ConfigIInv

(* An answer to the outstanding command, which left the receiver as it is then. *)
LEMMA AnsweredConfig ==
    ASSUME IInv, ConfigIInv, Outstanding, NEW ok, Answered(ok), doc' = doc,
           DOMAIN rcv' = ReceiverFields,
           ok => Achieved(rcv', Commands, TheSettings.antenna, s.cmd + 1)
    PROVE  ConfigIInv'
  <1> DEFINE x == [s EXCEPT !.timers = @ \ {"command"}]
  <1>1. PICK clean \in BOOLEAN :
           Handled(IF ok THEN NextCommand(x, clean) ELSE HandleFailure(x, clean), clean, FALSE)
    BY DEF Answered, Handle, Handled
  <1>2. /\ Sound(x) /\ x.state = s.state
    BY ExpiredSound DEF IInv
  <1>3. Stays(s, x) /\ s \in SessionType
    BY SessionTyped, ExpiredStays
  <1>4. x.cmd = s.cmd
    BY <1>3 DEF Stays
  <1> HIDE DEF x
  <1>5. /\ s.state = "configuring" /\ s.cmd \in 1 .. Len(Commands)
        /\ Listed(Commands, TheSettings.antenna) /\ qpc = "loop"
    BY <1>1 DEF Outstanding, ConfigIInv, Negotiated, Handled
  <1>6. TheSettings' = TheSettings
    BY DEF TheSettings
  <1>7. Len(Commands) \in Nat /\ Len(Commands) >= 3 /\ s.cmd + 1 \in Nat /\ s.cmd + 1 # 0
    BY <1>5, Kinds
  <1>8. CASE ok
    <2>1. /\ (x.incomplete => s'.incomplete)
          /\ s'.descriptor = x.descriptor /\ s'.cmd = x.cmd + 1
          /\ IF x.cmd + 1 > Len(Commands) THEN s'.state # "configuring"
                                          ELSE s'.state = x.state /\ ~s'.lst
      BY <1>1, <1>3, <1>8, NextCommandFields DEF Handled, Stays
    <2>2. s'.descriptor = s.descriptor /\ s'.cmd = s.cmd + 1
      BY <1>3, <1>4, <2>1 DEF Stays
    <2>3. Commands' = Commands
      BY <1>6, <2>2 DEF Commands
    <2>4. Achieved(rcv', Commands, TheSettings.antenna, s.cmd + 1)
      BY <1>8
    <2>5. CASE s.cmd + 1 > Len(Commands)
      <3>1. s'.state # "configuring" /\ s.cmd + 1 = Len(Commands) + 1
        BY <1>4, <1>5, <1>7, <2>1, <2>5
      <3>2. ~rcv'.reset /\ ProvenOf(rcv', Commands, TheSettings.antenna)
        BY <1>5, <2>4, <3>1, AchievedProven
      <3>3. Proven'
        BY <1>6, <2>3, <3>2 DEF Proven, ProvenOf
      <3>4. Negotiated' /\ RecordsProven' /\ ListBuilt'
        BY <1>7, <2>2, <3>1, <3>2, <3>3 DEF Negotiated, RecordsProven, ListBuilt
      <3> QED  BY <1>5, <3>4, ConfigMoved
    <2>6. CASE ~(s.cmd + 1 > Len(Commands))
      <3>1. s'.state = "configuring" /\ ~s'.lst /\ s.cmd + 1 \in 1 .. Len(Commands)
        BY <1>2, <1>4, <1>5, <1>7, <2>1, <2>6
      <3>2. Negotiated' /\ RecordsProven' /\ ListBuilt'
        BY <1>5, <1>6, <1>7, <2>2, <2>3, <2>4, <3>1 DEF Negotiated, RecordsProven, ListBuilt
      <3> QED  BY <1>5, <3>2, ConfigMoved
    <2> QED  BY <2>5, <2>6
  <1>9. CASE ~ok
    <2>1. s' = HandleFailure(x, clean)
      BY <1>1, <1>9 DEF Handled
    <2>2. s'.state \in {"stopping", "backoff"}
      BY <1>2, <1>5, <2>1, HandleFailureWhole
    <2>3. Stays(x, s')
      BY <1>3, <2>1, HandleFailureStays DEF Stays
    <2>4. s'.cmd = s.cmd /\ s.cmd # 0
      BY <1>4, <1>5, <2>3 DEF Stays
    <2>5. Negotiated' /\ RecordsProven' /\ ListBuilt'
      BY <2>2, <2>4 DEF Negotiated, RecordsProven, ListBuilt
    <2> QED  BY <1>5, <2>5, ConfigMoved
  <1> QED  BY <1>8, <1>9

LEMMA NewCommandReplyConfig == IInv /\ ConfigIInv /\ NewCommandReply => ConfigIInv'
  <1> SUFFICES ASSUME IInv, ConfigIInv, NewCommandReply  PROVE ConfigIInv'
    OBVIOUS
  <1> DEFINE c == Commands
             n == s.cmd
             a == TheSettings.antenna
             ok == AnswerAccepted(rcv, c[n], TheSettings, DriverCommandWhitelist(c))
             obeyed(b) == [Obey(rcv, c[n], b) EXCEPT !.reset = @ /\ c[n].name # "CopyConfigFile"]
  <1>1. PICK bent \in {0} \cup c[n].fields :
           (bent # 0 => c[n].verb = "set") /\ rcv' = obeyed(bent)
    BY DEF NewCommandReply
  <1>2. Answered(ok) /\ Outstanding /\ doc' = doc
    BY DEF NewCommandReply, appRest
  <1>3. /\ n \in 1 .. Len(c) /\ Listed(c, a) /\ Achieved(rcv, c, a, n)
        /\ DOMAIN rcv = ReceiverFields
    BY <1>2 DEF Outstanding, ConfigIInv, Negotiated
  <1>4. DOMAIN rcv' = ReceiverFields
    <2>1. DOMAIN Obey(rcv, c[n], bent) = DOMAIN rcv
      BY DEF Obey
    <2> QED  BY <1>1, <1>3, <2>1
  <1>5. ok => Achieved(rcv', c, a, n + 1)
    <2>1. bent # 0 => Sets(c, n)
      BY <1>1 DEF Sets
    <2> HIDE DEF c, n
    <2>2. SUFFICES ASSUME AnswerAccepted(rcv, c[n], TheSettings, DriverCommandWhitelist(c))
                   PROVE  Achieved(rcv', c, a, n + 1)
      OBVIOUS
    <2> QED  BY <1>1, <1>3, <2>1, <2>2, AchievedNext
  <1> HIDE DEF ok
  <1> QED  BY <1>2, <1>4, <1>5, AnsweredConfig

LEMMA NewPromptConfig == IInv /\ ConfigIInv /\ NewPrompt => ConfigIInv'
  <1> SUFFICES ASSUME IInv, ConfigIInv, NewPrompt  PROVE ConfigIInv'
    OBVIOUS
  <1> DEFINE c == Commands
             n == s.cmd
             a == TheSettings.antenna
             ok == AnswerAccepted(rcv, c[n], TheSettings, DriverCommandWhitelist(c))
  <1>1. Answered(ok) /\ Outstanding /\ doc' = doc /\ rcv' = rcv /\ s.lst
    BY RestVarsKept DEF NewPrompt
  <1>2. /\ n \in 1 .. Len(c) /\ Listed(c, a) /\ Achieved(rcv, c, a, n)
        /\ DOMAIN rcv = ReceiverFields /\ c[n].kind \in ListKinds
    BY <1>1 DEF Outstanding, ConfigIInv, Negotiated
  <1>3. n > 2 /\ ~Sets(c, n)
    <2> HIDE DEF c, n
    <2>1. n \in DOMAIN c /\ c[n].kind # "plain"
      BY <1>2, Kinds DEF ListKinds
    <2>2. ~Sets(c, n)
      BY <1>2, <2>1, Kinds
    <2>3. c[1].kind = "plain" /\ c[2].kind = "plain"
      BY <1>2 DEF Listed
    <2> QED  BY <1>2, <2>1, <2>2, <2>3
  <1>4. ok => Achieved(rcv', c, a, n + 1)
    <2> HIDE DEF c, n
    <2> SUFFICES ASSUME AnswerAccepted(rcv, c[n], TheSettings, DriverCommandWhitelist(c))
                 PROVE  Achieved(rcv, c, a, n + 1)
      BY <1>1
    <2> QED  BY <1>2, <1>3, AchievedAsk
  <1> HIDE DEF ok
  <1> QED  BY <1>1, <1>2, <1>4, AnsweredConfig

LEMMA NewSbfBlockConfig == IInv /\ ConfigIInv /\ NewSbfBlock => ConfigIInv'
  <1> SUFFICES ASSUME IInv, ConfigIInv, NewSbfBlock  PROVE ConfigIInv'
    OBVIOUS
  <1>1. doc' = doc
    BY DEF NewSbfBlock, appRest
  <1>2. CASE /\ s.state \in {"backoff", "stopping"}
             /\ Handle(LAMBDA clean : s, s.state = "backoff")
             /\ UNCHANGED rcv
    <2>1. PICK clean \in BOOLEAN : Handled(s, clean, s.state = "backoff")
      BY <1>2 DEF Handle, Handled
    <2>2. Stays(s, s)
      BY SessionTyped, StaysSame
    <2>3. Quiet
      BY <1>1, <1>2, <2>1, <2>2, HandledStays
    <2> QED  BY <2>3, ConfigKept
  <1>3. ASSUME s.state \notin {"backoff", "stopping"},
               NEW status \in Statuses,
               LET reset == /\ s.state \in {"warmingUp", "recording"}
                            /\ status.up # 0 /\ status.up < s.up
               IN  /\ Handle(LAMBDA clean : OnRecordedBlock(s, status, clean), reset)
                   /\ rcv' = IF reset THEN Rebooted(rcv) ELSE rcv
        PROVE  ConfigIInv'
    <2> DEFINE reset == /\ s.state \in {"warmingUp", "recording"}
                        /\ status.up # 0 /\ status.up < s.up
               y(clean) == OnRecordedBlock(s, status, clean)
    <2>1. PICK clean \in BOOLEAN : Handled(y(clean), clean, reset)
      BY <1>3 DEF Handle, Handled
    <2>2. rcv' = IF reset THEN Rebooted(rcv) ELSE rcv
      BY <1>3
    <2>3. Stays(s, y(clean)) /\ s' = y(clean) /\ qpc = "loop"
      BY <2>1, SessionTyped, OnRecordedBlockStays DEF Handled
    <2>4. CASE ~reset
      <3> HIDE DEF reset, y
      <3>1. Quiet
        BY <1>1, <2>1, <2>2, <2>3, <2>4, HandledStays
      <3> QED  BY <3>1, ConfigKept
    <2>5. CASE reset
      <3>1. Whole(s) /\ s.state # "idle"
        BY <2>3 DEF IInv, QtThreadAt
      <3>2. s'.incomplete
        BY <1>3, <2>3, <2>5, <3>1, OnRecordedBlockWhole
      <3>3. s.state \in Running
        BY <2>5 DEF Running
      <3> HIDE DEF reset, y
      <3>4. s'.state # "configuring" /\ s'.descriptor = s.descriptor /\ s'.cmd = s.cmd
        BY <2>3, <3>3 DEF Stays, Running
      <3>5. rcv' = Rebooted(rcv)
        BY <2>2, <2>5
      <3>6. DOMAIN rcv' = ReceiverFields /\ rcv'.reset
        BY <3>5 DEF Rebooted, ConfigIInv, ReceiverFields
      <3>7. Negotiated' /\ RecordsProven' /\ ListBuilt'
        BY <3>2, <3>4, <3>6 DEF Negotiated, RecordsProven, ListBuilt, ConfigIInv
      <3> QED  BY <1>1, <2>3, <3>6, <3>7, ConfigMoved
    <2> QED  BY <2>4, <2>5
  <1>4. \/ /\ s.state \in {"backoff", "stopping"}
           /\ Handle(LAMBDA clean : s, s.state = "backoff")
           /\ UNCHANGED rcv
        \/ /\ s.state \notin {"backoff", "stopping"}
           /\ \E status \in Statuses :
                 LET reset == /\ s.state \in {"warmingUp", "recording"}
                              /\ status.up # 0 /\ status.up < s.up
                 IN  /\ Handle(LAMBDA clean : OnRecordedBlock(s, status, clean), reset)
                     /\ rcv' = IF reset THEN Rebooted(rcv) ELSE rcv
    BY DEF NewSbfBlock
  <1> QED  BY <1>2, <1>3, <1>4

LEMMA InitConfig == Init => ConfigIInv
  <1> SUFFICES ASSUME Init  PROVE ConfigIInv
    OBVIOUS
  <1>1. s.state = "idle" /\ s.descriptor = NoDescriptor /\ qpc = "none"
    BY DEF Init, NewSession
  <1>2. DOMAIN rcv = ReceiverFields
    BY DEF Init, ReceiverFields
  <1>3. ~DescriptorOk(s.descriptor)
    <2>1. NoDescriptor.len = 0
      BY DEF NoDescriptor
    <2>2. ~(0 > 0)
      OBVIOUS
    <2> QED  BY <1>1, <2>1, <2>2 DEF DescriptorOk
  <1> QED  BY <1>1, <1>2, <1>3 DEF ConfigIInv, Negotiated, RecordsProven, ListBuilt

LEMMA NextConfig == IInv /\ ConfigIInv /\ [Next]_vars => ConfigIInv'
  <1> SUFFICES ASSUME IInv, ConfigIInv, [Next]_vars  PROVE ConfigIInv'
    OBVIOUS
  <1>1. CASE Receiver
    <2>1. CASE \/ NewConnectionDescriptor \/ ListingHeader \/ NewCommandReply
               \/ NewPrompt \/ NewSbfBlock
      BY <2>1, NewConnectionDescriptorConfig, ListingHeaderConfig, NewCommandReplyConfig,
         NewPromptConfig, NewSbfBlockConfig
    <2>2. CASE \/ Connected \/ CommandRejected \/ SbfBlockRefused \/ StreamDamage \/ LinkFailure
      <3>1. Quiet
        BY <2>2, ConnectedQuiet, CommandRejectedQuiet, HandleQueueFailureQuiet,
           StreamDamageQuiet, LinkFailureQuiet DEF SbfBlockRefused
      <3> QED  BY <3>1, ConfigKept
    <2> QED  BY <1>1, <2>1, <2>2 DEF Receiver
  <1>2. CASE Deadlines \/ WriteFailedEvent \/ StopPoll
    <2>1. Quiet
      BY <1>2, DeadlinesQuiet, HandleQueueFailureQuiet, StopPollQuiet DEF WriteFailedEvent
    <2> QED  BY <2>1, ConfigKept
  <1>3. CASE \/ QtThread \/ Coordinator \/ StopRequested
             \/ WriterFails \/ DurationReached \/ Done \/ UNCHANGED vars
    <2>1. Quiet
      BY <1>3, ThreadsQuiet
    <2> QED  BY <2>1, ConfigKept
  <1> QED  BY <1>1, <1>2, <1>3 DEF Next

LEMMA ConfigProven == IInv /\ ConfigIInv => ConfigurationProven
  <1> SUFFICES ASSUME IInv, ConfigIInv  PROVE ConfigurationProven
    OBVIOUS
  <1>1. s.state = "configuring" => s.cmd \in 1 .. Len(Commands)
    BY DEF ConfigIInv, Negotiated
  <1>2. s.state \in {"warmingUp", "recording"} => IF rcv.reset THEN s.incomplete ELSE Proven
    BY DEF ConfigIInv, RecordsProven
  <1>3. DescriptorOk(s.descriptor) /\ s.descriptor.len <= Placeholder.len => s.cmd # 0
    <2> SUFFICES ASSUME DescriptorOk(s.descriptor), s.descriptor.len <= Placeholder.len, s.cmd = 0
                 PROVE  FALSE
      OBVIOUS
    <2>1. s.descriptor.len > Placeholder.len
      BY DEF ConfigIInv, ListBuilt
    <2>2. s.descriptor.len \in Nat /\ Placeholder.len = 4
      <3>1. s.descriptor \in Descriptors \cup {NoDescriptor}
        BY SessionTyped DEF SessionType
      <3>2. NoDescriptor.len = 0
        BY DEF NoDescriptor
      <3>3. Placeholder.len = 4
        BY DEF Placeholder
      <3> QED  BY <3>1, <3>2, <3>3, DescriptorsAssumption
    <2> QED  BY <2>1, <2>2
  <1> QED  BY <1>1, <1>2, <1>3 DEF ConfigurationProven

(* For every file that loads, every receiver and every answer of its: the
   Session waits for readiness and records only over a configuration in which
   each setting was asked back, no other line was left and the antennas are
   known, or, when the receiver was reset meanwhile, over a recording it calls
   incomplete; BuildCommandList throws for no proper connection (Session,
   BuildCommandList, ConfirmsResponse). *)
THEOREM ConfigurationCorrect == Spec => []ConfigurationProven
  <1>1. Init => IInv /\ ConfigIInv
    BY InitIInv, InitConfig
  <1>2. IInv /\ ConfigIInv /\ [Next]_vars => (IInv /\ ConfigIInv)'
    BY NextIInv, NextConfig
  <1>3. IInv /\ ConfigIInv => ConfigurationProven
    BY ConfigProven
  <1> QED  BY <1>1, <1>2, <1>3, PTL DEF Spec

=============================================================================
