--------------------------- MODULE CameraProfiles ---------------------------
(***************************************************************************)
(* The two camera profiles behind the hooks of the eBUS engine: GoX        *)
(* (ebus_driver/src/gox_config.cpp over gox_driver) and FX10               *)
(* (ebus_driver/src/fx10_config.cpp over fx10_driver).  The engine calls   *)
(* prepare, configure_stream, configure, metadata, before_start and then   *)
(* sample at the start of the capture, periodically, and after its end     *)
(* (module EbusCamera, where these calls may fail at will).                *)
(*                                                                         *)
(* One thread runs all of it; what interleaves is the camera: its          *)
(* registers, its PTP servo, its trigger counter, and the operator's stop. *)
(* A register is a node of the GenICam map; nodes that the plans write     *)
(* and nothing reads again are represented by one of their group.  A fault *)
(* is an SDK call that does not do what it was asked.                      *)
(***************************************************************************)
EXTENDS Integers, Sequences

CONSTANTS
    Configs,     \* accepted camera configurations, records of ConfigType
    Sensor,      \* width of the sensor, scaled
    CounterMax,  \* largest value of the camera's counter, scaled
    MaxFaults    \* bound: SDK calls that go wrong

Null == -1       \* std::nullopt
Negative == -2   \* a counter that reads below zero
HealthRetries == 3

WriteKinds == {"int", "float", "bool", "enum", "string", "command"}
Native == [gox |-> "BayerRG12Packed", fx10 |-> "Mono12Packed"]

FeatureWrite(n, v, k, strict, required) ==
    [node |-> n, value |-> v, kind |-> k, strict |-> strict, required |-> required]
Must(n, v, k) == FeatureWrite(n, v, k, TRUE, TRUE)
Bonus(n, v, k) == FeatureWrite(n, v, k, TRUE, FALSE)
RawFeature(n, v, k) == FeatureWrite(n, v, k, FALSE, TRUE)

(* features.raw of the configurations: nothing, or what an operator may put
   into the escape hatch that runs after everything else. *)
RawLists == {<< >>,
             << RawFeature("PixelFormat", "Mono8", "enum") >>,
             << RawFeature("UserSetLoad", "", "command") >>,
             << RawFeature("CounterSelector", "1", "enum") >>,
             << RawFeature("GainSelector", "1", "enum"),
                RawFeature("Untouched", "raw", "float") >>,
             << RawFeature("LineSource", "Strobe", "enum") >>,
             << RawFeature("LineSelector", "Line1", "enum"),
                RawFeature("LineSource", "Strobe", "enum") >>}

ConfigType == [kind: {"gox", "fx10"}, external: BOOLEAN, sync: BOOLEAN,
               width: 0 .. Sensor, offset: 0 .. Sensor,
               ptp: {"off", "abort", "warn_continue"},
               mroi: BOOLEAN, pulseWidth: BOOLEAN, dark: BOOLEAN, raw: RawLists]
ASSUME ConfigsAssumption == Configs \subseteq ConfigType
ASSUME CounterAssumption == CounterMax \in Nat \ {0} /\ Sensor \in Nat \ {0} /\ MaxFaults \in Nat

----------------------------------------------------------------------------
(* The apply plans. *)

When(b, s) == IF b THEN s ELSE << >>

(* Mutant: the window is moved before it is made smaller. *)
GoxPlanOffsetFirst(c) ==
    << Must("ExtendedId", "On", "enum"), Must("Digitization", "12", "enum") >>
    \o When(c.offset # 0, << Must("OffsetX", c.offset, "int") >>)
    \o When(c.width # 0, << Must("Width", c.width, "int") >>)
    \o << Must("PixelFormat", Native.gox, "enum") >> \o c.raw

(* BuildApplyPlan of the GO-X: size before offset, pixel format after the
   digitisation depth, rate before exposure (a rate only without an external
   trigger), selector before mode, the optional counter binding after the
   trigger, features.raw last. *)
GoxPlan(c) ==
    << Must("ExtendedId", "On", "enum"), Must("Digitization", "12", "enum") >>
    \o When(c.width # 0, << Must("Width", c.width, "int") >>)
    \o When(c.offset # 0, << Must("OffsetX", c.offset, "int") >>)
    \o << Must("PixelFormat", Native.gox, "enum") >>
    \o When(~c.external, << Must("FrameRate", "set", "float") >>)
    \o << Must("ExposureTime", "set", "float") >>
    \o When(c.external,
            << Must("TriggerSelector", "FrameStart", "enum"),
               Must("TriggerSource", "Line5", "enum"), Must("TriggerMode", "On", "enum"),
               Bonus("CounterSelector", "0", "enum"),
               Bonus("CounterSource", "FrameTrigger", "enum") >>)
    \o << Must("LineSelector", "Line2", "enum"), Must("LineSource", "Exposure", "enum") >>
    \o c.raw

(* BuildApplyPlan of the FX10: binning before the format, the MROI regions
   behind their index and "off" asserted, exposure mode before exposure time
   (none under pulse-width control), the rate in the free-running branch. *)
Fx10Plan(c) ==
    << Must("Binning", "1", "int"), Must("PixelFormat", Native.fx10, "enum") >>
    \o When(c.mroi, << Must("MroiIndex", "0", "int"), Must("MroiRegion", "set", "int") >>)
    \o << Must("MroiEnable", IF c.mroi THEN "true" ELSE "false", "bool"),
          Must("StatusLine", "set", "bool"),
          Must("ExposureMode", IF c.pulseWidth THEN "TriggerControlled" ELSE "Timed", "enum") >>
    \o When(~c.pulseWidth, << Must("ExposureTime", "set", "float") >>)
    \o << Must("TriggerSelector", "FrameStart", "enum") >>
    \o (IF c.external
        THEN << Must("TriggerSource", "Line5", "enum"), Must("TriggerMode", "On", "enum"),
                Must("FrameRateEnable", "false", "bool"),
                Bonus("CounterSource", "MissedTrigger", "enum"),
                Bonus("CounterReset", "", "command") >>
        ELSE << Must("TriggerMode", "Off", "enum"), Must("FrameRateEnable", "true", "bool"),
                Must("FrameRate", "set", "float") >>)
    \o c.raw

Plan(c) == IF c.kind = "gox" THEN GoxPlan(c) ELSE Fx10Plan(c)

Nodes == {"ExtendedId", "Digitization", "Width", "OffsetX", "PixelFormat", "FrameRate",
          "FrameRateEnable", "ExposureTime", "ExposureMode", "TriggerSelector",
          "TriggerSource", "TriggerMode", "CounterSelector", "CounterSource",
          "LineSelector", "LineSource", "GainSelector", "PtpEnable", "Binning",
          "MroiIndex", "MroiRegion", "MroiEnable", "StatusLine", "Untouched"}

(* What the factory set holds and what the last session left behind. *)
Factory == [n \in Nodes |-> CASE n = "Width" -> Sensor
                              [] n = "OffsetX" -> 0
                              [] n = "ExposureMode" -> "Timed"
                              [] n = "TriggerMode" -> "Off"
                              [] n \in {"GainSelector", "CounterSelector"} -> "0"
                              [] OTHER -> "factory"]
Leftover == [n \in Nodes |-> CASE n = "Width" -> 1
                               [] n = "OffsetX" -> Sensor - 1
                               [] n = "TriggerMode" -> "On"
                               [] n = "ExposureMode" -> "TriggerControlled"
                               [] OTHER -> "left"]

(* How the camera answers a write when nothing goes wrong.  The FX10's rate is
   first brought into the range its node reports. *)
Natural(r, w) ==
    CASE w.node = "Width" /\ w.value + r["OffsetX"] > Sensor -> "clamped"
      [] w.node = "OffsetX" /\ w.value + r["Width"] > Sensor -> "clamped"
      [] w.node = "ExposureTime" /\ r["ExposureMode"] = "TriggerControlled" -> "refused"
      [] w.node = "FrameRate" /\ r["TriggerMode"] = "On" -> "refused"
      [] OTHER -> "exact"

(* Whether apply_genicam_feature and ApplyWrite take the answer for done: the
   value is read back, and a clamp is accepted for a number outside strict. *)
Verified(w, reply) ==
    \/ reply = "exact"
    \/ reply = "clamped" /\ ~w.strict /\ w.kind \in {"int", "float"}

(* What the write leaves in the camera; an unconfirmed one has taken effect. *)
Written(r, w, reply) ==
    IF w.node = "UserSetLoad" /\ reply \in {"exact", "unconfirmed"} THEN Factory
    ELSE IF w.node \notin Nodes \/ reply \in {"refused", "absent"} THEN r
    ELSE [r EXCEPT ![w.node] = IF reply # "clamped" THEN w.value
                               ELSE IF w.node = "Width" THEN Sensor - r["OffsetX"]
                               ELSE IF w.node = "OffsetX" THEN Sensor - r["Width"]
                               ELSE "clamped"]

----------------------------------------------------------------------------
VARIABLES
    cfg,         \* the configuration of this camera
    pc, round,   \* where the hooks are; which factory command of the FX10
    at,          \* the entry of the plan to be written next
    phase,       \* which sample: "baseline", "capture" or "stop"
    attempt,     \* re-checks of the PTP status made by CheckHealth
    stop,        \* the stop predicate of the engine
    failed, why, \* the driver has failed, and the first reason
    faults,
    comm,        \* AnswerTimeout and DisconnectOnAnyTimeout
    applied,     \* the read-backs of device.json, in plan order
    synced,      \* PtpManager::synchronized_
    audit,       \* outcome of the raw audit
    bound, resetDone, baseline, previous, flags,   \* the counter of the session
    sample,      \* what the current sample has read
    triggered,   \* triggered_frames of the last sample
    shutter,     \* the pulses sent to the shutter
    reg, ready, acquiring, clock, count, overflow, \* the camera
    since, sinceRead   \* history: triggers since the baseline, and at the last read

hookVars == <<pc, round, at, phase, attempt>>
verdictVars == <<stop, failed, why>>
reportVars == <<applied, synced, audit, shutter>>
counterVars == <<bound, resetDone, baseline, previous, flags, sample, triggered>>
deviceVars == <<reg, ready, acquiring, clock>>
triggerVars == <<count, overflow, since>>
vars == <<cfg, hookVars, verdictVars, faults, comm, reportVars, counterVars,
          deviceVars, triggerVars, sinceRead>>

NoSample == [binding |-> FALSE, input |-> FALSE, value |-> Null,
             statusRead |-> FALSE, overflow |-> FALSE]

Gox == cfg.kind = "gox"

PCs == {"begin", "timeouts", "command", "await", "confirm", "ptpOff", "ptpOn", "lock",
        "stream", "configure", "apply", "verify", "report", "home", "ready",
        "beforeStart", "pulse", "start", "health", "temperature", "binding", "value",
        "status", "conclude", "capture", "stopSource", "over"}
Flags == {"binding_lost", "status_unavailable", "input_unverified", "value_unavailable",
          "negative", "regressed", "overflow"}
Counts == -2 .. CounterMax

(* The values the variables of the profiles may take. *)
TypeOK ==
    /\ cfg \in Configs /\ pc \in PCs /\ round \in 1 .. 2
    /\ at \in 1 .. Len(Plan(cfg)) + 1 /\ phase \in {"baseline", "capture", "stop"}
    /\ attempt \in 0 .. HealthRetries
    /\ stop \in BOOLEAN /\ failed \in BOOLEAN /\ faults \in 0 .. MaxFaults
    /\ why \in {"none", "stop", "device", "refused", "config", "clock", "counter"}
    /\ comm \in {"normal", "raised", "stuck"} /\ synced \in BOOLEAN
    /\ audit \in {"none", "match", "deviates", "unreadable"}
    /\ bound \in BOOLEAN /\ resetDone \in BOOLEAN /\ flags \subseteq Flags
    /\ baseline \in Counts /\ previous \in Counts /\ triggered \in Counts
    /\ DOMAIN reg = Nodes /\ ready \in BOOLEAN /\ acquiring \in BOOLEAN
    /\ clock \in {"slave", "master", "faulty", "listening"}
    /\ count \in 0 .. CounterMax /\ overflow \in BOOLEAN

(* A session that died in mid-stream leaves the camera acquiring, and its
   registers, its counter and its clock where they were. *)
Init ==
    /\ cfg \in Configs
    /\ pc = "begin" /\ round = 1 /\ at = 1 /\ phase = "baseline" /\ attempt = 0
    /\ stop = FALSE /\ failed = FALSE /\ why = "none" /\ faults = 0
    /\ comm = "normal" /\ applied = << >> /\ synced = FALSE /\ audit = "none"
    /\ bound = FALSE /\ resetDone = FALSE /\ baseline = Null /\ previous = Null
    /\ flags = {} /\ sample = NoSample /\ triggered = Null /\ shutter = << >>
    /\ reg = Leftover /\ ready = TRUE /\ acquiring \in BOOLEAN /\ clock = "listening"
    /\ count \in {0, 1} /\ overflow = FALSE /\ since = 0 /\ sinceRead = 0

----------------------------------------------------------------------------
(* Steps of the hooks. *)

Goto(next) == pc' = next /\ UNCHANGED verdictVars

(* The engine catches what a hook throws and calls Fail, which latches stop. *)
Throw(reason) ==
    /\ pc' = "over" /\ failed' = TRUE /\ stop' = TRUE
    /\ why' = IF failed THEN why ELSE reason

(* The engine's own CheckStop ends the preparation without a failure. *)
Interrupted == pc' = "over" /\ stop' = TRUE /\ UNCHANGED <<failed, why>>

Fault == faults < MaxFaults /\ faults' = faults + 1
NoFault == UNCHANGED faults

(* CheckStop of the profiles: a std::runtime_error like any other. *)
UnlessStopped(next) == IF stop THEN Throw("stop") ELSE Goto(next)

(* An SDK call of the factory load goes wrong; the FX10 asks about a stop before
   it lets the error out. *)
Broken == Throw(IF ~Gox /\ stop THEN "stop" ELSE "device")

(* The entry of LoadFactoryDefaults and, for each of its two commands, of
   PrepareFactoryDefaults: a node is missing, or acquisition is stopped, which
   may be refused without consequence. *)
FactoryBegin ==
    /\ pc = "begin"
    /\ \/ NoFault /\ UnlessStopped("timeouts") /\ acquiring' = (acquiring /\ stop)
       \/ ~stop /\ Fault /\ (Throw("device") \/ Goto("timeouts")) /\ UNCHANGED acquiring
    /\ UNCHANGED <<cfg, round, at, phase, attempt, comm, reportVars, counterVars,
                   reg, ready, clock, triggerVars, sinceRead>>

(* CommandTimeoutGuard raises the time-outs and writes back what it found.  A
   write that fails at the end is only warned about, and the next guard then
   finds the raised values and leaves them. *)
Restored == IF comm = "stuck" THEN "stuck" ELSE "normal"
RestoreTimeouts ==
    \/ NoFault /\ comm' = Restored
    \/ Fault /\ comm' = "stuck"

RaiseTimeouts ==
    /\ pc = "timeouts"
    /\ \/ NoFault /\ Goto("command")
          /\ comm' = IF comm = "stuck" THEN "stuck" ELSE "raised"
       \/ Fault /\ UNCHANGED comm /\ Broken
    /\ UNCHANGED <<cfg, round, at, phase, attempt, reportVars, counterVars,
                   deviceVars, triggerVars, sinceRead>>

(* UserSetLoad, or CameraHeadFactoryReset and then UserSetLoad: sent once.  The
   camera refuses it while it acquires.  It is busy for a while afterwards, and
   what is sent to it then is lost.  The FX10 restores the time-outs at once,
   the GoX when the load is confirmed; both when the command fails. *)
FactoryCommand ==
    /\ pc = "command"
    /\ \/ /\ ~acquiring /\ Goto("await")
          /\ IF Gox THEN NoFault /\ UNCHANGED comm ELSE RestoreTimeouts
          /\ reg' = IF ready /\ (Gox \/ round = 2) THEN Factory ELSE reg
          /\ ready' = FALSE
       \/ /\ acquiring /\ RestoreTimeouts /\ Broken
          /\ UNCHANGED <<reg, ready>>
       \/ /\ Fault /\ Broken /\ comm' \in {Restored, "stuck"}
          /\ reg' \in {reg, Factory} /\ ready' \in BOOLEAN
    /\ UNCHANGED <<cfg, round, at, phase, attempt, reportVars, counterVars,
                   acquiring, clock, triggerVars, sinceRead>>

(* The GoX polls IsDone up to a deadline of 15 s; a camera that does not support
   it counts as done. *)
WaitCommandDone ==
    /\ pc = "await" /\ Gox
    /\ \/ stop /\ RestoreTimeouts /\ Throw("stop")
       \/ ~stop /\ ~ready /\ RestoreTimeouts /\ Throw("device")
       \/ ~stop /\ (IF ready THEN NoFault ELSE Fault) /\ UNCHANGED comm /\ Goto("confirm")
    /\ UNCHANGED <<cfg, round, at, phase, attempt, reportVars, counterVars, deviceVars,
                   triggerVars, sinceRead>>

(* The FX10 polls fresh read-backs of the geometry, with the same deadline, after
   each of its two commands; a lost control link is fatal. *)
AwaitControlReady ==
    /\ pc = "await" /\ ~Gox
    /\ \/ stop /\ NoFault /\ Throw("stop") /\ UNCHANGED round
       \/ ~stop /\ (NoFault \/ Fault) /\ Throw("device") /\ UNCHANGED round
       \/ /\ ~stop /\ ready /\ NoFault /\ round' = 2
          /\ Goto(IF round = 1 THEN "begin" ELSE "stream")
    /\ UNCHANGED <<cfg, at, phase, attempt, comm, reportVars, counterVars, deviceVars,
                   triggerVars, sinceRead>>

(* The end of LoadFactoryDefaults: cache invalidated, selector read back. *)
ConfirmLoad ==
    /\ pc = "confirm"
    /\ \/ RestoreTimeouts /\ IF cfg.ptp = "off" THEN UnlessStopped("stream") ELSE Goto("ptpOff")
       \/ Fault /\ comm' \in {Restored, "stuck"} /\ Throw("device")
    /\ UNCHANGED <<cfg, round, at, phase, attempt, reportVars, counterVars, deviceVars,
                   triggerVars, sinceRead>>

(* on_timeout decides what a missing synchronisation means. *)
Degrade == IF cfg.ptp = "abort" THEN Throw("clock") ELSE UnlessStopped("stream")

(* PtpManager::Enable: GevIEEE1588 is written false, then true, each verified. *)
PtpWrite(here, value, next) ==
    /\ pc = here
    /\ \/ /\ NoFault /\ Goto(next)
          /\ reg' = [reg EXCEPT !["PtpEnable"] = value] /\ clock' = "listening"
       \/ /\ Fault /\ Degrade
          /\ reg' \in {reg, [reg EXCEPT !["PtpEnable"] = value]} /\ UNCHANGED clock
    /\ UNCHANGED <<cfg, round, at, phase, attempt, comm, reportVars, counterVars,
                   ready, acquiring, triggerVars, sinceRead>>
PtpDisable == PtpWrite("ptpOff", "false", "ptpOn")
PtpEnable == PtpWrite("ptpOn", "true", "lock")

(* WaitForSync: a poll finds the servo locked, or in a state it will not leave;
   otherwise it goes on until the budget is spent. *)
WaitForSync ==
    /\ pc = "lock" /\ NoFault
    /\ \/ stop /\ Throw("stop") /\ UNCHANGED synced
       \/ ~stop /\ clock = "slave" /\ synced' = TRUE /\ Goto("stream")
       \/ ~stop /\ clock # "slave" /\ UNCHANGED synced /\ Degrade
    /\ UNCHANGED <<cfg, round, at, phase, attempt, comm, applied, audit, shutter,
                   counterVars, deviceVars, triggerVars, sinceRead>>

(* OpenStream with configure_stream (receiver_tuning), then configure. *)
ConfigureStream ==
    /\ pc = "stream"
    /\ \/ stop /\ NoFault /\ Interrupted
       \/ ~stop /\ NoFault /\ Goto("configure")
       \/ ~stop /\ Fault /\ Throw("device")
    /\ UNCHANGED <<cfg, round, at, phase, attempt, comm, reportVars, counterVars,
                   deviceVars, triggerVars, sinceRead>>

BeginConfigure ==
    /\ pc = "configure" /\ NoFault /\ UnlessStopped("apply")
    /\ UNCHANGED <<cfg, round, at, phase, attempt, comm, reportVars, counterVars,
                   deviceVars, triggerVars, sinceRead>>

(* A LineSource for a line nobody selected: the FX10 refuses to guess. *)
BlindLineSource ==
    /\ ~Gox /\ Plan(cfg)[at].node = "LineSource"
    /\ ~ \E i \in 1 .. at - 1 : Plan(cfg)[i].node = "LineSelector" /\ applied[i] = "done"

(* One round of ApplyConfig or ApplyAcquisitionConfig. *)
ApplyFeature ==
    /\ pc = "apply" /\ at <= Len(Plan(cfg))
    /\ LET w == Plan(cfg)[at] IN
       \E reply \in {Natural(reg, w), "refused", "unconfirmed", "clamped", "absent"} :
          /\ IF reply = Natural(reg, w) THEN NoFault ELSE Fault
          /\ IF BlindLineSource THEN UNCHANGED reg ELSE reg' = Written(reg, w, reply)
          /\ \/ /\ ~BlindLineSource /\ (Verified(w, reply) \/ ~w.required)
                /\ applied' = Append(applied, IF Verified(w, reply) THEN "done" ELSE "skipped")
                /\ at' = at + 1 /\ Goto("apply")
             \/ /\ BlindLineSource /\ Throw("config") /\ UNCHANGED <<applied, at>>
             \/ /\ ~BlindLineSource /\ ~Verified(w, reply) /\ w.required
                /\ Throw(IF reply = Natural(reg, w) THEN "refused" ELSE "device")
                /\ UNCHANGED <<applied, at>>
          /\ count' = IF w.node = "CounterReset" /\ reply \in {"exact", "unconfirmed"}
                      THEN 0 ELSE count
    /\ UNCHANGED <<cfg, round, phase, attempt, comm, synced, audit, shutter,
                   counterVars, ready, acquiring, clock, overflow, since, sinceRead>>

(* The registers the recording relies on, read again after features.raw. *)
GoxContract ==
    /\ reg["ExtendedId"] = "On" /\ reg["PixelFormat"] = Native.gox
    /\ reg["Digitization"] = "12"
Fx10Contract ==
    /\ reg["PixelFormat"] = Native.fx10 /\ reg["Binning"] = "1" /\ reg["StatusLine"] = "set"
    /\ reg["MroiEnable"] = IF cfg.mroi THEN "true" ELSE "false"
Contract == IF Gox THEN GoxContract ELSE Fx10Contract

(* TriggerCounterBound, and the source of the FX10's missed-trigger counter. *)
TriggerCounterBound == reg["CounterSelector"] = "0" /\ reg["CounterSource"] = "FrameTrigger"
MissedTriggerBound == reg["CounterSource"] = "MissedTrigger"
CounterBound == IF Gox THEN TriggerCounterBound ELSE MissedTriggerBound

(* Mutant: features.raw is trusted. *)
VerifyContractTrusting ==
    /\ pc = "verify" /\ NoFault /\ bound' = CounterBound /\ UnlessStopped("report")
    /\ UNCHANGED <<cfg, round, at, phase, attempt, comm, reportVars, resetDone, baseline,
                   previous, flags, sample, triggered, deviceVars, triggerVars, sinceRead>>

VerifyContract ==
    /\ pc = "verify"
    /\ \/ /\ NoFault /\ bound' = (Contract /\ CounterBound)
          /\ IF ~Contract THEN Throw("config") ELSE UnlessStopped("report")
       \/ Fault /\ bound' = FALSE /\ (Throw("device") \/ (Contract /\ UnlessStopped("report")))
    /\ UNCHANGED <<cfg, round, at, phase, attempt, comm, reportVars, resetDone, baseline,
                   previous, flags, sample, triggered, deviceVars, triggerVars, sinceRead>>

ApplyDone ==
    /\ pc = "apply" /\ at > Len(Plan(cfg)) /\ NoFault /\ Goto("verify")
    /\ UNCHANGED <<cfg, round, at, phase, attempt, comm, reportVars, counterVars,
                   deviceVars, triggerVars, sinceRead>>

(* The tables of device_json.cpp: the features the driver never writes, with
   their factory value, and the entry each selector is put back to. *)
RawAuditExpectations == [Untouched |-> "factory"]
SelectorHomeEntries == [GainSelector |-> "0"]
SelectorAuditExpectations == [GainSelector |-> "1"]

(* The registers with the selectors at these entries. *)
Selected(entries) ==
    [n \in DOMAIN reg |-> IF n \in DOMAIN entries THEN entries[n] ELSE reg[n]]

ClassifyAudit(value, expected, readable) ==
    IF ~readable THEN "unreadable" ELSE IF value = expected THEN "match" ELSE "deviates"

(* CollectDeviceReport: features the driver never writes are compared with the
   factory value; selector-scoped ones are read with the selector moved. *)
RawAudit ==
    /\ pc = "report"
    /\ \/ /\ stop /\ NoFault /\ Interrupted /\ UNCHANGED <<reg, audit>>
       \/ /\ ~stop /\ Gox /\ Goto("home")
          /\ LET moved == Selected(SelectorAuditExpectations) IN
             \/ NoFault /\ reg' = moved
             \/ Fault /\ reg' \in {reg, moved}
          /\ audit' = ClassifyAudit(reg["Untouched"], RawAuditExpectations.Untouched,
                                    faults' = faults)
       \/ /\ ~stop /\ ~Gox /\ NoFault /\ Goto("ready") /\ UNCHANGED <<reg, audit>>
    /\ UNCHANGED <<cfg, round, at, phase, attempt, comm, applied, synced, shutter,
                   counterVars, ready, acquiring, clock, triggerVars, sinceRead>>

(* SelectorHomeEntries: restored and read back, or the metadata hook throws. *)
SelectorsHome ==
    /\ pc = "home"
    /\ \/ NoFault /\ Goto("ready") /\ reg' = Selected(SelectorHomeEntries)
       \/ Fault /\ Throw("device") /\ UNCHANGED reg
    /\ UNCHANGED <<cfg, round, at, phase, attempt, comm, reportVars, counterVars,
                   ready, acquiring, clock, triggerVars, sinceRead>>

(* Between Init and before_start the engine looks at the stop predicate. *)
EngineReady ==
    /\ pc = "ready" /\ NoFault
    /\ IF stop THEN Interrupted ELSE Goto("beforeStart")
    /\ UNCHANGED <<cfg, round, at, phase, attempt, comm, reportVars, counterVars,
                   deviceVars, triggerVars, sinceRead>>

(* before_start of the GoX: the counter is reset, then sampled once. *)
ResetTriggerCounter ==
    /\ pc = "beforeStart" /\ Gox
    /\ \/ /\ NoFault /\ UnlessStopped("temperature")
          /\ resetDone' = (~stop /\ bound /\ CounterBound)
          /\ count' = IF resetDone' THEN 0 ELSE count
          /\ overflow' = (overflow /\ ~resetDone')
       \/ /\ ~stop /\ Fault /\ Goto("temperature") /\ resetDone' = FALSE
          /\ count' \in {0, count} /\ UNCHANGED overflow
    /\ UNCHANGED <<cfg, round, at, phase, attempt, comm, reportVars, bound, baseline,
                   previous, flags, sample, triggered, deviceVars, since, sinceRead>>

(* before_start of the FX10: WriteShutterPulse checks the stop predicate and
   the node, writes once, and checks again; a failed write is not repeated. *)
ShutterPulse ==
    /\ pc = "beforeStart" /\ ~Gox
    /\ LET pulse == Append(shutter, IF cfg.dark THEN "close" ELSE "open") IN
       \/ NoFault /\ shutter' = (IF stop THEN shutter ELSE pulse) /\ UnlessStopped("pulse")
       \/ ~stop /\ Fault /\ shutter' \in {shutter, pulse} /\ Throw("device")
    /\ UNCHANGED <<cfg, round, at, phase, attempt, comm, applied, synced, audit,
                   counterVars, deviceVars, triggerVars, sinceRead>>

MissedBaseline ==
    /\ pc = "pulse" /\ UnlessStopped("start")
    /\ \/ NoFault /\ baseline' = count
       \/ Fault /\ baseline' \in {Null, Negative}
    /\ previous' = baseline'
    /\ UNCHANGED <<cfg, round, at, phase, attempt, comm, reportVars, bound, resetDone,
                   flags, sample, triggered, deviceVars, triggerVars, sinceRead>>

(* The engine starts the acquisition and takes the first sample. *)
StartCapture ==
    /\ pc = "start"
    /\ \/ stop /\ NoFault /\ Interrupted /\ UNCHANGED <<acquiring, phase>>
       \/ ~stop /\ NoFault /\ Goto("health") /\ acquiring' = TRUE /\ phase' = "capture"
       \/ ~stop /\ Fault /\ Throw("device") /\ acquiring' \in BOOLEAN /\ UNCHANGED phase
    /\ UNCHANGED <<cfg, round, at, attempt, comm, reportVars, counterVars, reg, ready,
                   clock, triggerVars, sinceRead>>

----------------------------------------------------------------------------
(* The sample hook. *)

(* Fail from a sample: the capture goes on to its orderly end. *)
SampleFails(reason) ==
    /\ failed' = TRUE /\ stop' = TRUE /\ why' = IF failed THEN why ELSE reason

(* Mutant: every re-check starts the count again. *)
CheckHealthForever ==
    /\ pc = "health" /\ NoFault /\ UNCHANGED attempt
    /\ Goto(IF Gox /\ synced /\ clock # "slave" /\ ~stop THEN "health" ELSE "temperature")
    /\ UNCHANGED <<cfg, round, at, phase, comm, reportVars, counterVars, deviceVars,
                   triggerVars, sinceRead>>

(* CheckHealth: a bad status is looked at again up to three times, one second
   apart; a stop during the wait ends the check without a verdict. *)
CheckHealth ==
    /\ pc = "health"
    /\ LET good == ~Gox \/ ~synced \/ (clock = "slave" /\ faults' = faults) IN
       /\ IF clock = "slave" /\ Gox /\ synced THEN NoFault \/ Fault ELSE NoFault
       /\ \/ good /\ Goto("temperature") /\ attempt' = 0
          \/ ~good /\ attempt < HealthRetries /\ ~stop
             /\ attempt' = attempt + 1 /\ Goto("health")
          \/ ~good /\ attempt < HealthRetries /\ stop /\ attempt' = 0 /\ Goto("temperature")
          \/ ~good /\ attempt = HealthRetries /\ attempt' = 0
             /\ SampleFails("clock") /\ pc' = "temperature"
    /\ UNCHANGED <<cfg, round, at, phase, comm, reportVars, counterVars, deviceVars,
                   triggerVars, sinceRead>>

(* The temperatures of SampleTelemetry; nothing of the capture depends on them. *)
ReadTemperatures ==
    /\ pc = "temperature" /\ NoFault /\ sample' = NoSample
    /\ Goto(IF ~Gox THEN "value" ELSE IF bound THEN "binding" ELSE "conclude")
    /\ UNCHANGED <<cfg, round, at, phase, attempt, comm, reportVars, bound, resetDone,
                   baseline, previous, flags, triggered, deviceVars, triggerVars, sinceRead>>

(* trig_binding_verified and trig_input_verified. *)
ReadBinding ==
    /\ pc = "binding" /\ Goto("value")
    /\ \/ /\ NoFault
          /\ sample' = [sample EXCEPT !.binding = CounterBound,
                                      !.input = /\ reg["TriggerSelector"] = "FrameStart"
                                                /\ reg["TriggerMode"] = "On"
                                                /\ reg["TriggerSource"] = "Line5"]
       \/ Fault /\ sample' \in {[sample EXCEPT !.binding = CounterBound], sample}
    /\ UNCHANGED <<cfg, round, at, phase, attempt, comm, reportVars, bound, resetDone,
                   baseline, previous, flags, triggered, deviceVars, triggerVars, sinceRead>>

(* CounterValue is read when the binding was seen, CounterStatus after it. *)
ReadValue ==
    /\ pc = "value" /\ Goto(IF Gox THEN "status" ELSE "conclude")
    /\ LET asked == sample.binding \/ ~Gox IN
       \/ NoFault /\ sample' = [sample EXCEPT !.value = IF asked THEN count ELSE Null]
       \/ asked /\ Fault /\ \E v \in {Null, Negative} : sample' = [sample EXCEPT !.value = v]
    /\ sinceRead' = IF sample'.value >= 0 THEN since ELSE sinceRead
    /\ UNCHANGED <<cfg, round, at, phase, attempt, comm, reportVars, bound, resetDone,
                   baseline, previous, flags, triggered, deviceVars, triggerVars>>

ReadStatus ==
    /\ pc = "status" /\ Goto("conclude")
    /\ \/ /\ NoFault
          /\ sample' = [sample EXCEPT !.statusRead = sample.binding,
                                      !.overflow = sample.binding /\ overflow]
       \/ sample.binding /\ Fault /\ UNCHANGED sample
    /\ UNCHANGED <<cfg, round, at, phase, attempt, comm, reportVars, bound, resetDone,
                   baseline, previous, flags, triggered, deviceVars, triggerVars, sinceRead>>

(* Mutant: CounterStatus is read and not looked at. *)
RaisedNoOverflow(b, s) ==
    {f \in Flags : \/ f = "binding_lost" /\ b /\ ~s.binding
                   \/ f = "status_unavailable" /\ ~s.statusRead
                   \/ f = "input_unverified" /\ ~s.input
                   \/ f = "value_unavailable" /\ s.value = Null
                   \/ f = "negative" /\ s.value = Negative}

(* The flags a reading of the GO-X adds to those of the session. *)
Raised(b, s) ==
    {f \in Flags : \/ f = "binding_lost" /\ b /\ ~s.binding
                   \/ f = "status_unavailable" /\ ~s.statusRead
                   \/ f = "input_unverified" /\ ~s.input
                   \/ f = "value_unavailable" /\ s.value = Null
                   \/ f = "negative" /\ s.value = Negative
                   \/ f = "overflow" /\ s.overflow}

(* previous is moved by every value read. *)
Regressed == previous # Null /\ sample.value # Null /\ sample.value < previous
Fx10Regressed == sample.value # Null /\ (sample.value < 0 \/ Regressed)

(* No reason is left not to know the number of triggers. *)
Known(f) == /\ cfg.sync /\ cfg.external /\ bound /\ resetDone
            /\ baseline # Null /\ sample.value # Null /\ f = {}

(* The end of before_start. *)
Baseline ==
    /\ baseline' = sample.value /\ flags' = Raised(bound, sample)
    /\ Goto("start") /\ UNCHANGED triggered

(* What a sample of the GoX means: the triggers since the baseline when nothing
   is unknown, a failure when the counter was lost, restarted or wrapped. *)
GoxSample ==
    /\ flags' = flags \cup Raised(bound, sample) \cup (IF Regressed THEN {"regressed"} ELSE {})
    /\ triggered' = IF Known(flags') THEN sample.value - baseline ELSE Null
    /\ IF bound /\ flags' \cap {"binding_lost", "regressed", "overflow", "negative"} # {}
       THEN SampleFails("counter") ELSE UNCHANGED verdictVars

(* Of the FX10: any trigger missed since the baseline fails, and so does a
   counter that goes back. *)
Fx10Sample ==
    /\ flags' = flags \cup (IF Fx10Regressed THEN {"regressed"} ELSE {})
    /\ UNCHANGED triggered
    /\ IF bound /\ \/ "regressed" \in flags'
                   \/ sample.value # Null /\ baseline >= 0 /\ sample.value > baseline
       THEN SampleFails("counter") ELSE UNCHANGED verdictVars

Conclude ==
    /\ pc = "conclude" /\ NoFault
    /\ previous' = IF sample.value # Null THEN sample.value ELSE previous
    /\ IF phase = "baseline" THEN Baseline
       ELSE /\ UNCHANGED baseline
            /\ pc' = IF phase = "stop" THEN "over" ELSE "capture"
            /\ IF Gox THEN GoxSample ELSE Fx10Sample
    /\ UNCHANGED <<cfg, round, at, phase, attempt, comm, reportVars, bound, resetDone,
                   sample, deviceVars, triggerVars, sinceRead>>

(* The monitor loop of the engine: another sample, or the end of the capture. *)
NextSample ==
    /\ pc = "capture" /\ ~stop /\ NoFault /\ Goto("health")
    /\ UNCHANGED <<cfg, round, at, phase, attempt, comm, reportVars, counterVars,
                   deviceVars, triggerVars, sinceRead>>

StopSource ==
    /\ pc = "capture" /\ stop /\ NoFault /\ Goto("health")
    /\ acquiring' = FALSE /\ phase' = "stop"
    /\ UNCHANGED <<cfg, round, at, attempt, comm, reportVars, counterVars, reg, ready,
                   clock, triggerVars, sinceRead>>

----------------------------------------------------------------------------
(* The camera and the operator. *)

RequestStop ==
    /\ ~stop /\ pc # "over" /\ stop' = TRUE
    /\ UNCHANGED <<cfg, hookVars, failed, why, faults, comm, reportVars, counterVars,
                   deviceVars, triggerVars, sinceRead>>

BecomeReady ==
    /\ ~ready /\ ready' = TRUE
    /\ UNCHANGED <<cfg, hookVars, verdictVars, faults, comm, reportVars, counterVars, reg,
                   acquiring, clock, triggerVars, sinceRead>>

ClockMoves ==
    /\ reg["PtpEnable"] = "true" /\ pc \in {"lock", "health", "capture"}
    /\ clock' \in {"slave", "master", "listening"} \ {clock}
    /\ UNCHANGED <<cfg, hookVars, verdictVars, faults, comm, reportVars, counterVars, reg,
                   ready, acquiring, triggerVars, sinceRead>>

(* A frame trigger (GoX) or a missed one (FX10), counted while the counter is
   bound.  The FX10 is asked about at most one turn of its counter. *)
Trigger ==
    /\ acquiring /\ phase = "capture" /\ cfg.external
    /\ since <= IF Gox THEN CounterMax ELSE CounterMax - 1
    /\ reg["TriggerMode"] = "On" /\ since' = since + 1
    /\ count' = IF CounterBound THEN (count + 1) % (CounterMax + 1) ELSE count
    /\ overflow' = (overflow \/ (CounterBound /\ count = CounterMax))
    /\ UNCHANGED <<cfg, hookVars, verdictVars, faults, comm, reportVars, counterVars,
                   deviceVars, sinceRead>>

(* The camera falls back to its factory state between two samples. *)
CameraForgets ==
    /\ Gox /\ pc = "capture" /\ acquiring /\ Fault
    /\ reg' = Factory /\ count' = 0 /\ overflow' = FALSE /\ clock' = "listening"
    /\ UNCHANGED <<cfg, hookVars, verdictVars, comm, reportVars, counterVars, ready,
                   acquiring, since, sinceRead>>

Done == pc = "over" /\ UNCHANGED vars

HookStep ==
    \/ FactoryBegin \/ RaiseTimeouts \/ FactoryCommand \/ WaitCommandDone \/ AwaitControlReady
    \/ ConfirmLoad
    \/ PtpDisable \/ PtpEnable \/ WaitForSync \/ ConfigureStream \/ BeginConfigure
    \/ ApplyFeature \/ ApplyDone \/ VerifyContract \/ RawAudit \/ SelectorsHome
    \/ EngineReady \/ ResetTriggerCounter \/ ShutterPulse \/ MissedBaseline
    \/ StartCapture \/ CheckHealth \/ ReadTemperatures \/ ReadBinding \/ ReadValue
    \/ ReadStatus \/ Conclude \/ NextSample \/ StopSource

Next == HookStep \/ RequestStop \/ BecomeReady \/ ClockMoves \/ Trigger \/ CameraForgets
        \/ Done

(* The engine's thread runs; nothing is asked of the camera or the operator. *)
Spec == Init /\ [][Next]_vars /\ WF_vars(HookStep)

----------------------------------------------------------------------------
(* What the recordings rely on. *)

(* The write at i is the last word of the plan on its node. *)
Final(i) ==
    /\ Plan(cfg)[i].node \in Nodes
    /\ \A j \in i + 1 .. Len(Plan(cfg)) :
          Plan(cfg)[j].node \notin {Plan(cfg)[i].node, "UserSetLoad"}

(* What holds in the camera when a capture starts. *)
GoodStart ==
    /\ Contract
    /\ \A i \in 1 .. Len(Plan(cfg)) :
          LET w == Plan(cfg)[i] IN w.required /\ w.strict /\ Final(i) => reg[w.node] = w.value
    /\ Gox => /\ reg["GainSelector"] = "0"
              /\ reg["Untouched"] = "factory" \/ audit # "match"
    /\ ~Gox => shutter = << IF cfg.dark THEN "close" ELSE "open" >>

(* The raised control time-outs do not outlive the factory load unless the write
   that restores them has failed: a link that is lost later is noticed as fast as
   before, whichever way the load ended (CommandTimeoutGuard). *)
TimeoutsRestored ==
    /\ comm = "raised" => pc \in {"command", "await", "confirm"}
    /\ comm = "stuck" => faults > 0
ProfileInv == TypeOK /\ TimeoutsRestored

(* No capture starts on a camera that is not what device.json and the readers
   of the recording take it for: the contract registers hold after features.raw,
   every driver-derived write that nothing overrides is still in its register,
   the audit left the selectors at home and did not call a deviating value a
   match, and the FX10 got exactly one shutter pulse, in the right direction. *)
CaptureOnContract == [][phase # "capture" /\ phase' = "capture" => GoodStart]_vars

(* triggered_frames, which the driver compares with the frames it got, is the
   number of triggers the camera saw up to the reading or it is not given, also
   across lost bindings, restarts and wraps; and an FX10 that has missed a
   trigger by the time of a sample has failed. *)
TriggerCountExact ==
    pc \in {"capture", "over"} /\ phase # "baseline" =>
        /\ Gox /\ triggered # Null => triggered = sinceRead
        /\ ~Gox /\ bound /\ baseline >= 0 /\ sinceRead > 0 => failed

(* Without a broken call, a session fails only over what was asked of it: a
   window the sensor cannot hold is refused, an override the recording contract
   cannot bear is refused, and a clock or a counter is blamed only when it was
   required or lost.  A stop is called a failure only while the camera is being
   prepared, never once it captures.  The plan never asks for a value in an order in which the
   camera has to refuse it. *)
FailureHasCause ==
    /\ why = "refused" => Gox /\ cfg.offset + (IF cfg.width = 0 THEN Sensor ELSE cfg.width) > Sensor
    /\ why = "config" => cfg.raw # << >>
    /\ why = "stop" => phase = "baseline"
    /\ why = "clock" => cfg.ptp = "abort" \/ synced
    /\ why = "counter" => bound /\ (faults > 0 \/ overflow \/ (~Gox /\ since > 0))

(* A PTP clock that is lost for good ends a capture that was synchronised, in
   spite of the re-checks. *)
LostClockEndsCapture ==
    <>[](synced /\ clock # "slave") => <>(pc = "over")
=============================================================================
