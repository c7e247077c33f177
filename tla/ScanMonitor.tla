---------------------------- MODULE ScanMonitor -----------------------------
(***************************************************************************)
(* What the receive thread learns from each telegram before it hands it to *)
(* the recorder: Impl::MonitorFrame of lms4xxx_driver/src/driver_stream.cpp *)
(* with the clock tracker of clock_quality.h and the verdict of            *)
(* recording_status.h.                                                     *)
(*                                                                         *)
(* A telegram: `good` (its checksum), `size`, `at` (the host's steady      *)
(* clock in seconds since the stream started), `watch` (what the NTP watch *)
(* last found: a hit, a miss, or that it gives up), the command, and for a *)
(* scan its payload.                                                       *)
(* Time is scaled: the device counts seconds in UTC and in its uptime, and *)
(* a second takes the place of the millisecond in which the code states    *)
(* its thresholds.                                                         *)
(***************************************************************************)
EXTENDS ScanTelegram

CONSTANT UptimeCycle   \* 2^32, scaled: the uptime counts modulo this

ASSUME UptimeAssumption == UptimeCycle \in Nat \ {0, 1}

(* kUtcRegressionAnomalyThresholdUs, kClockStepAnomalyThresholdUs *)
RegressionThreshold == 1
StepThreshold == 10

(* 2026-01-01T00:00:00Z, kEarliestPlausibleDeviceTimeUs *)
EarliestPlausible == 1767225600

Mark(condition, flag) == IF condition THEN {flag} ELSE {}
Abs(n) == IF n < 0 THEN -n ELSE n

----------------------------------------------------------------------------
(* scan_time.cpp *)

DaysFromCivil(year, m, d) ==
    LET y == IF m <= 2 THEN year - 1 ELSE year
        era == (IF y >= 0 THEN y ELSE y - 399) \div 400
        yoe == y - era * 400
        doy == (153 * (m + (IF m > 2 THEN -3 ELSE 9)) + 2) \div 5 + d - 1
        doe == yoe * 365 + yoe \div 4 - yoe \div 100 + doy
    IN  era * 146097 + doe - 719468

StampValid(s) ==
    /\ s.month \in 1 .. 12 /\ s.day \in 1 .. 31 /\ s.hour \in 0 .. 23
    /\ s.minute \in 0 .. 59 /\ s.second \in 0 .. 60 /\ s.microsecond \in 0 .. 999999

(* DeviceTimeUnixUs, in seconds; 0 for a malformed date. *)
DeviceTimeUnix(s) ==
    IF StampValid(s)
    THEN DaysFromCivil(s.year, s.month, s.day) * 86400 + s.hour * 3600 + s.minute * 60 + s.second
    ELSE 0

DeviceTimePlausible(s) == DeviceTimeUnix(s) >= EarliestPlausible

----------------------------------------------------------------------------
(* ClockQualityTracker: `previous` is the last plausible observation, empty
   when the sample before was not plausible. *)

NoObservation == [flags |-> {}, step |-> 0, utc_delta |-> 0, previous |-> << >>]

(* Mutant: the difference is taken as signed. *)
UptimeDeltaSigned(previous, uptime) == uptime - previous[1].uptime

UptimeDelta(previous, uptime) == (uptime - previous[1].uptime) % UptimeCycle

(* The uptime may wrap; a difference of none or of more than half a cycle says
   nothing. *)
Observe(previous, utc, plausible, uptime, max) ==
    LET compared == plausible /\ previous # << >>
        du == UptimeDelta(previous, uptime)
        dt == utc - previous[1].utc
        usable == compared /\ du \in 1 .. (UptimeCycle \div 2) - 1
    IN  [flags |-> {"assessed"} \cup Mark(~plausible, "invalid")
             \cup Mark(plausible /\ previous = << >>, "first")
             \cup Mark(compared /\ dt < 0, "backward") \cup Mark(compared /\ dt = 0, "repeated")
             \cup Mark(compared /\ ~usable, "discontinuity")
             \cup Mark(usable /\ Abs(dt - du) > max, "step"),
         step |-> IF usable THEN dt - du ELSE 0,
         utc_delta |-> IF compared THEN dt ELSE 0,
         previous |-> IF plausible THEN <<[utc |-> utc, uptime |-> uptime]>> ELSE << >>]

(* A regression of UTC means something even when the uptime does not. *)
IsTimeAnomaly(o) ==
    /\ "assessed" \in o.flags /\ o.flags \cap {"first", "invalid", "disabled"} = {}
    /\ \/ o.utc_delta < -RegressionThreshold
       \/ "discontinuity" \notin o.flags /\ Abs(o.step) > StepThreshold

----------------------------------------------------------------------------
(* The monitor's state, as StartScanning resets it. *)

StartScanning(ntp) ==
    [first |-> TRUE, counter |-> {}, previous |-> << >>, plausible_seen |-> FALSE,
     anomaly_seen |-> FALSE, warned |-> {}, no_ntp |-> FALSE, fault |-> FALSE, reachable |-> ntp.enabled,
     status |-> IF ntp.enabled THEN "NotLocked" ELSE "Off",
     received |-> 0, crc_errors |-> 0, parse_errors |-> 0, unexpected |-> 0, gaps |-> 0,
     anomalies |-> 0, steps |-> 0, no_ntp_events |-> 0]

(* The NTP watch of LmsDriver, between two telegrams. *)
NtpWatch(m, t) ==
    [m EXCEPT !.reachable = t.watch = "hit", !.fault = @ \/ t.watch = "gave up",
              !.status = IF t.watch = "gave up" THEN "Unreachable" ELSE @]

(* The list of the device's messages was read within the last 30 s. *)
WarningsFresh(m, now) == \E w \in m.warned : now - w <= 30

NtpStatus(m, plausible, fresh) ==
    LET base == CASE ~plausible -> "NotLocked"
                  [] plausible /\ ~fresh -> "Stale"
                  [] plausible /\ fresh /\ m.no_ntp -> "NoSignal"
                  [] OTHER -> "Unverified"
        seen == IF m.anomaly_seen /\ base # "NoSignal" THEN "ClockAnomaly" ELSE base
    IN  IF ~m.reachable /\ m.fault THEN "Unreachable" ELSE seen

(* AssessScanTime; without NTP the clock is not looked at. *)
AssessScanTime(m, o, plausible, now, ntp) ==
    LET large == o.flags \cap {"step", "discontinuity"} # {}
        anomaly == IsTimeAnomaly(o)
        late == ~plausible /\ (m.plausible_seen \/ now >= ntp.lock_timeout_s)
        seen == [m EXCEPT !.previous = o.previous, !.anomaly_seen = @ \/ anomaly,
                          !.anomalies = @ + (IF anomaly THEN 1 ELSE 0),
                          !.steps = @ + (IF large THEN 1 ELSE 0)]
    IN  [seen EXCEPT !.status = NtpStatus(seen, plausible, WarningsFresh(m, now)),
                     !.fault = @ \/ late \/ large,
                     !.plausible_seen = @ \/ plausible]

(* The flags of a telegram's row in the index. *)
RowFlags(m, o, now, ntp) ==
    IF ~ntp.enabled THEN {"assessed", "disabled"}
    ELSE o.flags \cup (IF ~WarningsFresh(m, now) THEN {"ntp unknown"}
                       ELSE Mark(m.no_ntp, "no ntp"))

(* A read answer with the device's messages; an incomplete list is no list. *)
ActiveMessages(m, t, ntp) ==
    IF t.complete
    THEN [m EXCEPT !.warned = {t.at}, !.no_ntp = t.no_ntp,
                   !.no_ntp_events = @ + (IF ntp.enabled /\ t.no_ntp /\ ~m.no_ntp THEN 1 ELSE 0),
                   !.status = IF ntp.enabled /\ t.no_ntp THEN "NoSignal" ELSE @]
    ELSE [m EXCEPT !.warned = {}]

(* Answers to methods and errors go to the slot of LmsDriver. *)
HandleNonScanFrame(m, t, ntp) ==
    CASE t.type = "sEA" /\ t.name = "LMDscandata" /\ t.acknowledges -> m
      [] t.type \in {"sAN", "sFA"} -> m
      [] t.type = "sRA" /\ t.name = "EMActiveCustomerInfo" -> ActiveMessages(m, t, ntp)
      [] t.type = "sRA" /\ t.name \in {"OPcurtmpdev", "SCdevicestate"} /\ t.complete -> m
      [] OTHER -> [m EXCEPT !.unexpected = @ + 1]

(* ColaBCodec::Decode; an error answer has no name. *)
Decodes(t) == t.length >= 4 /\ t.spaced /\ (t.type = "sFA" \/ t.name # "")
IsScanMessage(t) == t.name = "LMDscandata" /\ t.type \in {"sSN", "sRA"}
IsScan(t) == t.good /\ Decodes(t) /\ IsScanMessage(t)

ParseError(m) == [m EXCEPT !.parse_errors = @ + 1]

(* What the parser that a scan gets makes of it. *)
ParseScanData(m, t) ==
    IF ~IsScan(t) THEN Reader ELSE IF m.first THEN Parse(t.data) ELSE ParseTimestampOnly(t.data)

StampOf(t, r) == IF r.stamp = {} THEN NoStamp ELSE StampAt(t.data, CHOOSE p \in r.stamp : TRUE)
Plausible(t, r) == r.stamp # {} /\ DeviceTimePlausible(StampOf(t, r))

ObservationOf(m, t, r, ntp) ==
    IF ntp.enabled
    THEN Observe(m.previous, DeviceTimeUnix(StampOf(t, r)), Plausible(t, r), t.data.uptime,
                 ntp.max_time_step_ms)
    ELSE NoObservation

(* VerifyFirstScan and the telegram counter. *)
CountScan(m, t, r, cfg) ==
    LET gap == m.counter # {} /\ m.counter # {(t.data.counter - 1) % 65536}
    IN  [m EXCEPT !.first = FALSE, !.counter = {t.data.counter},
                  !.gaps = @ + (IF gap THEN 1 ELSE 0),
                  !.fault = @ \/ (m.first /\ ~VerifyScanContent(r, cfg.scan.remission, cfg.ntp.enabled))]

HandleScan(m, t, r, o, cfg) ==
    LET counted == CountScan(m, t, r, cfg)
        assessed == AssessScanTime(counted, o, Plausible(t, r), t.at, cfg.ntp)
    IN  CASE ~Ok(r) -> ParseError(m)
          [] Ok(r) /\ ~cfg.ntp.enabled -> counted
          [] Ok(r) /\ cfg.ntp.enabled /\ r.stamp = {} -> [assessed EXCEPT !.status = "NoTimestamp"]
          [] OTHER -> assessed

(* MonitorFrame, with what was read of the telegram and observed of the clock:
   damaged bytes drive nothing; the receiver has counted them. *)
MonitorFrame(m, t, r, o, cfg) ==
    LET watched == IF cfg.ntp.enabled THEN NtpWatch(m, t) ELSE m
        counted == [watched EXCEPT !.received = @ + 1]
    IN  CASE ~t.good -> [counted EXCEPT !.crc_errors = @ + 1]
          [] t.good /\ ~Decodes(t) -> ParseError(counted)
          [] IsScan(t) -> HandleScan(counted, t, r, o, cfg)
          [] OTHER -> HandleNonScanFrame(counted, t, cfg.ntp)

(* What MonitorFrame adds to the telegram, for the index. *)
RecordOf(m, t, r, o, cfg) ==
    IF IsScan(t) /\ Ok(r)
    THEN [is_scan |-> TRUE, device_time |-> DeviceTimeUnix(StampOf(t, r)), step |-> o.step,
          flags |-> RowFlags(m, o, t.at, cfg.ntp)]
    ELSE [is_scan |-> IsScan(t), device_time |-> 0, step |-> 0, flags |-> {}]

----------------------------------------------------------------------------
(* AssessRecording, over counters that no longer move; lost framing is a matter
   of FrameReceiver. *)

DataIntegrityFailed(m, queued, written, dropped, writer_failed) ==
    \/ dropped # 0 \/ m.gaps # 0 \/ m.crc_errors # 0 \/ m.parse_errors # 0
    \/ writer_failed \/ m.received # queued \/ queued # written

TimeErrors(m) == m.no_ntp_events # 0 \/ m.anomalies # 0 \/ m.steps # 0

TimeQualityDegraded(m) ==
    \/ m.status \in {"NoTimestamp", "NotLocked", "NoSignal", "Unreachable", "ClockAnomaly"}
    \/ TimeErrors(m)

RecordingFailed(m, queued, written, dropped, writer_failed) ==
    \/ DataIntegrityFailed(m, queued, written, dropped, writer_failed)
    \/ TimeErrors(m) \/ m.fault
=============================================================================
