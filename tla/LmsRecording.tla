---------------------------- MODULE LmsRecording ----------------------------
(***************************************************************************)
(* A recording of one scanner: the configuration is loaded, the telegrams  *)
(* of a stream are monitored and handed to the recorder                    *)
(* (Impl::HandleFrame), and the final counters are judged                  *)
(* (Lms4xxxDriverApp::Shutdown).  Composes LmsConfig, ScanMonitor and      *)
(* LmsRecorder; the receiver and the connection are those of FrameReceiver *)
(* and LmsDriver.                                                          *)
(***************************************************************************)
EXTENDS LmsRecorder, ScanMonitor, LmsConfig, TLC

CONSTANT Cases   \* a sequence of [doc, stream]: a configuration and what the scanner sends

VARIABLES
    chosen,  \* the case, by its number
    app,     \* load, refused, loaded
    mon,     \* the monitor's state
    rows     \* what MonitorFrame added to each telegram, in their order

monitorVars == <<chosen, app, mon, rows>>
systemVars == <<vars, monitorVars>>

given == Cases[chosen]

SystemInit ==
    /\ Init /\ chosen \in DOMAIN Cases
    /\ app = "load" /\ mon = StartScanning(given.doc.ntp) /\ rows = << >>

(* main loads the file, first for the scanners to switch off, and goes on only
   with an enabled one. *)
Load ==
    /\ app = "load"
    /\ app' = IF ParseRoot(given.doc, FALSE) /\ EnabledLidars(given.doc) # << >>
              THEN "loaded" ELSE "refused"
    /\ UNCHANGED <<vars, chosen, mon, rows>>

(* Impl::HandleFrame: whatever the monitor finds, the recorder gets the
   telegram. *)
HandleFrame ==
    /\ app = "loaded" /\ sent < Len(given.stream)
    /\ OnFrame
    /\ \E t \in {given.stream[sent + 1]} : \E r \in {ParseScanData(mon, t)} :
       \E o \in {ObservationOf(mon, t, r, given.doc.ntp)} :
          /\ accepting => offered'.size = t.size
          /\ mon' = MonitorFrame(mon, t, r, o, given.doc)
          /\ rows' = Append(rows, RecordOf(mon, t, r, o, given.doc))
    /\ UNCHANGED <<chosen, app>>

Recorder(action) == app = "loaded" /\ action /\ UNCHANGED monitorVars

SystemDone == (app = "refused" \/ opc = "stopped") /\ UNCHANGED systemVars

SystemNext ==
    \/ Load \/ HandleFrame \/ Recorder(Start) \/ Recorder(Stop) \/ Recorder(Join)
    \/ Recorder(TryPush) \/ Recorder(CountQueued) \/ Recorder(PushFails) \/ Recorder(Refuse)
    \/ Recorder(CloseQueue) \/ Recorder(Writer) \/ Recorder(Flush) \/ SystemDone

(* The writer runs and the owner, once it stops, goes on; nothing makes the
   scanner send. *)
SystemSpec ==
    /\ SystemInit /\ [][SystemNext]_systemVars
    /\ WF_systemVars(Recorder(Writer)) /\ WF_systemVars(Recorder(Join))

----------------------------------------------------------------------------
(* How the scanner writes a scan: a layout has the number of encoder blocks,
   the channels, the device's name and whether there is a date. *)

Ends(channels, from) ==
    LET F[k \in 0 .. Len(channels)] ==
            IF k = 0 THEN from ELSE F[k - 1] + 21 + channels[k].num * channels[k].width
    IN  F

EncodeScan(l) ==
    LET wide == SelectSeq(l.channels, LAMBDA c : c.width = 2)
        narrow == SelectSeq(l.channels, LAMBDA c : c.width = 1)
        count16 == 38 + 6 * l.encoders
        ends16 == Ends(wide, count16 + 2)
        count8 == ends16[Len(wide)]
        ends8 == Ends(narrow, count8 + 2)
        name == ends8[Len(narrow)] + 4
        time == name + 2 + (IF l.named THEN 2 + l.name_length ELSE 0)
        heads(channels, ends) == [p \in {ends[k - 1] : k \in DOMAIN channels} |->
            channels[CHOOSE k \in DOMAIN channels : ends[k - 1] = p].head]
        counts(channels, ends) == [p \in {ends[k - 1] + 19 : k \in DOMAIN channels} |->
            channels[CHOOSE k \in DOMAIN channels : ends[k - 1] + 19 = p].num]
    IN  [len |-> time + 2 + (IF l.dated THEN 11 ELSE 0) + 2,
         words |-> 36 :> l.encoders @@ count16 :> Len(wide) @@ count8 :> Len(narrow)
                   @@ counts(wide, ends16) @@ counts(narrow, ends8)
                   @@ (IF l.named THEN name :> 1 @@ (name + 2) :> l.name_length ELSE name :> 0)
                   @@ time :> (IF l.dated THEN 1 ELSE 0),
         heads |-> heads(wide, ends16) @@ heads(narrow, ends8),
         stamps |-> (time + 2) :> l.stamp,
         counter |-> l.counter, uptime |-> l.uptime]

----------------------------------------------------------------------------
(* What a stream must be like for the recording to be called good, in terms of
   what the scanner wrote and of its clock as it was (`utc`, 0 for a date that
   is none). *)

Handled(g) == SubSeq(g.stream, 1, mon.received)
ScansOf(h) == SelectSeq(h, IsScan)

ExpectedChannels(remission) ==
    {[width |-> IF n = "QLTY1" THEN 1 ELSE 2, num |-> 841,
      head |-> [name |-> n, start |-> 550000, step |-> 833, scale |-> ScaleOf(n)]]
     : n \in {"DIST1", RemissionChannel(remission), "ANGL1", "QLTY1"}}

Configured(l, cfg) ==
    /\ Len(l.channels) = 4
    /\ {l.channels[k] : k \in DOMAIN l.channels} = ExpectedChannels(cfg.scan.remission)
    /\ l.encoders = 0 /\ ~l.named /\ l.dated = cfg.ntp.enabled

Dated(t) == t.layout.dated /\ t.utc >= EarliestPlausible

Continuous(s, t, limit) ==
    LET up == (t.layout.uptime - s.layout.uptime) % UptimeCycle
    IN  /\ up \in 1 .. (UptimeCycle \div 2) - 1
        /\ Abs(t.utc - s.utc - up) <= limit
        /\ t.utc - s.utc >= -RegressionThreshold

ClockFlawless(h, ntp) ==
    LET scans == ScansOf(h)
        limit == IF ntp.max_time_step_ms < StepThreshold THEN ntp.max_time_step_ms ELSE StepThreshold
    IN  /\ \A k \in DOMAIN scans : Dated(scans[k]) \/ scans[k].at < ntp.lock_timeout_s
        /\ \A k \in DOMAIN scans : k > 1 /\ Dated(scans[k - 1]) =>
              Dated(scans[k]) /\ Continuous(scans[k - 1], scans[k], limit)
        /\ \A k \in DOMAIN h : h[k].watch # "gave up"
        /\ \A k \in DOMAIN h : ~(h[k].good /\ h[k].name = "EMActiveCustomerInfo" /\ h[k].complete /\ h[k].no_ntp)

Flawless(h, cfg) ==
    LET scans == ScansOf(h)
    IN  /\ \A k \in DOMAIN h : h[k].good /\ Decodes(h[k])
        /\ \A k \in DOMAIN scans : scans[k].intact
        /\ scans # << >> => Configured(scans[1].layout, cfg)
        /\ \A k \in DOMAIN scans :
              k > 1 => scans[k].layout.counter = (scans[k - 1].layout.counter + 1) % 65536
        /\ cfg.ntp.enabled => ClockFlawless(h, cfg.ntp)

Judgement == RecordingFailed(mon, queued, written, dropped, failed)

(* Properties. *)

(* The verdict over the final counters is right both ways: a recording is
   called good exactly when the recorder kept every telegram and the stream was
   flawless; no clock step hides behind a telegram that was damaged, undated or
   not looked at completely, and neither a wrap of the uptime or of the counter
   nor the end of a month makes a good recording fail (MonitorFrame,
   AssessScanTime, AssessRecording). *)
JudgedFairly ==
    app = "loaded" /\ opc = "stopped" =>
        \A g \in {given} : Judgement <=> failed \/ ~Flawless(Handled(g), g.doc)

(* Good recordings that are not even degraded end with a dated scan while the
   scanner's clock follows the server (AssessRecording). *)
NotDegradedIsDated(g) ==
    LET scans == ScansOf(Handled(g))
    IN  g.doc.ntp.enabled /\ ~Judgement /\ ~TimeQualityDegraded(mon)
        => scans # << >> /\ Dated(scans[Len(scans)])

(* Where the first parser accepts a payload, the second one finds the same
   date, and a payload that the scanner wrote is found to be what it wrote: no
   length that both skip shifts what they read (Parse, ParseTimestamp). *)
ParsersAgree(g) ==
    \A k \in {j \in DOMAIN g.stream : IsScan(g.stream[j])} :
        \A t \in {g.stream[k]} : \A full \in {Parse(t.data)}, light \in {ParseTimestampOnly(t.data)} :
              /\ Ok(full) => Ok(light) /\ light.stamp = full.stamp
              /\ Ok(full) /\ t.intact => /\ full.channels = t.layout.channels
                                         /\ full.encoders = t.layout.encoders
                                         /\ (full.stamp # {}) = t.layout.dated
              /\ ~t.intact => ~Ok(full) /\ ~Ok(light)

(* The index row of a scan has the scanner's date, and says so when UTC went
   back since the scan before (MonitorFrame, Observe). *)
RowsTellTheTruth(g) ==
    \A k \in DOMAIN rows :
        LET t == g.stream[k]
            p == CHOOSE j \in 1 .. k - 1 : rows[j].flags # {} /\ \A i \in j + 1 .. k - 1 : rows[i].flags = {}
        IN  rows[k].flags # {} =>
              /\ rows[k].device_time = IF t.layout.dated THEN t.utc ELSE 0
              /\ g.doc.ntp.enabled =>
                    /\ ("invalid" \in rows[k].flags) = ~Dated(t)
                    /\ ("backward" \in rows[k].flags) =
                          (/\ \E j \in 1 .. k - 1 : rows[j].flags # {}
                           /\ Dated(t) /\ Dated(g.stream[p]) /\ t.utc < g.stream[p].utc)

(* An accepted configuration gives every enabled scanner to one driver, however
   its address is written, and every driver files of its own (ParseLidars). *)
OneOwnerPerScanner(g) ==
    LET lidars == g.doc.lidars
    IN  \A j, k \in DOMAIN lidars : j # k =>
           /\ lidars[j].id # lidars[k].id
           /\ lidars[j].enabled /\ lidars[k].enabled => Denotes(lidars[j].ip) # Denotes(lidars[k].ip)

(* When the recording starts every scanner has one owner and both parsers read
   its stream alike, and what the monitor has made of it is right once the
   recorder has stopped.  It does not depend on the recorder, which may as well
   not have failed. *)
MonitorInv ==
    /\ app = "loaded" /\ opc = "new" =>
          \A g \in {given} : OneOwnerPerScanner(g) /\ ParsersAgree(g)
    /\ app = "loaded" /\ opc = "stopped" /\ ~failed =>
          \A g \in {given} : RowsTellTheTruth(g) /\ NotDegradedIsDated(g)
=============================================================================
