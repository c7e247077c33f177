------------------------------ MODULE GoxConfig ------------------------------
(***************************************************************************)
(* Which Go-X files the driver accepts: gox_driver/src/app_config.cpp.     *)
(*                                                                         *)
(* Documents are those of module ConfigUtil.  An optional value is a set   *)
(* of at most one element.  Numbers are whole: a fraction is in the range  *)
(* that its neighbours are in.                                             *)
(***************************************************************************)
EXTENDS Integers, Sequences, FiniteSets, ConfigUtil

(* trigger::validRate on the JAI pair; 0 means no pulses. *)
JaiRate(hz) == hz = 0 \/ hz \in 1 .. 10

(* 0 keeps the device's value. *)
CheckRoiAxis(value, min, step) == value = 0 \/ (value >= min /\ value % step = 0)

(* Numbers are TriggerSource values of the camera; names are verified later. *)
CheckTriggerSource(source) ==
    /\ source.text # ""
    /\ source.number \subseteq (7 .. 19) \cup {24, 36, 37}

RoiOk(roi) ==
    /\ CheckRoiAxis(roi.width, 96, 8) /\ CheckRoiAxis(roi.height, 8, 2)
    /\ roi.offset_x % 8 = 0 /\ roi.offset_y % 2 = 0

TriggerOk(t) ==
    /\ t.mode \in {"freerun", "external"} /\ t.activation \in {"rising", "falling"}
    /\ ReadText(t.selector_entry) /\ CheckTriggerSource(t.source_entry)
    /\ ReadRange(t.delay_ms, 0, 500)
    /\ ReadRange(t.input_filter_ns, 0, 40000000) /\ t.input_filter_ns % 100 = 0
    /\ t.sensor_channel \in 2 .. 3

(* The longest frame period is 8 s. *)
ParseAcquisition(a) ==
    /\ \A ms \in a.exposure_ms : ms > 0
    /\ \A gain \in a.gain : gain \in 1 .. 126
    /\ \A hz \in a.frame_rate_hz : hz > 0
    /\ a.pixel_format = {"BayerRG12Packed"}
    /\ \A roi \in a.roi : RoiOk(roi)
    /\ TriggerOk(a.trigger)

ParseNetwork(n) ==
    /\ n.buffer_count = 0 \/ n.buffer_count >= 4
    /\ n.packet_size = 0 \/ n.packet_size \in 1476 .. 12036
    /\ n.socket_rx_buffer_mb \in 1 .. 1024
    /\ n.throughput_safety_margin_pct = 0 \/ n.throughput_safety_margin_pct \in 10 .. 100
    /\ "" \notin n.receiver_tuning

(* An exposure leaves a tenth of the period. *)
ExposureFits(exposure, rate) == \A ms \in exposure, hz \in rate : ms * hz < 900

ParseCamera(c) ==
    /\ c.id.len \in 1 .. 63 /\ c.id.chars \subseteq {"alnum", "_", "-"}
    /\ c.mac # "" \/ c.ip # ""
    /\ c.mac # "malformed"
    /\ ParseAcquisition(c.acquisition)
    /\ "" \notin c.raw
    /\ ParseNetwork(c.network)
    /\ c.acquisition.trigger.mode = "freerun" =>
          ExposureFits(c.acquisition.exposure_ms, c.acquisition.frame_rate_hz)

EnabledCameras(doc) == {i \in DOMAIN doc.cameras : doc.cameras[i].enabled}

External(c) == c.acquisition.trigger.mode = "external"

(* With pulses commanded by this process: channels are not shared, and the
   pair has one rate, which its boards can run and its exposures fit. *)
CheckSensorTriggerRig(doc) ==
    LET cam(i) == doc.cameras[i]
        channel(i) == cam(i).acquisition.trigger.sensor_channel
        rate(i) == cam(i).acquisition.frame_rate_hz
        pulsed == {i \in EnabledCameras(doc) : External(cam(i))}
    IN  doc.sensor_trigger =>
          /\ \A i, k \in EnabledCameras(doc) : channel(i) = channel(k) => i = k
          /\ \A i \in pulsed :
                /\ \E hz \in rate(i) : hz # 0 /\ JaiRate(hz)
                /\ ExposureFits(cam(i).acquisition.exposure_ms, rate(i))
          /\ \A i, k \in pulsed : rate(i) = rate(k)

PowerOfTwo(n) == \E k \in 0 .. 30 : n = 2 ^ k

OutputOk(out) ==
    /\ out.segment_size_mb \in 1 .. 1024 * 1024 /\ PowerOfTwo(out.record_align)
    /\ out.queue_max_frames # 1
    /\ out.queue_on_full \in {"drop_newest", "block"}
    /\ out.on_buffer_error \in {"record_flagged", "drop"}
    /\ out.flush_interval_mb \in 1 .. 1024 * 1024 /\ out.max_duration_s \in 0 .. 86400

PtpOk(ptp) == ptp.sync_timeout_s > 0 /\ ptp.on_timeout \in {"abort", "warn_continue"}

ParseRoot(doc) ==
    /\ WellFormed(doc.file) /\ OutputOk(doc.output) /\ PtpOk(doc.ptp) /\ doc.stats_interval_s > 0
    /\ doc.cameras # << >>
    /\ \A i \in DOMAIN doc.cameras : ParseCamera(doc.cameras[i])
    /\ \A i, k \in DOMAIN doc.cameras : doc.cameras[i].id.text = doc.cameras[k].id.text => i = k
    /\ EnabledCameras(doc) # {}
    /\ CheckSensorTriggerRig(doc)
=============================================================================
