----------------------------- MODULE Fx10Config -----------------------------
(***************************************************************************)
(* Which FX10 files the driver accepts (fx10_driver/src/app_config.cpp)    *)
(* and which wavelengths it gives to the bands of a camera                 *)
(* (fx10_driver/src/wavelengths.cpp).  Documents are those of module       *)
(* ConfigUtil, and numbers are whole, as in module GoxConfig.              *)
(***************************************************************************)
EXTENDS Integers, Sequences, SequencesExt, ConfigUtil

(* trigger::validRate for each pair of outputs; 0 means no pulses. *)
GroupRate(group, hz) == hz = 0 \/ (IF group = 0 THEN hz >= 20 ELSE hz \in 1 .. 10)

----------------------------------------------------------------------------
(* MROI: a token is the sequence of the integers written in it, up to the
   first thing that is not one; `rest` says that something follows them. *)

kMaxRegions == 512
kSensorRows == 1082
kMaxWindowHeight == 448

Regions(tokens) == SelectSeq(tokens, LAMBDA t : ~t.blank)

RegionOk(t) ==
    /\ Len(t.numbers) = 2 /\ ~t.rest
    /\ t.numbers[1] \in 0 .. kSensorRows - 1
    /\ t.numbers[2] \in 1 .. kMaxWindowHeight
    /\ t.numbers[1] + t.numbers[2] <= kSensorRows

TotalHeight(tokens) == FoldLeft(LAMBDA sum, t : sum + t.numbers[2], 0, Regions(tokens))

ParseMroiRegions(tokens) ==
    LET regions == Regions(tokens)
    IN  /\ \A i \in DOMAIN regions : RegionOk(regions[i])
        /\ Len(regions) \in 1 .. kMaxRegions
        /\ TotalHeight(tokens) <= kMaxWindowHeight

(* The rows of an image, as the configuration has them. *)
ExpectedBands(acq) ==
    IF acq.mroi.enabled THEN TotalHeight(acq.mroi.multiband) ELSE 448 \div acq.spectral_binning

----------------------------------------------------------------------------
(* The document. *)

TriggerOk(t) ==
    /\ t.mode \in {"freerun", "external"} /\ t.activation \in {"rising", "falling"}
    /\ ReadRange(t.delay_ms, 0, 419) /\ t.exposure_control \in {"camera", "pulse_width"}
    /\ ReadText(t.selector_entry) /\ ReadText(t.source_entry)

(* Unlike the Go-X, the exposure is checked under every trigger. *)
ParseAcquisition(acq) ==
    /\ acq.pixel_format \in {"Mono12Packed", "Mono12", "Mono10Packed", "Mono10", "Mono8"}
    /\ acq.exposure_ms > 0 /\ acq.frame_rate_hz > 0
    /\ acq.exposure_ms * acq.frame_rate_hz < 900
    /\ acq.image_enhancement /\ TriggerOk(acq.trigger)
    /\ {acq.spectral_binning, acq.spatial_binning} \subseteq {1, 2, 4, 8}
    /\ acq.mroi.enabled =>
          /\ acq.spectral_binning = 1 /\ acq.spatial_binning = 1
          /\ ParseMroiRegions(acq.mroi.multiband)

ParseSensorTrigger(st, acq) ==
    /\ st.trigger_channel \in 0 .. 3
    /\ st.enabled /\ acq.trigger.mode = "external" =>
          GroupRate(st.trigger_channel \div 2, acq.frame_rate_hz)

(* The driver owns the acquisition and the shutter. *)
OwnedNodes ==
    {"AcquisitionStart", "AcquisitionStop", "MotorShutter_PulseRev", "MotorShutter_PulseFwd"}

ParseFeatures(raw) ==
    \A i \in DOMAIN raw :
       /\ raw[i].name \notin OwnedNodes \cup {""}
       /\ raw[i].type \in {"int", "float", "bool", "enum", "string", "command"}
       /\ raw[i].type # "command" => raw[i].has_value
       /\ raw[i].type \in {"int", "float", "bool"} => raw[i].converts

ParseNetwork(n) ==
    /\ n.packet_size \in 0 .. 65535 /\ n.socket_rx_buffer_mb \in 1 .. 1024
    /\ n.buffer_count \in 0 .. 100000 /\ n.stall_budget_s \in 0 .. 3600
    /\ n.max_buffer_memory_mb \in 1 .. 1024 * 1024 /\ n.retrieve_timeout_ms \in 1 .. 10000

(* The calibration's numbers are checked when they are given: 0 and -1 are
   the defaults of those that are not. *)
ParseOutput(out) ==
    LET w == out.wavelengths
        cal == w.calibration
    IN  /\ ReadRange(out.flush_interval_mb, 0, 4096) /\ out.on_gap \in {"record", "pad_zero"}
        /\ w.source \in {"none", "file", "list", "grid"}
        /\ ReadRange(cal.samples, 0, 65535) /\ ReadRange(cal.bands, 0, 65535)
        /\ ReadRange(cal.offset_x, -1, 65535) /\ ReadRange(cal.offset_y, -1, 65535)
        /\ w.grid_start_nm < w.grid_end_nm
        /\ ReadRange(out.max_duration_s, 0, 7 * 86400)

(* A document without an address is accepted: Init refuses it. *)
ParseRoot(doc) ==
    /\ WellFormed(doc.file) /\ doc.mac # "malformed"
    /\ ParseAcquisition(doc.acquisition)
    /\ ParseSensorTrigger(doc.sensor_trigger, doc.acquisition)
    /\ ParseFeatures(doc.raw) /\ ParseNetwork(doc.network) /\ ParseOutput(doc.output)
    /\ ReadRange(doc.reference_duration_ms, 100, 3600000)
    /\ ReadRange(doc.stats_interval_s, 0, 3600)

----------------------------------------------------------------------------
(* Wavelengths: an axis is [nm, fwhm], two sequences; a file is the sequence of
   its lines that are not comments, each a sequence of numbers. *)

NoAxis == [nm |-> << >>, fwhm |-> << >>]

(* What FromFile accepts: one or two columns, the same in every line. *)
FileOk(lines, bands) ==
    /\ Len(lines) = bands /\ bands > 0
    /\ \A i \in DOMAIN lines : Len(lines[i]) \in {1, 2} /\ Len(lines[i]) = Len(lines[1])

FromFile(lines) ==
    [nm |-> [i \in DOMAIN lines |-> lines[i][1]],
     fwhm |-> IF Len(lines[1]) = 2 THEN [i \in DOMAIN lines |-> lines[i][2]] ELSE << >>]

(* Evenly spaced, both ends included. *)
Grid(w, bands) ==
    [i \in 1 .. bands |->
       IF bands = 1 THEN w.grid_start_nm
       ELSE w.grid_start_nm + ((w.grid_end_nm - w.grid_start_nm) * (i - 1)) \div (bands - 1)]

(* An explicit list of widths overrides the file's. *)
Resolved(w, files, bands) ==
    LET axis == CASE w.source = "file" -> FromFile(files[w.file])
                  [] w.source = "list" -> [NoAxis EXCEPT !.nm = w.list]
                  [] w.source = "grid" -> [NoAxis EXCEPT !.nm = Grid(w, bands)]
    IN  IF w.fwhm_list = << >> THEN axis ELSE [axis EXCEPT !.fwhm = w.fwhm_list]

AxisOk(axis) ==
    /\ axis.fwhm # << >> => Len(axis.fwhm) = Len(axis.nm)
    /\ \A i \in DOMAIN axis.nm : axis.nm[i] >= 1 /\ axis.nm[i] <= 100000
    /\ \A i \in DOMAIN axis.fwhm : axis.fwhm[i] >= 0 /\ axis.fwhm[i] <= 10000

(* When ResolveWavelengths returns. *)
ResolveWavelengths(w, files, bands) ==
    CASE w.source = "none" -> w.fwhm_list = << >>
      [] w.source = "file" -> /\ w.file \in DOMAIN files /\ FileOk(files[w.file], bands)
                              /\ AxisOk(Resolved(w, files, bands))
      [] w.source = "list" -> Len(w.list) = bands /\ AxisOk(Resolved(w, files, bands))
      [] w.source = "grid" -> AxisOk(Resolved(w, files, bands))

(* The delivered image is the one that was calibrated. *)
Calibrated(cal, g, status_line) ==
    /\ cal.reference # "" /\ cal.device_serial # ""
    /\ cal.samples > 0 /\ cal.bands > 0 /\ cal.offset_x >= 0 /\ cal.offset_y >= 0
    /\ g.serial = cal.device_serial /\ g.samples = cal.samples /\ g.bands = cal.bands
    /\ g.offset_x = cal.offset_x /\ g.offset_y = cal.offset_y /\ ~status_line

(* When ResolveForGeometry returns for the geometry `g` of the camera; a
   generated grid is not a calibration. *)
ResolveForGeometry(w, files, g, status_line) ==
    /\ 0 < g.samples /\ g.samples <= 65535 /\ 0 < g.bands /\ g.bands <= 65535
    /\ w.source # "grid"
    /\ w.source # "none" => Calibrated(w.calibration, g, status_line)
    /\ ResolveWavelengths(w, files, g.bands)

Axis(w, files, g) == IF w.source = "none" THEN NoAxis ELSE Resolved(w, files, g.bands)
=============================================================================
