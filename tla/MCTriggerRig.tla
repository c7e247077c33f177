---------------------------- MODULE MCTriggerRig ----------------------------
(* Rigs of one FX10 and up to two Go-X cameras that share a pair: a base rig,
   others that run, and files with one thing wrong each. *)
EXTENDS TriggerRig, TLC

Trigger(mode, channel_) ==
    [mode |-> mode, activation |-> "rising", selector_entry |-> "FrameStart",
     source_entry |-> [text |-> "24", number |-> {24}], delay_ms |-> 0, input_filter_ns |-> 0,
     sensor_channel |-> channel_]

GoxCamera(name, channel_) ==
    [id |-> [text |-> name, len |-> 4, chars |-> {"alnum"}], enabled |-> TRUE,
     mac |-> "valid", ip |-> "", raw |-> {"Gamma"},
     acquisition |-> [exposure_ms |-> {100}, gain |-> {2}, frame_rate_hz |-> {5},
                      pixel_format |-> {"BayerRG12Packed"}, roi |-> {},
                      trigger |-> Trigger("external", channel_)],
     network |-> [buffer_count |-> 0, packet_size |-> 0, socket_rx_buffer_mb |-> 16,
                  throughput_safety_margin_pct |-> 0, receiver_tuning |-> {}]]

GoxFile ==
    [file |-> CleanFile, cameras |-> <<GoxCamera("gox2", 2), GoxCamera("gox3", 3)>>,
     output |-> [segment_size_mb |-> 2048, record_align |-> 4096, queue_max_frames |-> 0,
                 queue_on_full |-> "drop_newest", on_buffer_error |-> "record_flagged",
                 flush_interval_mb |-> 64, max_duration_s |-> 0],
     ptp |-> [sync_timeout_s |-> 60, on_timeout |-> "abort"],
     sensor_trigger |-> TRUE, stats_interval_s |-> 2]

Token(y, h) == [blank |-> FALSE, numbers |-> <<y, h>>, rest |-> FALSE]
Blank == [blank |-> TRUE, numbers |-> << >>, rest |-> FALSE]

Fx10File ==
    [file |-> CleanFile, mac |-> "valid", ip |-> "",
     acquisition |-> [spatial_binning |-> 1, spectral_binning |-> 1, pixel_format |-> "Mono12Packed",
                      exposure_ms |-> 5, frame_rate_hz |-> 40, image_enhancement |-> TRUE,
                      status_line |-> FALSE,
                      mroi |-> [enabled |-> TRUE, multiband |-> <<Token(1080, 2), Blank, Token(0, 1)>>],
                      trigger |-> [mode |-> "external", activation |-> "rising", delay_ms |-> 0,
                                   exposure_control |-> "camera", selector_entry |-> "FrameStart",
                                   source_entry |-> "Line0"]],
     sensor_trigger |-> [enabled |-> TRUE, trigger_channel |-> 0],
     raw |-> <<[name |-> "Gain", type |-> "float", has_value |-> TRUE, converts |-> TRUE]>>,
     network |-> [packet_size |-> 0, socket_rx_buffer_mb |-> 32, buffer_count |-> 0,
                  stall_budget_s |-> 2, max_buffer_memory_mb |-> 512, retrieve_timeout_ms |-> 1000],
     output |-> [flush_interval_mb |-> 64, on_gap |-> "record", max_duration_s |-> 0,
                 wavelengths |-> [source |-> "file", file |-> "pack", list |-> << >>,
                                  fwhm_list |-> << >>, grid_start_nm |-> 400, grid_end_nm |-> 1000,
                                  calibration |-> [reference |-> "pack", device_serial |-> "F1",
                                                   samples |-> 1024, bands |-> 3,
                                                   offset_x |-> 0, offset_y |-> 0]]],
     reference_duration_ms |-> 5000, stats_interval_s |-> 2]

Gox2 == SyncOwner("gox", "gox2")
Gox3 == SyncOwner("gox", "gox3")
Namesake == SyncOwner("gox", "fx10")

Geometry == [serial |-> "F1", samples |-> 1024, bands |-> 3, offset_x |-> 0, offset_y |-> 0]

Base ==
    [main |-> [file |-> CleanFile, port |-> "absolute", enable_fx10 |-> TRUE, enable_gox |-> TRUE,
               enable_others |-> FALSE,
               guards |-> [disk_min_free_gib |-> 5, disk_warn_free_gib |-> 20,
                           no_data_warn_s |-> 5, no_data_abort_s |-> 30]],
     fx10 |-> Fx10File, gox |-> GoxFile,
     files |-> [pack |-> <<<<400, 5>>, <<700, 5>>, <<1000, 6>>>>],
     geometry |-> Geometry,
     devices |-> Fx10Owner :> [payload_kb |-> 672, sdk_max |-> 0]
                 @@ Gox2 :> [payload_kb |-> 18188, sdk_max |-> 64]
                 @@ Gox3 :> [payload_kb |-> 18188, sdk_max |-> 12]
                 @@ Namesake :> [payload_kb |-> 18188, sdk_max |-> 64]]

GoxOnly == [Base EXCEPT !.main.enable_fx10 = FALSE]
Fx10Only == [Base EXCEPT !.main.enable_gox = FALSE]
OneGox == [GoxOnly EXCEPT !.gox.cameras[2].enabled = FALSE]
Freerun(r, i) == [r EXCEPT !.gox.cameras[i].acquisition.trigger.mode = "freerun"]

Accepted ==
    [base      |-> Base,
     freerun   |-> Freerun(Freerun(GoxOnly, 1), 2),
     mixed     |-> Freerun(GoxOnly, 2),
     unsynced  |-> [Base EXCEPT !.gox.sensor_trigger = FALSE, !.gox.cameras[2].enabled = FALSE,
                                !.gox.cameras[1].acquisition.frame_rate_hz = {}],
     shared    |-> [Base EXCEPT !.fx10.sensor_trigger.trigger_channel = 3,
                                !.fx10.acquisition.frame_rate_hz = 5, !.gox.cameras[2].enabled = FALSE],
     clash     |-> [Base EXCEPT !.fx10.sensor_trigger.trigger_channel = 2,
                                !.fx10.acquisition.frame_rate_hz = 5, !.gox.cameras[2].enabled = FALSE],
     namesake  |-> [Base EXCEPT !.gox.cameras[1].id.text = "fx10",
                                !.gox.cameras[2].enabled = FALSE],
     noPort    |-> [GoxOnly EXCEPT !.main.port = ""],
     noAddress |-> [Fx10Only EXCEPT !.fx10.mac = ""],
     noAxis    |-> [Fx10Only EXCEPT !.fx10.output.wavelengths.source = "none"],
     grid      |-> [Fx10Only EXCEPT !.fx10.output.wavelengths.source = "grid"],
     listed    |-> [Fx10Only EXCEPT !.fx10.output.wavelengths.source = "list",
                                    !.fx10.output.wavelengths.list = <<400, 700, 1000>>],
     otherUnit |-> [Fx10Only EXCEPT !.geometry.serial = "F2"],
     moved     |-> [Fx10Only EXCEPT !.geometry.offset_y = 4],
     binned    |-> [Fx10Only EXCEPT !.geometry.bands = 2],
     short     |-> [Fx10Only EXCEPT !.files.pack = <<<<400>>, <<700>>>>],
     ragged    |-> [Fx10Only EXCEPT !.files.pack = <<<<400, 5>>, <<700>>, <<1000, 6>>>>],
     tight     |-> [Fx10Only EXCEPT !.fx10.network.max_buffer_memory_mb = 6],
     eight     |-> [Fx10Only EXCEPT !.fx10.network.max_buffer_memory_mb = 7,
                                    !.fx10.network.stall_budget_s = 0,
                                    !.devices[Fx10Owner].payload_kb = 896],
     tooTight  |-> [Fx10Only EXCEPT !.fx10.network.max_buffer_memory_mb = 5],
     sdkSmall  |-> [OneGox EXCEPT !.devices[Gox2].sdk_max = 3],
     many      |-> [OneGox EXCEPT !.gox.cameras[1].network.buffer_count = 200],
     bigQueue  |-> [OneGox EXCEPT !.gox.output.queue_max_frames = 100]]

GoxWith(i, field, value) == [GoxOnly EXCEPT !.gox.cameras[i].acquisition[field] = value]

RefusedGox ==
    [gForeign  |-> [GoxOnly EXCEPT !.gox.file.foreign = {"ptpp"}],
     gNone     |-> [GoxOnly EXCEPT !.gox.cameras = << >>],
     gOff      |-> [OneGox EXCEPT !.gox.cameras[1].enabled = FALSE],
     gTwice    |-> [GoxOnly EXCEPT !.gox.cameras[2].id.text = "gox2"],
     gPath     |-> [GoxOnly EXCEPT !.gox.cameras[1].id.chars = {"alnum", "/"}],
     gLost     |-> [GoxOnly EXCEPT !.gox.cameras[1].mac = ""],
     gMac      |-> [GoxOnly EXCEPT !.gox.cameras[1].mac = "malformed"],
     gWire     |-> [GoxOnly EXCEPT !.gox.cameras[2].acquisition.trigger.sensor_channel = 2],
     gRates    |-> GoxWith(2, "frame_rate_hz", {4}),
     gNoRate   |-> GoxWith(1, "frame_rate_hz", {}),
     gFast     |-> [GoxOnly EXCEPT !.gox.cameras[1].acquisition.frame_rate_hz = {11},
                                   !.gox.cameras[2].acquisition.frame_rate_hz = {11}],
     gLong     |-> GoxWith(1, "exposure_ms", {180}),
     gLongFree |-> Freerun(Freerun(GoxWith(1, "exposure_ms", {180}), 1), 2),
     gDark     |-> GoxWith(1, "exposure_ms", {0}),
     gGain     |-> GoxWith(1, "gain", {127}),
     gStopped  |-> GoxWith(1, "frame_rate_hz", {0}),
     gFormat   |-> GoxWith(1, "pixel_format", {}),
     gRoi      |-> GoxWith(1, "roi", {[width |-> 100, height |-> 8, offset_x |-> 0, offset_y |-> 0]}),
     gSource   |-> [GoxOnly EXCEPT !.gox.cameras[1].acquisition.trigger.source_entry.number = {20}],
     gFilter   |-> [GoxOnly EXCEPT !.gox.cameras[1].acquisition.trigger.input_filter_ns = 150],
     gBuffers  |-> [GoxOnly EXCEPT !.gox.cameras[1].network.buffer_count = 3],
     gPacket   |-> [GoxOnly EXCEPT !.gox.cameras[1].network.packet_size = 1475],
     gAlign    |-> [GoxOnly EXCEPT !.gox.output.record_align = 3000],
     gQueue    |-> [GoxOnly EXCEPT !.gox.output.queue_max_frames = 1],
     gPtp      |-> [GoxOnly EXCEPT !.gox.ptp.sync_timeout_s = 0]]

Fx10With(field, value) == [Fx10Only EXCEPT !.fx10.acquisition[field] = value]
Mroi(tokens) == Fx10With("mroi", [enabled |-> TRUE, multiband |-> tokens])

RefusedFx10 ==
    [fForeign  |-> [Fx10Only EXCEPT !.fx10.file.mistyped = {"exposure_ms"}],
     fMac      |-> [Fx10Only EXCEPT !.fx10.mac = "malformed"],
     fLong     |-> Fx10With("exposure_ms", 23),
     fStopped  |-> Fx10With("frame_rate_hz", 0),
     fSlow     |-> Fx10With("frame_rate_hz", 19),
     fJai      |-> [Fx10Only EXCEPT !.fx10.sensor_trigger.trigger_channel = 2],
     fBinning  |-> Fx10With("spatial_binning", 2),
     fPlain    |-> Fx10With("image_enhancement", FALSE),
     fFormat   |-> Fx10With("pixel_format", "Mono16"),
     fRegions  |-> Mroi(<<Blank>>),
     fBelow    |-> Mroi(<<Token(1081, 2)>>),
     fTall     |-> Mroi(<<Token(0, 448), Token(500, 1)>>),
     fThree    |-> Mroi(<<[blank |-> FALSE, numbers |-> <<1, 2>>, rest |-> TRUE]>>),
     fShutter  |-> [Fx10Only EXCEPT !.fx10.raw[1].name = "MotorShutter_PulseFwd"],
     fValue    |-> [Fx10Only EXCEPT !.fx10.raw[1].has_value = FALSE],
     fPoll     |-> [Fx10Only EXCEPT !.fx10.network.retrieve_timeout_ms = 0],
     fGrid     |-> [Fx10Only EXCEPT !.fx10.output.wavelengths.grid_end_nm = 400],
     fBrief    |-> [Fx10Only EXCEPT !.fx10.reference_duration_ms = 99],
     mSilent   |-> [Base EXCEPT !.main.file.missing = {"General"}],
     mPort     |-> [Base EXCEPT !.main.port = "relative"],
     mDisk     |-> [Base EXCEPT !.main.guards.disk_warn_free_gib = 5],
     mNoData   |-> [Base EXCEPT !.main.guards.no_data_warn_s = 30],
     mNothing  |-> [Fx10Only EXCEPT !.main.enable_fx10 = FALSE]]

MCOwners == {Fx10Owner, Gox2, Gox3, Namesake}
MCRigs == Accepted @@ RefusedGox @@ RefusedFx10
=============================================================================
