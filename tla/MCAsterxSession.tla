--------------------------- MODULE MCAsterxSession --------------------------
(* Two files that load, one with everything at its default and one with every
   option the configure sequence depends on, and files that differ from them in
   one value that is out of bounds; a receiver with streams of its own in Boot,
   or a command the driver never sends; two up-times, so that a reset shows. *)
EXTENDS AsterxSession

Plain(text, len) == [text |-> text, len |-> len, chars |-> {"plain"}]
Odd(text, len, class) == [text |-> text, len |-> len, chars |-> {"plain", class}]

Default ==
    [file |-> CleanFile, ip |-> Plain("host", 12), port |-> 28784,
     output |-> [file_prefix |-> Plain("asterx", 6), write_queue_mb |-> 256,
                 max_bytes |-> 2147483647, max_interval_s |-> 3600],
     stats_interval_ms |-> 1000,
     receiver |->
        [user |-> Plain("admin", 5), password |-> Plain("septentrio", 10),
         sbf_streams |-> <<[id |-> 1, blocks |-> {"Support"}, interval |-> "onchange", len |-> 40]>>,
         nmea_streams |-> << >>,
         antenna |-> [main_type |-> Plain("Unknown", 7), aux_type |-> Plain("Unknown", 7),
                      heading_deg |-> 0, pitch_deg |-> 0, lever_arm_m |-> <<0, 0, 0>>],
         gnss |-> [cn0_mask_dbhz |-> 0, elevation_mask_deg |-> 0,
                   satellite_tracking |-> {<<"all">>}, satellite_usage |-> {<<"all">>},
                   satellite_health_override |-> {<<"none">>}, signal_tracking |-> {<<"all">>},
                   signal_usage |-> {<<"all">>}],
         imu |-> [startup_data_mode |-> "GnssTimeKnown", orientation_mode |-> "SensorDefault",
                  theta_deg |-> <<0, 0, 0>>],
         time_system |-> [ptp_server |-> FALSE, ntp_server |-> FALSE,
            pps |-> [interval |-> "sec1", polarity |-> "Low2High", delay_ns |-> 0,
                     time_scale |-> "GPS", max_holdover_s |-> 60, pulse_width_ns |-> 5000000]],
         ntrip |-> [enabled |-> FALSE, caster |-> Plain("", 0), port |-> 2101,
                    username |-> Plain("", 0), password |-> Plain("", 0),
                    mount_point |-> Plain("", 0), version |-> "v2", send_gga |-> "auto"],
         navigation |-> [pvt_mode |-> {<<"all">>}, receiver_dynamics |-> "Moderate",
                         vehicle_application |-> "Unknown", clock_sync_threshold |-> "usec500",
                         ins_output_location |-> "POI1"],
         warmup |-> [min_recording_s |-> 1200, require_finetime |-> TRUE]]]

Rich ==
    [Default EXCEPT
       !.receiver.sbf_streams =
           @ \o <<[id |-> 10, blocks |-> {"Measurements"}, interval |-> "sec1", len |-> 1996]>>,
       !.receiver.nmea_streams = <<[descriptor |-> "com2", messages |-> {"zda"}, interval |-> "sec1"],
                                   [descriptor |-> "com2", messages |-> {"gga"}, interval |-> "msec5"],
                                   [descriptor |-> "ip10", messages |-> {"rmc"}, interval |-> "sec1"]>>,
       !.receiver.antenna.main_type = Odd("AERAT2775", 20, "space"),
       !.receiver.gnss.satellite_tracking = {<<"GPS">>, <<"G", 39, 2>>, <<"S", 158, 3>>},
       !.receiver.gnss.satellite_usage = {<<"none">>},
       !.receiver.gnss.signal_tracking = {<<"GPS">>, <<"GALE5a">>},
       !.receiver.imu.orientation_mode = "manual",
       !.receiver.imu.theta_deg = <<-180, 90, 180>>,
       !.receiver.ntrip = [enabled |-> TRUE, caster |-> Plain("caster", 40), port |-> 65535,
                           username |-> Odd("user", 4, "space"), password |-> Odd("word", 32, "comma"),
                           mount_point |-> Plain("MOUNT", 5), version |-> "v1", send_gga |-> "sec60"],
       !.receiver.warmup = [min_recording_s |-> 0, require_finetime |-> FALSE]]

Stream(i, ids) == [id |-> ids[i], blocks |-> {"Support"}, interval |-> "sec1", len |-> 40]

MCDocuments ==
    <<Default, Rich,
      [Default EXCEPT !.file.foreign = {"port"}],
      [Default EXCEPT !.output.write_queue_mb = 15],
      [Default EXCEPT !.stats_interval_ms = 0],
      [Default EXCEPT !.receiver.user = Plain("RxAdmin", 7)],
      [Default EXCEPT !.receiver.password = Odd("word", 4, "comma")],
      [Default EXCEPT !.receiver.antenna.aux_type = Plain("name", 21)],
      [Default EXCEPT !.receiver.gnss.satellite_usage = {<<"G", 33, 2>>}],
      [Default EXCEPT !.receiver.gnss.satellite_tracking = {<<"G", 37, 2>>}],
      [Default EXCEPT !.receiver.gnss.signal_usage = {<<"GPS">>}],
      [Default EXCEPT !.receiver.gnss.signal_usage = {<<"none">>}],
      [Rich EXCEPT !.receiver.imu.theta_deg = <<0, 91, 0>>],
      [Default EXCEPT !.receiver.navigation.pvt_mode = {}],
      [Default EXCEPT !.receiver.time_system.pps.pulse_width_ns = 0],
      [Rich EXCEPT !.receiver.ntrip.caster = Plain("<?>", 3)],
      [Default EXCEPT !.receiver.ntrip.version = "v3"],
      [Default EXCEPT !.receiver.sbf_streams = << >>],
      [Default EXCEPT !.receiver.sbf_streams[1].blocks = {"Measurements"}],
      [Default EXCEPT !.receiver.sbf_streams = [i \in 1 .. 2 |-> Stream(i, <<3, 3>>)]],
      [Default EXCEPT !.receiver.sbf_streams = [i \in 1 .. 1 |-> Stream(i, <<11>>)]],
      [Default EXCEPT !.receiver.sbf_streams[1].len = 1997],
      [Rich EXCEPT !.receiver.nmea_streams[1].messages = {"gsv"}],
      [Default EXCEPT !.receiver.warmup.min_recording_s = -1]>>

MCDescriptors == {Plain("ip10", 4), Odd("ip 1", 4, "space")}

Permanent(name) == [name |-> name, target |-> "", permanent |-> TRUE]
Receiver0 == [boot |-> {}, lines |-> {}, aux1 |-> TRUE, antennas |-> {"AERAT2775"}]
MCReceivers ==
    {[Receiver0 EXCEPT !.boot = {Permanent("IPSettings"), Line("SBFOutput", "Stream5")},
                       !.lines = {Permanent("IPSettings"), Line("SBFOutput", "Stream9")}],
     [Receiver0 EXCEPT !.boot = {Line("Foreign", "")}, !.antennas = {}],
     [Receiver0 EXCEPT !.aux1 = FALSE]}
=============================================================================
