--------------------------- MODULE AsterxCommands ---------------------------
(***************************************************************************)
(* What the AsteRx driver asks of the receiver: the document it loads      *)
(* (app_config.cpp), the settings it accepts and the configure sequence    *)
(* built from them (commands.cpp).                                         *)
(*                                                                         *)
(* A text is [text, len, chars]: a name for its content, its length and    *)
(* the classes of its characters, "plain" (letters, digits and the signs   *)
(* of p.64), "space", "comma", "dquote", "sign" (' $ &) and "bad".  Words  *)
(* of the receiver are compared without regard to case, so a word stands   *)
(* for all its spellings.  A '+'-joined list is the set of its tokens,     *)
(* <<word>> or <<system, number, digits>>.  Numbers are whole: a fraction  *)
(* is in the range that its neighbours are in.                             *)
(*                                                                         *)
(* A command is [kind, verb, name, target, fields].  `target` tells the    *)
(* instances of a setting apart (a stream, an antenna, a port).  Of a      *)
(* "set" the fields are the positions of its arguments, of a "get" the     *)
(* positions at which verify_fields names the value that was set.          *)
(***************************************************************************)
EXTENDS Integers, Sequences, FiniteSets, ConfigUtil

kMaxUserLength == 16
kMaxPasswordLength == 32
kGpsMaxTracking == 39
kGpsMaxUsage == 32

Constellations == {"GPS", "GLONASS", "GALILEO", "SBAS", "BEIDOU", "QZSS"}
Signals ==
    {"GPSL1CA", "GPSL2PY", "GPSL2C", "GPSL5", "GPSL1C", "GLOL1CA", "GLOL2P", "GLOL2CA",
     "GALE1BC", "GALE5a", "GALE5b", "GALE5", "GEOL1", "GEOL5", "BDSB1I", "BDSB2I", "BDSB3I",
     "QZSL1CA", "QZSL2C", "QZSL5", "QZSL1C", "QZSL1CB"}
PpsIntervals ==
    {"off", "msec10", "msec20", "msec50", "msec100", "msec200", "msec250", "msec500",
     "sec1", "sec2", "sec4", "sec5", "sec10", "sec30", "sec60"}
TimeScales == {"GPS", "Galileo", "BeiDou", "GLONASS", "UTC", "RxClock"}
SendGga == {"auto", "off", "sec1", "sec5", "sec10", "sec60"}
PvtModes == {"StandAlone", "SBAS", "DGNSS", "RTKFloat", "RTKFixed", "RTK"}
VehicleApplications ==
    {"Unknown", "RoadVehicle", "HaulTruck", "Tractor", "TerminalTractor", "ReachStacker",
     "LiftTruck", "Excavator", "Loader", "Grader", "Dozer", "RoadRobot", "OffroadRobot",
     "FixedWing", "Multirotor", "USV", "RailVehicle"}
ClockSyncThresholds == {"ClockSteering", "usec500", "msec1", "msec2", "msec3", "msec4", "msec5"}

(* Neither list has an "off": the driver only asks for streams it wants. *)
SbfIntervals ==
    {"onchange", "msec5", "msec10", "msec20", "msec40", "msec50", "msec100", "msec200",
     "msec500", "sec1", "sec2", "sec5", "sec10", "sec15", "sec30", "sec60", "min2", "min5",
     "min10", "min15", "min30", "min60"}
NmeaMessages ==
    {"gga", "gll", "gns", "gst", "hdt", "rmc", "vtg", "zda", "hrp", "ths", "pashr"}
PinDescriptors ==
    {"com1", "com2", "usb1", "usb2", "ip10", "ip11", "ip12", "ip13", "ip14", "ip15", "ip16",
     "ip17", "ntr1", "ntr2", "ntr3", "ips1", "ips2", "ips3", "ips4", "ips5", "ipr1", "ipr2",
     "ipr3", "ipr4", "ipr5", "log1", "log2"}

----------------------------------------------------------------------------
(* Validation. *)

Words(set) == {<<word>> : word \in set}

(* The tracking lists have a gap: there is no G37. *)
SatelliteIds(gpsMax) ==
    LET ids(system, numbers, digits) == {<<system, n, digits>> : n \in numbers}
    IN  ids("G", IF gpsMax >= 38 THEN (1 .. 36) \cup {38, 39} ELSE 1 .. gpsMax, 2)
            \cup ids("R", 1 .. 30, 2) \cup ids("E", 1 .. 36, 2) \cup ids("S", 120 .. 158, 3)
            \cup ids("C", 1 .. 63, 2) \cup ids("J", 1 .. 10, 2)

ValidPlusList(list, allowNone, tokens) ==
    \/ list = {<<"all">>}
    \/ list = {<<"none">>} /\ allowNone
    \/ list # {} /\ list \subseteq tokens \ {<<"all">>, <<"none">>}

IsValidSatelliteList(list, gpsMax) ==
    ValidPlusList(list, TRUE, Words(Constellations) \cup SatelliteIds(gpsMax))

IsValidSignalList(list, allowAlias) ==
    ValidPlusList(list, FALSE, Words(Signals \cup IF allowAlias THEN Constellations ELSE {}))

ReceiverTextOk(t, allowEscapable) ==
    t.chars \subseteq {"plain", "space"}
                      \cup IF allowEscapable THEN {"comma", "dquote", "sign"} ELSE {}

Credential(t, max) == t.len \in 1 .. max /\ ReceiverTextOk(t, FALSE)

AntennaName(t) == t.len \in 1 .. 20 /\ {"comma", "dquote"} \cap t.chars = {}

ValidAntenna(a) ==
    /\ AntennaName(a.main_type) /\ AntennaName(a.aux_type)
    /\ \A axis \in DOMAIN a.lever_arm_m : a.lever_arm_m[axis] \in -100 .. 100
    /\ a.heading_deg \in -360 .. 360 /\ a.pitch_deg \in -90 .. 90

ValidGnss(g) ==
    /\ g.cn0_mask_dbhz \in 0 .. 60 /\ g.elevation_mask_deg \in -90 .. 90
    /\ IsValidSatelliteList(g.satellite_tracking, kGpsMaxTracking)
    /\ IsValidSatelliteList(g.satellite_usage, kGpsMaxUsage)
    /\ IsValidSatelliteList(g.satellite_health_override, kGpsMaxTracking)
    /\ IsValidSignalList(g.signal_tracking, TRUE)
    /\ IsValidSignalList(g.signal_usage, FALSE)

ValidImu(imu) ==
    /\ imu.startup_data_mode \in {"Boot", "GnssTimeKnown"}
    /\ imu.orientation_mode \in {"SensorDefault", "manual", "fixed"}
    /\ imu.theta_deg[1] \in -180 .. 180 /\ imu.theta_deg[2] \in -90 .. 90
    /\ imu.theta_deg[3] \in -180 .. 180

ValidNavigation(nav) ==
    /\ ValidPlusList(nav.pvt_mode, FALSE, Words(PvtModes))
    /\ nav.receiver_dynamics \in {"Max", "High", "Moderate", "Low"}
    /\ nav.vehicle_application \in VehicleApplications
    /\ nav.clock_sync_threshold \in ClockSyncThresholds
    /\ nav.ins_output_location \in {"MainAnt", "POI1"}

(* The pulse width counts in nanoseconds: at least one. *)
ValidPps(pps) ==
    /\ pps.interval \in PpsIntervals /\ pps.polarity \in {"Low2High", "High2Low"}
    /\ pps.delay_ns \in -1000000 .. 1000000 /\ pps.time_scale \in TimeScales
    /\ pps.max_holdover_s \in 0 .. 3600 /\ pps.pulse_width_ns \in 1 .. 1000000000

(* Checked only when it will be sent. *)
ValidNtrip(n) ==
    LET text(t, max, password) ==
            t.len \in 1 .. max /\ t.text # "<?>" /\ ReceiverTextOk(t, password)
    IN  n.enabled =>
            /\ text(n.caster, 40, FALSE) /\ text(n.username, 128, FALSE)
            /\ text(n.password, 32, TRUE) /\ text(n.mount_point, 32, FALSE)
            /\ "space" \notin n.caster.chars \cup n.mount_point.chars
            /\ n.port \in 1 .. 65535
            /\ n.version \in {"v1", "v2"} /\ n.send_gga \in SendGga

(* EnforceDescriptor; what the receiver calls our connection. *)
DescriptorOk(d) == d.len > 0 /\ {"comma", "space"} \cap d.chars = {}

kMaxAsciiCommandLength == 2000

(* When BuildSbfOutputCommand and BuildNmeaOutputCommand do not throw;
   `len` is the length of the command without the descriptor. *)
SbfStreamOk(stream, descriptor) ==
    /\ stream.id \in 1 .. 10 /\ DescriptorOk(descriptor)
    /\ stream.blocks # {} /\ stream.interval \in SbfIntervals
    /\ stream.len + descriptor.len <= kMaxAsciiCommandLength

NmeaStreamOk(stream) ==
    /\ stream.id \in 1 .. 10 /\ stream.descriptor \in PinDescriptors
    /\ stream.messages # {} /\ stream.messages \subseteq NmeaMessages
    /\ stream.interval \in SbfIntervals

(* The real descriptor is known only once connected. *)
Placeholder == [text |-> "ip10", len |-> 4, chars |-> {"plain"}]

DistinctIds(streams) ==
    \A i, k \in DOMAIN streams : streams[i].id = streams[k].id => i = k

(* Without ReceiverStatus there is neither FINETIME nor an up-time. *)
ValidStreams(settings) ==
    LET sbf == settings.sbf_streams
        nmea == settings.nmea_streams
    IN  /\ sbf # << >> /\ DistinctIds(sbf) /\ DistinctIds(nmea)
        /\ \A i \in DOMAIN sbf : SbfStreamOk(sbf[i], Placeholder)
        /\ \E i \in DOMAIN sbf : sbf[i].blocks \cap {"ReceiverStatus", "Status", "Support"} # {}
        /\ \A i \in DOMAIN nmea : NmeaStreamOk(nmea[i])

ValidateReceiverSettings(settings) ==
    /\ Credential(settings.user, kMaxUserLength) /\ settings.user.text # "RxAdmin"
    /\ Credential(settings.password, kMaxPasswordLength)
    /\ ValidAntenna(settings.antenna) /\ ValidGnss(settings.gnss) /\ ValidImu(settings.imu)
    /\ ValidNavigation(settings.navigation) /\ ValidPps(settings.time_system.pps)
    /\ ValidNtrip(settings.ntrip) /\ settings.warmup.min_recording_s >= 0
    /\ ValidStreams(settings)

----------------------------------------------------------------------------
(* The document, as module ConfigUtil has it. *)

NotBlank(t) == t.len > 0 /\ t.chars # {"space"}

DeviceOk(doc) ==
    /\ NotBlank(doc.ip) /\ doc.port \in 1 .. 65535
    /\ NotBlank(doc.receiver.user) /\ NotBlank(doc.receiver.password)

OutputOk(output) ==
    /\ NotBlank(output.file_prefix) /\ output.write_queue_mb \in 16 .. 4096
    /\ output.max_bytes \in 1 .. 2147483647 /\ output.max_interval_s \in 1 .. 604800

(* NTRIP's words and port are checked even when it is off. *)
NtripWordsOk(n) == n.port \in 1 .. 65535 /\ n.version \in {"v1", "v2"} /\ n.send_gga \in SendGga

AntennaOk(a) == NotBlank(a.main_type) /\ NotBlank(a.aux_type)

GnssOk(g) ==
    {} \notin {g.satellite_tracking, g.satellite_usage, g.satellite_health_override,
              g.signal_tracking, g.signal_usage}

ImuOk(imu) ==
    /\ imu.startup_data_mode \in {"GnssTimeKnown", "Boot"}
    /\ imu.orientation_mode \in {"SensorDefault", "manual", "fixed"}

NavigationOk(nav) ==
    /\ nav.pvt_mode # {} /\ nav.ins_output_location \in {"MainAnt", "POI1"}
    /\ "" \notin {nav.receiver_dynamics, nav.vehicle_application, nav.clock_sync_threshold}

TimeSystemOk(ts) == "" \notin {ts.pps.interval, ts.pps.polarity, ts.pps.time_scale}

(* Streams need blocks or messages; a pin stream's number is its position. *)
StreamsOk(r) ==
    /\ \A i \in DOMAIN r.sbf_streams : r.sbf_streams[i].blocks # {}
    /\ \A i \in DOMAIN r.nmea_streams : r.nmea_streams[i].messages # {}
    /\ Len(r.nmea_streams) <= 10

NumberedStreams(streams) ==
    [i \in DOMAIN streams |->
       [id |-> i, descriptor |-> streams[i].descriptor, messages |-> streams[i].messages,
        interval |-> streams[i].interval]]

Settings(doc) ==
    [doc.receiver EXCEPT !.nmea_streams = NumberedStreams(@)]

ReceiverOk(r) ==
    /\ NtripWordsOk(r.ntrip) /\ AntennaOk(r.antenna) /\ GnssOk(r.gnss) /\ ImuOk(r.imu)
    /\ NavigationOk(r.navigation) /\ TimeSystemOk(r.time_system) /\ StreamsOk(r)

StatsIntervalOk(doc) == doc.stats_interval_ms \in 1 .. 3600000

LoadAppConfig(doc) ==
    /\ WellFormed(doc.file) /\ DeviceOk(doc) /\ OutputOk(doc.output)
    /\ StatsIntervalOk(doc) /\ ReceiverOk(doc.receiver)
    /\ ValidateReceiverSettings(Settings(doc))

----------------------------------------------------------------------------
(* The configure sequence. *)

Command(kind, verb, name, target, fields) ==
    [kind |-> kind, verb |-> verb, name |-> name, target |-> target, fields |-> fields]

(* Mutant: the setting is sent and not read back. *)
SetOnly(name, target, arguments, compared) ==
    <<Command("plain", "set", name, target, arguments)>>

(* set_and_echo: only what the receiver echoes unchanged is compared. *)
SetAndEcho(name, target, arguments, compared) ==
    <<Command("plain", "set", name, target, arguments),
      Command("echo", "get", name, target, compared)>>

Simple(name) == SetAndEcho(name, "", {1}, {1})

StreamNames ==
    <<"Stream1", "Stream2", "Stream3", "Stream4", "Stream5", "Stream6", "Stream7", "Stream8",
      "Stream9", "Stream10">>

TimeCommands(ts) ==
    SetAndEcho("PPSParameters", "", 1 .. 6, 1 .. 6) \o Simple("NTPServer") \o Simple("PTPServer")

(* A port is opened for NMEA once, before its first stream. *)
NmeaCommands(streams) ==
    LET first(i) == \A k \in 1 .. i - 1 : streams[k].descriptor # streams[i].descriptor
        C[i \in 0 .. Len(streams)] ==
            IF i = 0 THEN << >>
            ELSE C[i - 1]
                 \o (IF first(i) THEN SetAndEcho("DataInOut", streams[i].descriptor, {1, 3}, {1})
                                 ELSE << >>)
                 \o SetAndEcho("NMEAOutput", StreamNames[streams[i].id], 1 .. 4, {1, 2, 4})
    IN  C[Len(streams)]

AntennaCommands(a) ==
    (IF a.main_type.text # "Unknown" \/ a.aux_type.text # "Unknown"
     THEN <<Command("antennas", "lst", "AntennaInfo", "", {})>> ELSE << >>)
    \o SetAndEcho("AntennaType", "Main", {1, 2}, {1, 2})
    \o SetAndEcho("AntennaType", "Aux1", {1, 2}, {1, 2})
    \o SetAndEcho("AttitudeOffset", "", {1, 2}, {1, 2})
    \o SetAndEcho("INSAntLeverArm", "", 1 .. 3, 1 .. 3)

(* The receiver expands a list of satellites or signals; only "none" comes
   back as it went. *)
GnssCommands(g) ==
    LET if_none(list, fields) == IF list = {<<"none">>} THEN fields ELSE {}
    IN  SetAndEcho("CN0Mask", "", {1, 2}, {2}) \o SetAndEcho("ElevationMask", "", {1, 2}, {2})
        \o SetAndEcho("SatelliteTracking", "", {1}, if_none(g.satellite_tracking, {1}))
        \o SetAndEcho("SatelliteUsage", "", {1}, if_none(g.satellite_usage, {1}))
        \o SetAndEcho("SatelliteHealthOverride", "", {1, 2},
                      if_none(g.satellite_health_override, {1, 2}))
        \o SetAndEcho("SignalTracking", "", {1}, {}) \o SetAndEcho("SignalUsage", "", {1, 2}, {})

ImuCommands(imu) ==
    LET fields == IF imu.orientation_mode = "SensorDefault" THEN {1} ELSE 1 .. 4
    IN  Simple("IMUStartupDataMode") \o SetAndEcho("IMUOrientation", "", fields, fields)
        \o Simple("GNSSAttitude")

(* The password comes back encrypted. *)
NtripCommands(n) ==
    IF ~n.enabled THEN SetAndEcho("NtripSettings", "NTR1", {1, 2}, {1, 2})
    ELSE SetAndEcho("NtripSettings", "NTR1", 1 .. 9, (1 .. 9) \ {6})
         \o SetAndEcho("NtripTlsSettings", "NTR1", 1 .. 3, {1, 2})

NavigationCommands(nav) ==
    SetAndEcho("PVTMode", "", {1, 2}, {1}) \o Simple("ReceiverDynamics")
    \o Simple("VehicleApplication") \o Simple("ClockSyncThreshold")
    \o SetAndEcho("MultipathMitigation", "", {1, 2}, {1, 2})
    \o SetAndEcho("INSNavConfig", "", 1 .. 3, {1, 3})

SbfCommands(streams) ==
    LET C[i \in 0 .. Len(streams)] ==
            IF i = 0 THEN << >>
            ELSE C[i - 1] \o SetAndEcho("SBFOutput", StreamNames[streams[i].id], 1 .. 4, {1, 2, 4})
    IN  C[Len(streams)]

(* When BuildCommandList throws: its descriptor, or a stream. *)
BuildThrows(settings, descriptor) ==
    \/ ~DescriptorOk(descriptor)
    \/ \E i \in DOMAIN settings.sbf_streams : ~SbfStreamOk(settings.sbf_streams[i], descriptor)
    \/ \E i \in DOMAIN settings.nmea_streams : ~NmeaStreamOk(settings.nmea_streams[i])

(* The listing comes before the streams, which would be mixed into it. *)
BuildCommandList(settings, descriptor) ==
    <<Command("plain", "exe", "login", "", {}),
      Command("plain", "exe", "CopyConfigFile", "Boot", {}),
      Command("capabilities", "get", "ReceiverCapabilities", "", {})>>
    \o TimeCommands(settings.time_system)
    \o NmeaCommands(settings.nmea_streams)
    \o AntennaCommands(settings.antenna)
    \o GnssCommands(settings.gnss)
    \o ImuCommands(settings.imu)
    \o NtripCommands(settings.ntrip)
    \o NavigationCommands(settings.navigation)
    \o SetAndEcho("DataInOut", descriptor.text, {1, 3}, {1})
    \o <<Command("listing", "lst", "ConfigFile", "Current", {})>>
    \o SbfCommands(settings.sbf_streams)

ListKinds == {"antennas", "listing"}

DriverCommandWhitelist(cmds) ==
    {"UserAccessLevel"} \cup {cmds[i].name : i \in {k \in DOMAIN cmds : cmds[k].verb = "set"}}

----------------------------------------------------------------------------
(* The receiver, as the driver uses it: the lines of its configuration
   [name, target, permanent], and the arguments that it took otherwise than
   they were sent, [name, target, field]. *)

Line(name, target) == [name |-> name, target |-> target, permanent |-> FALSE]

OfLine(arguments, c) == {a \in arguments : a.name = c.name /\ a.target = c.target}

(* A command is obeyed; of a "set" the argument at `bent` is changed, none
   when it is 0. *)
Obey(r, c, bent) ==
    IF c.verb = "set"
    THEN [r EXCEPT !.lines = @ \cup {Line(c.name, c.target)},
                   !.bent = (@ \ OfLine(@, c)) \cup
                       IF bent = 0 THEN {}
                       ELSE {[name |-> c.name, target |-> c.target, field |-> bent]}]
    ELSE IF c.name = "login" THEN [r EXCEPT !.lines = @ \cup {Line("UserAccessLevel", "User1")}]
    ELSE IF c.name = "CopyConfigFile"
    THEN [r EXCEPT !.lines = r.boot \cup {l \in @ : l.permanent}, !.bent = {}]
    ELSE r

(* verify_first_fields on what the receiver reads back. *)
EchoMatches(r, c) == \A a \in OfLine(r.bent, c) : a.field \notin c.fields

VerifyAntennaTypes(ids, a) ==
    \A t \in {a.main_type.text, a.aux_type.text} : t = "Unknown" \/ t \in ids

(* The listing names commands, and permanent ones are marked. *)
VerifyConfigListing(lines, whitelist) ==
    \A l \in lines : l.permanent \/ l.name \in whitelist

(* What the driver makes of a complete answer. *)
AnswerAccepted(r, c, settings, whitelist) ==
    CASE c.kind = "echo"         -> EchoMatches(r, c)
      [] c.kind = "capabilities" -> r.aux1
      [] c.kind = "antennas"     -> VerifyAntennaTypes(r.antennas, settings.antenna)
      [] c.kind = "listing"      -> VerifyConfigListing(r.lines, whitelist)
      [] OTHER                   -> TRUE
=============================================================================
