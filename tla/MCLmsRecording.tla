--------------------------- MODULE MCLmsRecording ---------------------------
(* Streams of up to four telegrams, each with the configuration it is received
   under, and configurations that are refused. *)
EXTENDS LmsRecording

MCSizes == {1, 3}

----------------------------------------------------------------------------
(* Configurations. *)

Address(a, b, c, d) ==
    LET part(v) == [value |-> v, digits |-> IF v > 99 THEN 3 ELSE IF v > 9 THEN 2 ELSE 1]
    IN  <<part(a), part(b), part(c), part(d)>>
Here == Address(192, 168, 0, 1)
Padded == [Here EXCEPT ![4] = [value |-> 1, digits |-> 2]]

Lidar(id, ip) ==
    [id |-> id, id_length |-> 4, id_plain |-> TRUE, enabled |-> TRUE, ip |-> ip, port |-> 2111]

Doc ==
    [file |-> CleanFile, lidars |-> <<Lidar("left", Here)>>, scan |-> [remission |-> "rssi"],
     ntp |-> [enabled |-> TRUE, server |-> Address(192, 168, 0, 9), sync_interval_s |-> 1,
              check_status_s |-> 5, lock_timeout_s |-> 60, max_time_step_ms |-> 20],
     network |-> [recv_buffer_bytes |-> 4194304, receive_thread_priority |-> 99,
                  receive_thread_cpu |-> -1, connect_timeout_ms |-> 500,
                  response_timeout_ms |-> 200, config_timeout_ms |-> 2000,
                  keepalive_idle_s |-> 10, keepalive_interval_s |-> 5, keepalive_count |-> 3],
     output |-> [queue_max_frames |-> 512, max_file_bytes |-> 1073741824, flush_interval_ms |-> 1000],
     telemetry_interval_s |-> 10, stats_interval_s |-> 2]

Refl == [Doc EXCEPT !.scan.remission = "refl"]
Tight == [Doc EXCEPT !.ntp.max_time_step_ms = 4]
NoNtp == [Doc EXCEPT !.ntp.enabled = FALSE, !.ntp.server = << >>]

(* At the limits, and just outside them. *)
Documents ==
    <<[Doc EXCEPT !.lidars = <<Lidar("left", Here), Lidar("right", Address(192, 168, 0, 2))>>],
      [Doc EXCEPT !.lidars = <<Lidar("left", Here), [Lidar("right", Here) EXCEPT !.enabled = FALSE]>>],
      [Doc EXCEPT !.network.receive_thread_cpu = Cpus - 1, !.output.max_file_bytes = 0],
      [Doc EXCEPT !.lidars = << >>],
      [Doc EXCEPT !.lidars[1].enabled = FALSE],
      [Doc EXCEPT !.lidars = <<Lidar("left", Here), Lidar("left", Address(192, 168, 0, 2))>>],
      [Doc EXCEPT !.lidars = <<Lidar("left", Here), Lidar("right", Here)>>],
      [Doc EXCEPT !.lidars = <<Lidar("left", Here), Lidar("right", Padded)>>],
      [Doc EXCEPT !.lidars = <<Lidar("left", Address(192, 168, 0, 256))>>],
      [Doc EXCEPT !.lidars[1].id_plain = FALSE], [Doc EXCEPT !.lidars[1].id_length = 64],
      [Doc EXCEPT !.lidars[1].port = 0], [Doc EXCEPT !.file.foreign = {"x"}],
      [Doc EXCEPT !.scan.remission = "both"], [Doc EXCEPT !.ntp.server = << >>],
      [Doc EXCEPT !.ntp.lock_timeout_s = 0], [Doc EXCEPT !.network.receive_thread_cpu = Cpus],
      [Doc EXCEPT !.network.config_timeout_ms = 99], [Doc EXCEPT !.output.max_file_bytes = 1048575],
      [Doc EXCEPT !.output.queue_max_frames = 1], [Doc EXCEPT !.stats_interval_s = 3601]>>

----------------------------------------------------------------------------
(* Telegrams: what the scanner says, and how far the payload it wrote was
   cut (or lengthened) and bent on its way. *)

Wide(name) == [width |-> 2, num |-> 841,
               head |-> [name |-> name, start |-> 550000, step |-> 833, scale |-> ScaleOf(name)]]
Quality == [Wide("QLTY1") EXCEPT !.width = 1]
RssiChannels == <<Wide("DIST1"), Wide("RSSI1"), Wide("ANGL1"), Quality>>
ReflChannels == <<Wide("DIST1"), Wide("REFL1"), Wide("ANGL1"), Quality>>

Date(y, mo, d, h, mi, s, unix) ==
    [unix |-> unix, stamp |-> [year |-> y, month |-> mo, day |-> d, hour |-> h, minute |-> mi,
                               second |-> s, microsecond |-> 0]]

(* k seconds after the end of February 2026. *)
Sec(k) == IF k < 0 THEN Date(2026, 2, 28, 23, 59, 60 + k, 1772323200 + k)
                   ELSE Date(2026, 3, 1, 0, 0, k, 1772323200 + k)
Unset(k) == Date(1970, 1, 1, 0, 0, k, k)
Malformed(field, v) == [unix |-> 0, stamp |-> [Sec(0).stamp EXCEPT ![field] = v]]

Layout(counter, uptime, date) ==
    [encoders |-> 0, channels |-> RssiChannels, named |-> FALSE, name_length |-> 0, dated |-> TRUE,
     stamp |-> date.stamp, counter |-> counter, uptime |-> uptime]

Command(type, name) ==
    [good |-> TRUE, size |-> 1, at |-> 1, watch |-> "hit", type |-> type, name |-> name,
     length |-> 20, spaced |-> TRUE, acknowledges |-> TRUE, complete |-> TRUE, no_ntp |-> FALSE,
     intact |-> TRUE, layout |-> Layout(0, 0, Unset(0)), utc |-> 0, cut |-> 0, bent |-> {},
     data |-> << >>]

OfLayout(l, unix) ==
    [Command("sSN", "LMDscandata") EXCEPT !.layout = l, !.utc = unix]
Scan(counter, uptime, date) == OfLayout(Layout(counter, uptime, date), date.unix)

At(t, s) == [t EXCEPT !.at = s]
Big(t) == [t EXCEPT !.size = 3]
Bad(t) == [t EXCEPT !.good = FALSE]
Watched(t, w) == [t EXCEPT !.watch = w]
With(t, channels) == OfLayout([t.layout EXCEPT !.channels = channels], t.utc)
Undated(t) == OfLayout([t.layout EXCEPT !.dated = FALSE], t.utc)
Longer(t, n) == [t EXCEPT !.cut = n, !.intact = FALSE]
Changed(t, p, n) == [t EXCEPT !.bent = {<<p, n>>}, !.intact = FALSE]
Messages(s, complete, none) ==
    [Command("sRA", "EMActiveCustomerInfo") EXCEPT !.at = s, !.complete = complete, !.no_ntp = none]

First == Scan(7, 10, Sec(0))
Next1 == Scan(8, 11, Sec(1))

(* Four scans over the end of a month, the counter's and the uptime's wrap. *)
A1 == Scan(65534, 61, Sec(-1))
A2 == Scan(65535, 63, Sec(1))
A3 == Scan(0, 1, Sec(3))
A4 == Scan(1, 3, Sec(5))

(* A second scan with every kind of clock. *)
Seconds ==
    <<Scan(8, 11, Sec(1)), Scan(8, 11, Sec(11)), Scan(8, 11, Sec(12)), Scan(8, 11, Sec(21)),
      Scan(8, 11, Sec(22)), Scan(8, 11, Sec(0)), Scan(8, 11, Sec(-1)), Scan(8, 11, Sec(-2)),
      Scan(8, 11, Sec(-25)), Scan(8, 10, Sec(0)), Scan(8, 9, Sec(1)), Scan(8, 41, Sec(31)),
      Scan(8, 42, Sec(32)), Scan(8, 11, Unset(3)), Undated(Scan(8, 11, Sec(1))),
      Scan(9, 11, Sec(1)), Scan(7, 11, Sec(1)),
      Scan(8, 11, Malformed("month", 13)), Scan(8, 11, Malformed("second", 61)),
      Scan(8, 11, Malformed("microsecond", 1000000)), Scan(8, 11, Malformed("day", 0))>>

(* Layouts that the second parser need not refuse. *)
Layouts ==
    <<With(Next1, << >>), With(Next1, <<Quality>>), With(Next1, <<Wide("REFL1")>> \o RssiChannels),
      With(Next1, <<Wide("REFL1"), Wide("DIST1")>> \o RssiChannels),
      With(Next1, [RssiChannels EXCEPT ![2].num = 0]), With(Next1, [RssiChannels EXCEPT ![4].num = 1]),
      With(Next1, [RssiChannels EXCEPT ![1].num = 842]), With(Next1, RssiChannels \o <<Quality>>),
      With(Next1, [RssiChannels EXCEPT ![3].head.name = "DIST1"]),
      With(Next1, [RssiChannels EXCEPT ![3].head.step = 834]),
      With(Next1, [RssiChannels EXCEPT ![4].head.start = 0]),
      With(Next1, [RssiChannels EXCEPT ![1].head.scale = <<1, 0>>]),
      With(Next1, ReflChannels),
      OfLayout([Next1.layout EXCEPT !.encoders = 1], Next1.utc),
      OfLayout([Next1.layout EXCEPT !.encoders = 3], Next1.utc),
      OfLayout([Next1.layout EXCEPT !.named = TRUE, !.name_length = 16], Next1.utc),
      OfLayout([Next1.layout EXCEPT !.named = TRUE, !.name_length = 17], Next1.utc)>>

Damaged ==
    <<Longer(Next1, -1), Longer(Next1, -4), Longer(Next1, -1000), Longer(Next1, 1), Longer(Next1, 2),
      Changed(Next1, 36, 1), Changed(Next1, 38, 1), Changed(Next1, 38, -1), Changed(Next1, 59, 1),
      Changed(Next1, 59, -1), Longer(First, -6004)>>

Replies ==
    <<Command("sAN", "mLMPstopmeas"), Command("sFA", ""), Command("sEA", "LMDscandata"),
      [Command("sEA", "LMDscandata") EXCEPT !.acknowledges = FALSE], Command("sRA", "OPcurtmpdev"),
      [Command("sRA", "SCdevicestate") EXCEPT !.complete = FALSE], Command("sWA", "x"),
      Messages(1, FALSE, TRUE), Messages(1, TRUE, TRUE),
      [Command("sRA", "x") EXCEPT !.length = 3], [Command("sRA", "x") EXCEPT !.spaced = FALSE],
      Command("sRA", "")>>

----------------------------------------------------------------------------
Of(doc, streams) == [k \in DOMAIN streams |-> [doc |-> doc, stream |-> streams[k]]]

Long ==
    <<<<A1, A2, A3, A4>>, <<Big(A1), A2, A3, Big(A4)>>,
      <<Longer(First, -1), First, Next1, Scan(9, 12, Sec(15))>>>>

Short ==
    <<<<Messages(1, TRUE, FALSE), First, Next1>>, <<Messages(1, TRUE, TRUE), First, Next1>>,
      <<Messages(1, TRUE, FALSE), At(First, 31), At(Next1, 32)>>,
      <<First, Messages(1, TRUE, TRUE), Messages(2, TRUE, FALSE)>>,
      <<Scan(7, 10, Unset(1)), Scan(8, 11, Unset(2)), Scan(9, 12, Sec(0))>>,
      <<Scan(7, 10, Unset(1)), At(Scan(8, 11, Sec(1)), 60), At(Scan(9, 12, Sec(2)), 60)>>,
      <<Scan(7, 10, Unset(1)), At(Scan(8, 11, Unset(2)), 59), At(Scan(9, 12, Sec(0)), 60)>>,
      <<Scan(7, 10, Unset(1)), At(Scan(8, 11, Unset(2)), 60)>>,
      <<First, Scan(8, 11, Unset(1)), Scan(9, 12, Sec(22))>>,
      <<First, Watched(Next1, "miss"), Scan(9, 12, Sec(2))>>,
      <<First, Watched(Scan(8, 11, Sec(40)), "miss"), Watched(Scan(9, 12, Sec(41)), "hit")>>,
      <<First, Watched(Next1, "gave up")>>, <<First, Bad(Next1), Scan(9, 12, Sec(22))>>,
      <<Undated(First), Next1>>, <<With(First, ReflChannels), Next1>>,
      <<[First EXCEPT !.type = "sRA"], Next1>>,
      <<Scan(7, 10, Date(2028, 2, 28, 23, 59, 59, 1835395199)),
        Scan(8, 11, Date(2028, 2, 29, 0, 0, 0, 1835395200))>>,
      <<Scan(7, 10, Date(2026, 12, 31, 23, 59, 60, 1798761600)),
        Scan(8, 11, Date(2027, 1, 1, 0, 0, 0, 1798761600))>>,
      <<Scan(7, 10, Date(2025, 12, 31, 23, 59, 59, 1767225599)),
        Scan(8, 11, Date(2026, 1, 1, 0, 0, 0, 1767225600))>>>>

Pairs(seconds) == [k \in DOMAIN seconds |-> <<First, seconds[k]>>]
Single(firsts) == [k \in DOMAIN firsts |-> <<firsts[k]>>]

Unwritten ==
    Of(Doc, Long) \o Of(Doc, Short)
    \o Of(Doc, Pairs(Seconds)) \o Of(Doc, Pairs(Layouts)) \o Of(Doc, Pairs(Damaged))
    \o Of(Doc, Single(Layouts)) \o Of(Doc, Single(Damaged)) \o Of(Doc, Pairs(Replies))
    \o Of(Refl, <<<<With(First, ReflChannels), Next1>>, <<First>>>>)
    \o Of(Tight, <<<<First, Scan(8, 11, Sec(5))>>, <<First, Scan(8, 11, Sec(6))>>>>)
    \o Of(NoNtp, <<<<Undated(First), Next1>>, <<Undated(First), Undated(Scan(8, 11, Sec(40)))>>,
                   <<First>>, <<Messages(1, TRUE, TRUE), Undated(First)>>>>)
    \o [k \in DOMAIN Documents |-> [doc |-> Documents[k], stream |-> << >>]]

Payload(t, d) ==
    [d EXCEPT !.len = @ + t.cut,
              !.words = [p \in DOMAIN @ |-> IF \E b \in t.bent : b[1] = p
                                            THEN @[p] + (CHOOSE b \in t.bent : b[1] = p)[2] ELSE @[p]]]
Written(spoken) ==
    CHOOSE w \in {[t EXCEPT !.data = Payload(t, EncodeScan(t.layout))] : t \in {spoken}} : TRUE

WrittenCase(spoken) ==
    CHOOSE w \in {[doc |-> c.doc, stream |-> << >> \o [i \in DOMAIN c.stream |-> Written(c.stream[i])]]
                   : c \in {spoken}} : TRUE

(* Concatenation makes TLC evaluate the sequences, and a name of their own that
   it does so once. *)
AllCases == << >> \o [k \in DOMAIN Unwritten |-> WrittenCase(Unwritten[k])]
MCCases == AllCases
=============================================================================
