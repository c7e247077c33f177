---------------------------- MODULE ScanTelegram ----------------------------
(***************************************************************************)
(* The payload of a scan, and the two parsers that read it: Parse reads    *)
(* the first scan of a stream completely, ParseTimestampOnly finds the     *)
(* counters and the clocks of every later one                              *)
(* (lms4xxx_driver/src/scan_data_parser.cpp).                              *)
(*                                                                         *)
(* A payload is its length and what can be read at its positions: 16-bit   *)
(* numbers (`words`), the 19 bytes before a channel's sample count         *)
(* (`heads`) and the 11 bytes of a date (`stamps`).  A reader that has      *)
(* lost its place reads zeros.  The fields in front are at fixed positions *)
(* for both parsers.  Samples are only counted.                            *)
(***************************************************************************)
EXTENDS Integers, Sequences

kMaxPointsPerScan == 841
kMax16BitChannelCount == 4
kMax8BitChannelCount == 1
kMaxEncoderCount == 2
kMaxNameLength == 16
kMaxWord == 65535   \* a 16-bit number without another limit

NoHead == [name |-> "", start |-> 0, step |-> 0, scale |-> <<0, 0>>]
NoStamp == [year |-> 0, month |-> 0, day |-> 0, hour |-> 0, minute |-> 0, second |-> 0,
            microsecond |-> 0]

WordAt(d, p) == IF p \in DOMAIN d.words THEN d.words[p] ELSE 0
HeadAt(d, p) == IF p \in DOMAIN d.heads THEN d.heads[p] ELSE NoHead
StampAt(d, p) == IF p \in DOMAIN d.stamps THEN d.stamps[p] ELSE NoStamp

----------------------------------------------------------------------------
(* The reader, with the last number it has read and what it has found.  The
   first error is kept and nothing is read after it. *)

Reader == [pos |-> 0, err |-> "ok", word |-> 0, encoders |-> 0, channels |-> << >>,
           named |-> FALSE, stamp |-> {}]

Ok(r) == r.err = "ok"
Remaining(d, r) == d.len - r.pos
HasBytes(d, r, n) == Remaining(d, r) >= n
TooShort(r) == [r EXCEPT !.err = "kFrameTooShort"]
Protocol(r) == [r EXCEPT !.err = "kProtocolError"]

Skip(d, r, n) ==
    IF ~Ok(r) THEN r
    ELSE IF HasBytes(d, r, n) THEN [r EXCEPT !.pos = @ + n] ELSE TooShort(r)

ReadUint16(d, r, most) ==
    IF ~Ok(r) THEN r
    ELSE IF ~HasBytes(d, r, 2) THEN TooShort(r)
    ELSE IF WordAt(d, r.pos) > most THEN Protocol(r)
    ELSE [r EXCEPT !.pos = @ + 2, !.word = WordAt(d, r.pos)]

ParseDeviceInfo(d, r) == Skip(d, r, 28)
ParseFrequency(d, r) == Skip(d, r, 8)
ParsePosition(d, r) == Skip(d, r, 4)

(* Every block is consumed, not only the first. *)
Encoders(d, r, most) ==
    LET count == ReadUint16(d, r, most)
    IN  [Skip(d, count, 6 * count.word) EXCEPT !.encoders = count.word]

ParseEncoder(d, r) == Encoders(d, r, kMaxEncoderCount)

(* One channel: its header ends with the number of its samples. *)
Channel(d, r, width, most) ==
    LET count == ReadUint16(d, Skip(d, r, 19), most)
        next == Skip(d, count, count.word * width)
    IN  [next EXCEPT !.channels = Append(@, [width |-> width, num |-> count.word,
                                             head |-> HeadAt(d, r.pos)])]

Channels(d, r, n, width, most) ==
    LET F[k \in 0 .. n] == IF k = 0 THEN r ELSE Channel(d, F[k - 1], width, most)
    IN  F[n]

ParseChannels(d, r, width, count) ==
    LET q == ReadUint16(d, r, count)
    IN  IF Ok(q) THEN Channels(d, q, q.word, width, kMaxPointsPerScan) ELSE q

ParseChannels16bit(d, r) == ParseChannels(d, r, 2, kMax16BitChannelCount)
ParseChannels8bit(d, r) == ParseChannels(d, r, 1, kMax8BitChannelCount)

Name(d, r, most) ==
    LET flag == ReadUint16(d, r, 1)
        length == ReadUint16(d, flag, most)
    IN  IF ~Ok(flag) \/ flag.word = 0 THEN flag
        ELSE [Skip(d, length, length.word) EXCEPT !.named = TRUE]

ParseDeviceName(d, r) == Name(d, r, kMaxNameLength)

(* What is found is where the date is. *)
ParseTimestamp(d, r) ==
    LET flag == ReadUint16(d, r, 1)
    IN  IF ~Ok(flag) \/ flag.word = 0 THEN flag
        ELSE [Skip(d, flag, 11) EXCEPT !.stamp = {flag.pos}]

(* A reserved suffix is optional, and nothing may be left. *)
AtEnd(d, r) ==
    LET q == IF Ok(r) /\ HasBytes(d, r, 2) THEN Skip(d, r, 2) ELSE r
    IN  IF Ok(q) /\ Remaining(d, q) # 0 THEN Protocol(q) ELSE q

Parse(d) ==
    IF d.len < 52 THEN TooShort(Reader)
    ELSE LET encoder == ParseEncoder(d, ParseFrequency(d, ParseDeviceInfo(d, Reader)))
             channels == ParseChannels8bit(d, ParseChannels16bit(d, encoder))
             name == ParseDeviceName(d, ParsePosition(d, channels))
         IN  AtEnd(d, ParseTimestamp(d, name))

----------------------------------------------------------------------------
(* The parser of the later scans: lengths are read, samples are not, and no
   other limits apply than the end of the payload. *)

SkipChannels(d, r, width) ==
    LET q == ReadUint16(d, r, kMaxWord)
    IN  IF ~Ok(q) THEN q
        ELSE IF q.word > Remaining(d, q) \div 21 THEN TooShort(q)
        ELSE Channels(d, q, q.word, width, kMaxWord)

(* Mutant: every sample has two bytes. *)
ParseTimestampOnlyWide(d) ==
    LET encoder == Encoders(d, Skip(d, Reader, 36), kMaxWord)
        channels == SkipChannels(d, SkipChannels(d, encoder, 2), 2)
        name == Name(d, Skip(d, channels, 4), kMaxWord)
    IN  AtEnd(d, ParseTimestamp(d, name))

ParseTimestampOnly(d) ==
    LET encoder == Encoders(d, Skip(d, Reader, 36), kMaxWord)
        channels == SkipChannels(d, SkipChannels(d, encoder, 2), 1)
        name == Name(d, Skip(d, channels, 4), kMaxWord)
    IN  AtEnd(d, ParseTimestamp(d, name))

----------------------------------------------------------------------------
(* VerifyScanContent: the first scan proves that the configuration is in
   effect.  Scales are [factor, offset] in hundredths. *)

kPointsPerScan == 841
kAngularResolution1e4 == 833
kStartAngle1e4 == 550000

(* IdentifyChannel16 and IdentifyChannel8: a name outside its table is
   unknown. *)
Known(width) == IF width = 2 THEN {"DIST1", "RSSI1", "REFL1", "ANGL1"} ELSE {"QLTY1"}

(* The first channel with the name, as the lookups of ScanData find it. *)
Named(r, width, name) ==
    LET found == {k \in DOMAIN r.channels : /\ r.channels[k].width = width
                                            /\ r.channels[k].head.name = name
                                            /\ name \in Known(width)}
    IN  {r.channels[k] : k \in {k \in found : \A j \in found : k <= j}}

RemissionChannel(remission) == IF remission = "refl" THEN "REFL1" ELSE "RSSI1"

ScaleOf(name) ==
    CASE name = "DIST1" -> <<10, 0>>
      [] name = "REFL1" -> <<1, 0>>
      [] name = "ANGL1" -> <<100, -3276800>>
      [] OTHER          -> <<100, 0>>

GeometryOk(c) ==
    /\ c.num = kPointsPerScan
    /\ c.head.step = kAngularResolution1e4 /\ c.head.start = kStartAngle1e4

VerifyScanContent(r, remission, ntp) ==
    LET words == {"DIST1", RemissionChannel(remission), "ANGL1"}
        wide == SelectSeq(r.channels, LAMBDA c : c.width = 2)
        expected == UNION {Named(r, 2, n) : n \in words} \cup Named(r, 1, "QLTY1")
    IN  /\ \A n \in words : Named(r, 2, n) # {}
        /\ Named(r, 1, "QLTY1") # {}
        /\ Len(wide) = 3 /\ Len(r.channels) = 4
        /\ \A k \in DOMAIN r.channels : GeometryOk(r.channels[k])
        /\ (r.stamp # {}) = ntp /\ r.encoders = 0 /\ ~r.named
        /\ \A c \in expected : c.head.scale = ScaleOf(c.head.name)
=============================================================================
