------------------------------- MODULE SbfLive -------------------------------
(***************************************************************************)
(* The live side channel of the AsteRx driver: SbfLiveRecorder, which      *)
(* turns two kinds of SBF block into CSV rows for the console, and the     *)
(* bounds-checked parsers under it (sbf_parsers.cpp).  A frame is reduced  *)
(* to what decides about its row: how many bytes were delivered, how long  *)
(* it says it is, and which optional parts it announces.  Since opening,   *)
(* writing and flushing may fail, an operation is the set of the states it *)
(* may leave.                                                              *)
(***************************************************************************)
EXTENDS Integers, Sequences

CONSTANTS
    LiveCsv,  \* output.live_csv
    Frames    \* frames: [id, size, sync, length, groups, n, sub, fits]

FrameType ==
    [id : {"nav", "status", "other"},
     size : Nat,       \* bytes delivered
     sync : BOOLEAN,   \* begins with $@
     length : Nat,     \* its length field
     groups : 0 .. 8,  \* bits set in SBList
     n : 0 .. 255,     \* AGCState sub-blocks
     sub : 0 .. 255,   \* SBLength
     fits : BOOLEAN]   \* its row is at most 767 characters long

ASSUME LiveAssumption == LiveCsv \in BOOLEAN /\ Frames \subseteq FrameType

----------------------------------------------------------------------------
(* Reader: a read past the end fails, and so does every later one. *)

Take(r, k) ==
    IF r.ok /\ r.size - r.pos >= k THEN [r EXCEPT !.pos = @ + k] ELSE [r EXCEPT !.ok = FALSE]

TakeAll(r, widths) ==
    LET after[k \in 0 .. Len(widths)] == IF k = 0 THEN r ELSE Take(after[k - 1], widths[k])
    IN  after[Len(widths)]

(* The loop over the groups or the sub-blocks. *)
TakeTimes(r, times, widths) ==
    LET after[k \in 0 .. times] == IF k = 0 THEN r ELSE TakeAll(after[k - 1], widths)
    IN  after[times]

(* The fields on the wire, by their widths. *)
HeaderFields == <<1, 1, 2, 2, 2, 4, 2>>
NavFields == <<1, 1, 2, 2, 8, 8, 8, 4, 2, 2, 1, 1, 2>>
NavGroup == <<4, 4, 4>>
StatusFields == <<1, 1, 4, 4, 4, 1, 1, 1, 1>>

(* Mutant: the reader keeps the delivered size. *)
ReadFrameHeader_Delivered(f) ==
    LET r == TakeAll([pos |-> 0, size |-> f.size, ok |-> f.sync], HeaderFields)
    IN  [r EXCEPT !.ok = @ /\ f.length >= 14 /\ f.length <= f.size]

(* Header and declared length; what follows the declared length is padding. *)
ReadFrameHeader(f) ==
    LET r == TakeAll([pos |-> 0, size |-> f.size, ok |-> f.sync], HeaderFields)
    IN  IF r.ok /\ f.length >= 14 /\ f.length <= f.size THEN [r EXCEPT !.size = f.length]
        ELSE [r EXCEPT !.ok = FALSE]

(* Optional groups follow in the order of their bits. *)
ParseINSNavGeod(f) ==
    TakeTimes(TakeAll(ReadFrameHeader(f), NavFields), f.groups, NavGroup).ok

(* A sub-block shorter than its four fields is refused before the loop. *)
ParseReceiverStatus(f) ==
    LET fixed == TakeAll(ReadFrameHeader(f), StatusFields)
    IN  /\ fixed.ok
        /\ f.n > 0 => f.sub >= 4
        /\ TakeTimes(fixed, f.n, <<1, 1, 1, 1, f.sub - 4>>).ok

----------------------------------------------------------------------------
(* A channel: its flags, the state of its stream, and the lines the stream has
   taken (0 is the header row, another number the block of a row).  What a bad
   stream leaves on the disk is a beginning of them.  The counters of rows and
   of parse errors are only logged, and left out. *)
NoChannel == [opened |-> FALSE, failed |-> FALSE, good |-> TRUE, lines |-> << >>]

Channels == {"nav", "status"}

NoLive == [c \in Channels |-> NoChannel]

Both(nav, status) ==
    {[c \in Channels |-> IF c = "nav" THEN a ELSE b] : a \in nav, b \in status}

(* Flush of the stream; a bad one takes nothing any more. *)
FlushChannel(c) ==
    IF c.opened /\ ~c.failed THEN {c, [c EXCEPT !.good = FALSE]} ELSE {c}

(* The file is opened, and emptied, by its first row; a failed one never. *)
OpenChannel(c) ==
    IF c.opened \/ c.failed THEN {c}
    ELSE {[c EXCEPT !.failed = TRUE], [c EXCEPT !.opened = TRUE, !.lines = <<0>>]}

(* Append: a row, or the end of the channel.  A stream gone bad at an earlier
   flush is noticed here. *)
AppendRow(c, id) ==
    UNION {IF o.failed THEN {o}
           ELSE {[o EXCEPT !.good = FALSE, !.failed = TRUE]}
                \cup (IF o.good THEN {[o EXCEPT !.lines = Append(@, id)]} ELSE {})
           : o \in OpenChannel(c)}

Flush(l) == Both(FlushChannel(l["nav"]), FlushChannel(l["status"]))

(* MaybeFlush: when the last flush is 250 ms ago. *)
MaybeFlush(l) == {l} \cup Flush(l)

Parsed(f) == IF f.id = "nav" THEN ParseINSNavGeod(f) ELSE ParseReceiverStatus(f)

(* OnBlock: a frame that does not parse has no row, nor has one whose row is too
   long for the line buffer; blocks of other kinds are in the .sbf only. *)
OnBlock(l, f, id) ==
    IF ~LiveCsv \/ f.size < 8 \/ f.id = "other" THEN {l}
    ELSE IF ~Parsed(f) \/ ~f.fits THEN MaybeFlush(l)
    ELSE UNION {MaybeFlush([l EXCEPT ![f.id] = c]) : c \in AppendRow(l[f.id], id)}

(* close: the last flush is not checked; no channel is ever opened again. *)
CloseChannel(c) == {[c EXCEPT !.opened = FALSE, !.failed = TRUE]}

CloseLive(l) == Both(CloseChannel(l["nav"]), CloseChannel(l["status"]))
=============================================================================
