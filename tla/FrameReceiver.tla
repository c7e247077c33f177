--------------------------- MODULE FrameReceiver ----------------------------
(***************************************************************************)
(* lms4xxx::FrameReceiver: cuts the byte stream of one connection, which   *)
(* arrives in chunks of any length, into CoLa B telegrams                  *)
(* STX^StxSize Length Data Checksum, and reports what belongs to none.     *)
(*                                                                         *)
(* The sizes are scaled: the marker has StxSize bytes and the length field *)
(* one.  As in the original a length field made of marker bytes is out of  *)
(* range, so that a marker may begin inside another one.  Positions in the *)
(* buffer count from 0, as in the code; `base` is the position in the      *)
(* stream of the buffer's first byte.                                      *)
(***************************************************************************)
EXTENDS Integers, Sequences, FiniteSets

CONSTANTS
    Bytes,      \* the values of a byte, which has two bits
    Stx,        \* the marker byte
    StxSize,    \* kStxSize
    MaxFrame,   \* max_frame_size
    MaxChunk,   \* bound on the bytes of one Feed
    MaxStream   \* bound on the bytes of a connection

ASSUME ReceiverAssumption ==
    /\ Bytes \subseteq 0 .. 3 /\ Stx \in Bytes
    /\ StxSize \in Nat \ {0} /\ MaxFrame \in Nat \ {0}
    /\ MaxChunk \in Nat /\ MaxStream \in Nat
    /\ Stx > MaxFrame

VARIABLES
    pc,        \* idle, scan (the loop of Feed), compact, done
    stream,    \* every byte received so far
    base,      \* how many of them have left the buffer
    buf,       \* buffer[0 .. write_pos)
    scan,      \* scan_pos
    covered,   \* error_covered_until
    frames,    \* what on_frame was given: [start, size, good]
    reported,  \* the bytes of the stream that some error report is about
    twice      \* a byte was reported as garbage after it had been accounted for

history == <<stream, base, buf>>
receiverVars == <<pc, history, scan, covered, frames, reported, twice>>

HeaderSize == StxSize + 1
FrameSize(n) == HeaderSize + n + 1

ReceiverInit ==
    /\ pc = "idle" /\ stream = << >> /\ base = 0 /\ buf = << >>
    /\ scan = 0 /\ covered = 0
    /\ frames = << >> /\ reported = {} /\ twice = FALSE

WritePos == Len(buf)
Max2(a, b) == IF a > b THEN a ELSE b

MarkerAt(s, p) == \A k \in 1 .. StxSize : s[p + k] = Stx

(* First marker at or after the offset, write_pos when there is none. *)
FindStx(offset) ==
    LET found == {p \in offset .. WritePos - StxSize : MarkerAt(buf, p)}
    IN  IF found = {} THEN WritePos ELSE CHOOSE p \in found : \A q \in found : p <= q

(* ComputeChecksum: the exclusive or of the data bytes, bit by bit. *)
Parity(s, bit) == Cardinality({k \in DOMAIN s : (s[k] \div bit) % 2 = 1}) % 2
ComputeChecksum(s) == Parity(s, 1) + 2 * Parity(s, 2)

----------------------------------------------------------------------------
(* FrameReceiver::Feed. *)

Feed ==
    /\ pc = "idle"
    /\ \E n \in 1 .. MaxChunk : \E chunk \in [1 .. n -> Bytes] :
          /\ Len(stream) + n <= MaxStream
          /\ stream' = stream \o chunk /\ buf' = buf \o chunk
    /\ scan' = 0 /\ pc' = "scan"
    /\ UNCHANGED <<base, covered, frames, reported, twice>>

Span(from, to) == {base + p : p \in from .. to - 1}
Delivered == UNION {frames[k].start .. frames[k].start + frames[k].size - 1 : k \in DOMAIN frames}

(* ReportGarbage: without what a rejected candidate has already accounted for. *)
ReportGarbage(begin, end) ==
    LET bytes == Span(Max2(begin, covered), end)
    IN  /\ reported' = reported \cup bytes
        /\ twice' = (twice \/ bytes \cap (reported \cup Delivered) # {})

(* Where the part kept begins: a marker may span two chunks, and a telegram
   that has been delivered is never looked at again. *)
KeepFrom == Max2(scan, WritePos - (StxSize - 1))

NoMarker ==
    /\ pc = "scan" /\ scan < WritePos /\ FindStx(scan) = WritePos
    /\ IF WritePos > StxSize - 1
       THEN ReportGarbage(scan, KeepFrom) /\ scan' = KeepFrom
       ELSE UNCHANGED <<scan, reported, twice>>
    /\ pc' = "compact"
    /\ UNCHANGED <<history, covered, frames>>

(* The bytes before a marker, then TryExtractFrame. *)
Candidate(p) == pc = "scan" /\ scan < WritePos /\ p = FindStx(scan) /\ p < WritePos
HasHeader(p) == WritePos - p >= HeaderSize
DataLen(p) == buf[p + HeaderSize]
LengthValid(n) == n # 0 /\ n <= MaxFrame

Complete(p) == WritePos - p >= FrameSize(DataLen(p))

Incomplete ==
    \E p \in 0 .. WritePos :
        /\ Candidate(p)
        /\ HasHeader(p) => LengthValid(DataLen(p)) /\ ~Complete(p)
        /\ ReportGarbage(scan, p) /\ scan' = p /\ pc' = "compact"
        /\ UNCHANGED <<history, covered, frames>>

(* Mutant: the whole marker is skipped, and one that begins inside it. *)
SkipMarker(p) == p + StxSize

(* A marker may begin inside a rejected candidate. *)
AfterReject(p) == p + 1

(* Only the header of such a candidate is known, and the checksum of an empty
   telegram. *)
LengthOutOfRange ==
    \E p \in 0 .. WritePos :
        /\ Candidate(p) /\ HasHeader(p) /\ ~LengthValid(DataLen(p))
        /\ LET end == p + HeaderSize + (IF DataLen(p) = 0 THEN 1 ELSE 0)
               garbage == Span(Max2(scan, covered), p)
           IN  /\ covered' = Max2(covered, end)
               /\ reported' = reported \cup garbage \cup Span(p, end)
               /\ twice' = (twice \/ garbage \cap (reported \cup Delivered) # {})
        /\ scan' = AfterReject(p)
        /\ UNCHANGED <<pc, history, frames>>

(* A telegram with a bad checksum is delivered too, marked, once. *)
DeliverFrame ==
    \E p \in 0 .. WritePos :
        /\ Candidate(p) /\ HasHeader(p) /\ LengthValid(DataLen(p)) /\ Complete(p)
        /\ ReportGarbage(scan, p)
        /\ LET n == DataLen(p)
               first == p + HeaderSize + 1
           IN  /\ frames' = Append(frames, [start |-> base + p, size |-> FrameSize(n),
                     good |-> ComputeChecksum(SubSeq(buf, first, first + n - 1)) = buf[first + n]])
               /\ scan' = p + FrameSize(n)
        /\ covered' = 0
        /\ UNCHANGED <<pc, history>>

LoopEnds ==
    /\ pc = "scan" /\ scan >= WritePos /\ pc' = "compact"
    /\ UNCHANGED <<history, scan, covered, frames, reported, twice>>

(* Mutant: the account kept for a rejected candidate stays where it was. *)
CompactForgetful ==
    /\ pc = "compact"
    /\ UNCHANGED covered
    /\ buf' = SubSeq(buf, scan + 1, WritePos) /\ base' = base + scan
    /\ pc' = "idle"
    /\ UNCHANGED <<stream, scan, frames, reported, twice>>

Compact ==
    /\ pc = "compact"
    /\ covered' = Max2(covered - scan, 0)
    /\ buf' = SubSeq(buf, scan + 1, WritePos) /\ base' = base + scan
    /\ pc' = "idle"
    /\ UNCHANGED <<stream, scan, frames, reported, twice>>

(* FrameReceiver::Finish. *)
Finish ==
    /\ pc = "idle"
    /\ reported' = reported \cup Span(0, WritePos)
    /\ base' = base + WritePos /\ buf' = << >> /\ covered' = 0
    /\ pc' = "done"
    /\ UNCHANGED <<stream, scan, frames, twice>>

ReceiverDone == pc = "done" /\ UNCHANGED receiverVars

ReceiverNext ==
    \/ Feed \/ NoMarker \/ Incomplete \/ LengthOutOfRange \/ DeliverFrame \/ LoopEnds
    \/ Compact \/ Finish \/ ReceiverDone

ReceiverSpec == ReceiverInit /\ [][ReceiverNext]_receiverVars

----------------------------------------------------------------------------
(* The telegrams of a stream that is seen as a whole, from a position on: there
   either a telegram begins, or nothing does and the search goes on one byte
   later; an unfinished telegram ends it. *)
TelegramAt(s, p) ==
    LET n == s[p + HeaderSize]
    IN  [start |-> p, size |-> FrameSize(n),
         good |-> ComputeChecksum(SubSeq(s, p + HeaderSize + 1, p + HeaderSize + n))
                     = s[p + FrameSize(n)]]

(* Search at p, when rest tells what is found further on. *)
Search(s, p, rest) ==
    LET n == s[p + HeaderSize]
    IN  IF p + StxSize > Len(s) THEN << >>
        ELSE IF ~MarkerAt(s, p) THEN rest[p + 1]
        ELSE IF p + HeaderSize > Len(s) THEN << >>
        ELSE IF ~LengthValid(n) THEN rest[p + 1]
        ELSE IF p + FrameSize(n) > Len(s) THEN << >>
        ELSE <<TelegramAt(s, p)>> \o rest[p + FrameSize(n)]

TelegramsFrom(s) ==
    LET F[p \in 0 .. Len(s)] == Search(s, p, F)
    IN  F

(* Properties. *)

(* The values of the variables; the buffer holds the unconsumed end of the
   stream (Feed, Compact). *)
ReceiverTypeOK ==
    /\ pc \in {"idle", "scan", "compact", "done"}
    /\ base \in 0 .. Len(stream) /\ buf = SubSeq(stream, base + 1, Len(stream))
    /\ scan \in Nat /\ covered \in Nat

(* The telegrams delivered do not depend on how the stream was cut into reads
   (Feed, FindStx, Compact). *)
ChunksDoNotMatter == pc \in {"idle", "done"} => frames = TelegramsFrom(stream)[0]

(* Every byte that has left the buffer is part of a telegram that was
   delivered, or some error report was about it (ReportGarbage,
   TryExtractFrame, Finish). *)
NoByteLost == pc \in {"idle", "done"} => 0 .. base - 1 \subseteq reported \cup Delivered

(* A byte is counted as garbage at most once, and never when a telegram or a
   rejected candidate has accounted for it (error_covered_until). *)
GarbageCountedOnce == ~twice

(* Without an error report the stream was nothing but telegrams, one after the
   other: only then does the driver call the recording complete (Finish). *)
SilenceMeansTelegrams == pc = "done" /\ reported = {} => Delivered = 0 .. Len(stream) - 1

(* Between two reads less than one telegram is buffered, so the preallocated
   buffer is enough (Feed). *)
BufferBounded == pc = "idle" => Len(buf) < FrameSize(MaxFrame)

(* Every byte that was consumed is accounted for once: it belongs to a telegram
   or to an error report, and is garbage in one report only; a stream without
   reports was nothing but telegrams (Feed, ReportGarbage, Finish). *)
BytesAccounted == NoByteLost /\ GarbageCountedOnce /\ SilenceMeansTelegrams

(* Between two reads the buffer is the unconsumed end of the stream, and short,
   and every byte that has left it is accounted for. *)
ReceiverInv == ReceiverTypeOK /\ BufferBounded /\ BytesAccounted
=============================================================================
