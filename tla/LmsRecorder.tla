---------------------------- MODULE LmsRecorder -----------------------------
(***************************************************************************)
(* lms4xxx::RawRecorder over common::BoundedQueue.  The receive thread     *)
(* hands telegrams over (OnFrame), the writer appends them to the .bin and *)
(* .csv of the current split and finalizes its .json, the owner starts and *)
(* stops.  Any file operation may fail.                                    *)
(*                                                                         *)
(* A split remembers what a power cut would leave of it: how much of .bin  *)
(* and .csv has been synced, and every content the .json may have.         *)
(***************************************************************************)
EXTENDS Naturals, Sequences, FiniteSets

CONSTANTS
    Sizes,      \* lengths of telegrams
    Capacity,   \* Config::queue_capacity
    MaxBytes,   \* Config::max_file_bytes, 0: no splitting
    MaxFrames   \* bound on the telegrams handed over

ASSUME RecorderAssumption ==
    /\ Sizes \subseteq Nat \ {0} /\ Capacity \in Nat \ {0}
    /\ MaxBytes \in Nat /\ MaxFrames \in Nat

VARIABLES
    opc,                       \* the owner: new, running, join, stopped
    ppc, offered,              \* the receive thread inside OnFrame, and its telegram
    wpc, held, why,            \* the writer, its telegram (pending), who called CloseSplit
    queue, closed, accepting, failed,
    splits,                    \* the files; the last split is the current one
    sent, queued, written, dropped

queueVars == <<queue, closed>>
counters == <<sent, queued, written, dropped>>
vars == <<opc, ppc, offered, wpc, held, why, queueVars, accepting, failed, splits, counters>>

NoTelegram == [id |-> 0, size |-> 0]

(* OpenSplit: the manifest is synced as incomplete before there is anything
   to describe. *)
NewSplit == [bin |-> << >>, csv |-> << >>, bytes |-> 0, binSafe |-> 0, csvSafe |-> 0,
             json |-> {"incomplete"}, open |-> TRUE]

Init ==
    /\ opc = "new" /\ ppc = "idle" /\ offered = NoTelegram
    /\ wpc = "none" /\ held = NoTelegram /\ why = "rotate"
    /\ queue = << >> /\ closed = FALSE /\ accepting = FALSE /\ failed = FALSE
    /\ splits = << >>
    /\ sent = 0 /\ queued = 0 /\ written = 0 /\ dropped = 0

Current == splits[Len(splits)]

----------------------------------------------------------------------------
(* The owner. *)

Start ==
    /\ opc = "new"
    /\ \/ /\ opc' = "running" /\ wpc' = "poll" /\ accepting' = TRUE
          /\ splits' = <<NewSplit>> /\ UNCHANGED <<failed, closed>>
       \/ /\ opc' = "stopped" /\ failed' = TRUE /\ closed' = TRUE
          /\ splits' \in {<< >>, <<[NewSplit EXCEPT !.open = FALSE]>>,
                          <<[NewSplit EXCEPT !.open = FALSE, !.json = {"incomplete", "torn"}]>>}
          /\ UNCHANGED <<wpc, accepting>>
    /\ UNCHANGED <<ppc, offered, held, why, queue, counters>>

(* Mutant: the queue is left open. *)
StopOnly ==
    /\ opc = "running" /\ ppc = "idle"
    /\ opc' = "join" /\ accepting' = FALSE
    /\ UNCHANGED <<ppc, offered, wpc, held, why, queueVars, failed, splits, counters>>

(* Stop is called once the receive thread has been joined. *)
Stop ==
    /\ opc = "running" /\ ppc = "idle"
    /\ opc' = "join" /\ accepting' = FALSE /\ closed' = TRUE
    /\ UNCHANGED <<ppc, offered, wpc, held, why, queue, failed, splits, counters>>

(* Closing the directory may fail. *)
Join ==
    /\ opc = "join" /\ wpc = "exit"
    /\ opc' = "stopped" /\ failed' \in {failed, TRUE}
    /\ UNCHANGED <<ppc, offered, wpc, held, why, queueVars, accepting, splits, counters>>

----------------------------------------------------------------------------
(* The receive thread: OnFrame. *)

writerFrame == <<opc, wpc, held, why, splits, written>>

OnFrame ==
    /\ opc = "running" /\ ppc = "idle" /\ sent < MaxFrames
    /\ sent' = sent + 1
    /\ IF accepting
       THEN /\ \E n \in Sizes : offered' = [id |-> sent + 1, size |-> n]
            /\ ppc' = "push" /\ UNCHANGED dropped
       ELSE dropped' = dropped + 1 /\ UNCHANGED <<ppc, offered>>
    /\ UNCHANGED <<writerFrame, queueVars, accepting, failed, queued>>

(* BoundedQueue::try_push. *)
TryPush ==
    /\ ppc = "push"
    /\ IF closed \/ Len(queue) >= Capacity
       THEN ppc' = "fail" /\ UNCHANGED queue
       ELSE ppc' = "count" /\ queue' = Append(queue, offered)
    /\ UNCHANGED <<writerFrame, offered, closed, accepting, failed, sent, queued, dropped>>

CountQueued ==
    /\ ppc = "count"
    /\ queued' = queued + 1 /\ ppc' = "idle"
    /\ UNCHANGED <<writerFrame, offered, queueVars, accepting, failed, sent, dropped>>

(* The failure is known before the queue is closed. *)
PushFails ==
    /\ ppc = "fail"
    /\ failed' = TRUE /\ ppc' = "refuse"
    /\ UNCHANGED <<writerFrame, offered, queueVars, accepting, sent, queued, dropped>>

Refuse ==
    /\ ppc = "refuse"
    /\ dropped' = dropped + 1 /\ accepting' = FALSE /\ ppc' = "close"
    /\ UNCHANGED <<writerFrame, offered, queueVars, failed, sent, queued>>

CloseQueue ==
    /\ ppc = "close"
    /\ closed' = TRUE /\ ppc' = "idle"
    /\ UNCHANGED <<writerFrame, offered, queue, accepting, failed, sent, queued, dropped>>

----------------------------------------------------------------------------
(* The writer: WriteLoop and Append. *)

producerFrame == <<opc, ppc, offered, sent, queued>>

Pop ==
    /\ wpc = "poll" /\ queue # << >>
    /\ held' = Head(queue) /\ queue' = Tail(queue) /\ wpc' = "append"
    /\ UNCHANGED <<producerFrame, why, closed, accepting, failed, splits, written, dropped>>

FoundEmpty ==
    /\ wpc = "poll" /\ queue = << >> /\ wpc' = "check"
    /\ UNCHANGED <<producerFrame, held, why, queueVars, accepting, failed, splits, written, dropped>>

CheckClosed ==
    /\ wpc = "check"
    /\ wpc' = IF closed /\ queue = << >> THEN "leave" ELSE "poll"
    /\ UNCHANGED <<producerFrame, held, why, queueVars, accepting, failed, splits, written, dropped>>

SetCurrent(s) == splits' = [splits EXCEPT ![Len(splits)] = s]
Failing(next) == failed' = TRUE /\ wpc' = next
Going(next) == UNCHANGED failed /\ wpc' = next

BinSynced(s) == [s EXCEPT !.binSafe = Len(s.bin)]
CsvSynced(s) == [s EXCEPT !.csvSafe = Len(s.csv)]

(* The periodic flush, after any round of the loop. *)
Flush ==
    /\ wpc = "poll"
    /\ \/ SetCurrent(CsvSynced(BinSynced(Current))) /\ Going("poll")
       \/ splits' \in {splits, [splits EXCEPT ![Len(splits)] = BinSynced(@)]} /\ Failing("leave")
    /\ UNCHANGED <<producerFrame, held, why, queueVars, accepting, written, dropped>>

NeedsSplit ==
    Current.csv # << >> /\ MaxBytes # 0 /\ (Current.bytes >= MaxBytes \/ held.size > MaxBytes - Current.bytes)

AppendFrame ==
    /\ wpc = "append"
    /\ wpc' = IF NeedsSplit THEN "syncBin" ELSE "writeBin"
    /\ UNCHANGED <<producerFrame, held, why, queueVars, accepting, failed, splits, written, dropped>>

(* A write that fails may have written something. *)
WriteBin ==
    /\ wpc = "writeBin"
    /\ \/ SetCurrent([Current EXCEPT !.bin = Append(@, held)]) /\ Going("writeCsv")
       \/ splits' \in {splits, [splits EXCEPT ![Len(splits)].bin = Append(@, held)]} /\ Failing("leave")
    /\ UNCHANGED <<producerFrame, held, why, queueVars, accepting, written, dropped>>

WriteCsv ==
    /\ wpc = "writeCsv"
    /\ \/ /\ SetCurrent([Current EXCEPT !.csv = Append(@, held), !.bytes = @ + held.size])
          /\ Going("poll") /\ written' = written + 1 /\ held' = NoTelegram
       \/ UNCHANGED <<splits, written, held>> /\ Failing("leave")
    /\ UNCHANGED <<producerFrame, why, queueVars, accepting, dropped>>

----------------------------------------------------------------------------
(* The end of WriteLoop, after an error too. *)

Leave ==
    /\ wpc = "leave"
    /\ accepting' = FALSE /\ wpc' = "closeQueue"
    /\ UNCHANGED <<producerFrame, held, why, queueVars, failed, splits, written, dropped>>

WriterCloses ==
    /\ wpc = "closeQueue"
    /\ closed' = TRUE /\ wpc' = "drain"
    /\ UNCHANGED <<producerFrame, held, why, queue, accepting, failed, splits, written, dropped>>

(* Mutant: the telegram in hand is forgotten. *)
DrainQueueOnly ==
    /\ wpc = "drain"
    /\ held' = NoTelegram
    /\ IF queue # << >>
       THEN dropped' = dropped + 1 /\ queue' = Tail(queue) /\ UNCHANGED <<wpc, why>>
       ELSE wpc' = "syncBin" /\ why' = "final" /\ UNCHANGED <<queue, dropped>>
    /\ UNCHANGED <<producerFrame, closed, accepting, failed, splits, written>>

(* What was accepted and cannot be written is counted as dropped. *)
Drain ==
    /\ wpc = "drain"
    /\ IF held # NoTelegram
       THEN dropped' = dropped + 1 /\ held' = NoTelegram /\ UNCHANGED <<queue, wpc, why>>
       ELSE /\ UNCHANGED held
            /\ IF queue # << >>
               THEN dropped' = dropped + 1 /\ queue' = Tail(queue) /\ UNCHANGED <<wpc, why>>
               ELSE wpc' = "syncBin" /\ why' = "final" /\ UNCHANGED <<queue, dropped>>
    /\ UNCHANGED <<producerFrame, closed, accepting, failed, splits, written>>

----------------------------------------------------------------------------
(* CloseSplit: every step is tried, whatever the others did. *)

closeFrame == <<producerFrame, held, why, queueVars, accepting, written, dropped>>

NothingOpen ==
    /\ wpc = "syncBin" /\ (splits = << >> \/ ~Current.open)
    /\ Going("exit") /\ UNCHANGED <<closeFrame, splits>>

SyncBin ==
    /\ wpc = "syncBin" /\ splits # << >> /\ Current.open
    /\ \/ SetCurrent(BinSynced(Current)) /\ Going("syncCsv")
       \/ UNCHANGED splits /\ Failing("syncCsv")
    /\ UNCHANGED closeFrame

(* The index, and closing both descriptors. *)
SyncCsv ==
    /\ wpc = "syncCsv"
    /\ \/ SetCurrent(CsvSynced(Current)) /\ Going("countsWrite")
       \/ splits' \in {splits, [splits EXCEPT ![Len(splits)] = CsvSynced(@)]} /\ Failing("countsWrite")
    /\ UNCHANGED closeFrame

(* WriteMetadata writes in place and then syncs: until the sync has succeeded
   the old text, the new one or a mixture may be on the disk. *)
MetadataWrite(text, at, then, else) ==
    /\ wpc = at
    /\ SetCurrent([Current EXCEPT !.json = @ \cup {text, "torn"}])
    /\ Going(then) \/ Failing(else)
    /\ UNCHANGED closeFrame

MetadataSync(text, at, next) ==
    /\ wpc = at
    /\ \/ SetCurrent([Current EXCEPT !.json = {text}]) /\ Going(next)
       \/ UNCHANGED splits /\ Failing(next)
    /\ UNCHANGED closeFrame

(* The final counts, still incomplete. *)
CountsWrite == MetadataWrite("incomplete", "countsWrite", "countsSync", "mayClean")
CountsSync == MetadataSync("incomplete", "countsSync", "mayClean")

(* Mutant: the mark does not depend on what failed before. *)
MarkAlways ==
    /\ wpc = "mayClean"
    /\ Going("cleanWrite")
    /\ UNCHANGED <<closeFrame, splits>>

MayClean ==
    /\ wpc = "mayClean"
    /\ Going(IF failed THEN "mustRevoke" ELSE "cleanWrite")
    /\ UNCHANGED <<closeFrame, splits>>

CleanWrite == MetadataWrite("clean", "cleanWrite", "cleanSync", "mustRevoke")
CleanSync == MetadataSync("clean", "cleanSync", "mustRevoke")

(* A failure of this very write, or one of the receive thread meanwhile. *)
MustRevoke ==
    /\ wpc = "mustRevoke"
    /\ Going(IF failed THEN "revokeWrite" ELSE "closeJson")
    /\ UNCHANGED <<closeFrame, splits>>

RevokeWrite == MetadataWrite("incomplete", "revokeWrite", "revokeSync", "closeJson")
RevokeSync == MetadataSync("incomplete", "revokeSync", "closeJson")

CloseJson ==
    /\ wpc = "closeJson"
    /\ SetCurrent([Current EXCEPT !.open = FALSE])
    /\ LET next == IF why = "final" THEN "exit" ELSE "nextSplit"
       IN  Going(next) \/ Failing(next)
    /\ UNCHANGED closeFrame

(* Append goes on in the next split, unless something has failed. *)
NextSplit ==
    /\ wpc = "nextSplit"
    /\ \/ failed /\ Failing("leave") /\ UNCHANGED splits
       \/ ~failed /\ Going("writeBin") /\ splits' = Append(splits, NewSplit)
       \/ ~failed /\ Failing("leave") /\ splits' \in {splits, Append(splits, NewSplit)}
    /\ UNCHANGED closeFrame

----------------------------------------------------------------------------
Producer == OnFrame \/ TryPush \/ CountQueued \/ PushFails \/ Refuse \/ CloseQueue

Close ==
    \/ NothingOpen \/ SyncBin \/ SyncCsv \/ CountsWrite \/ CountsSync \/ MayClean
    \/ CleanWrite \/ CleanSync \/ MustRevoke \/ RevokeWrite \/ RevokeSync \/ CloseJson

Writer ==
    \/ Pop \/ FoundEmpty \/ CheckClosed \/ AppendFrame \/ WriteBin \/ WriteCsv
    \/ Leave \/ WriterCloses \/ Drain \/ Close \/ NextSplit

Done == opc = "stopped" /\ UNCHANGED vars

Next == Start \/ Stop \/ Join \/ Producer \/ Writer \/ Flush \/ Done

Spec == Init /\ [][Next]_vars

(* The writer runs and the owner, once it stops, goes on; nothing makes the
   scanner send. *)
FairSpec == Spec /\ WF_vars(Writer) /\ WF_vars(Join)

----------------------------------------------------------------------------
(* Properties. *)

Telegrams == [id : 1 .. MaxFrames, size : Sizes]

(* The values of the variables. *)
TypeOK ==
    /\ opc \in {"new", "running", "join", "stopped"}
    /\ ppc \in {"idle", "push", "count", "fail", "refuse", "close"}
    /\ held \in Telegrams \cup {NoTelegram} /\ offered \in Telegrams \cup {NoTelegram}
    /\ queue \in Seq(Telegrams) /\ Len(queue) <= Capacity
    /\ \A k \in DOMAIN splits : splits[k].json \subseteq {"incomplete", "clean", "torn"}
    /\ \A k \in DOMAIN splits : splits[k].open => k = Len(splits)

(* A split that a reader may find marked clean after a power cut has all its
   telegrams and all its index rows on the disk, one row for each telegram
   (CloseSplit, WriteMetadata). *)
CleanIsDurable ==
    \A k \in DOMAIN splits :
        LET s == splits[k]
        IN  "clean" \in s.json => s.binSafe = Len(s.bin) /\ s.csvSafe = Len(s.csv) /\ s.bin = s.csv

(* Every telegram handed over is in the files or counted as dropped, none
   twice, whichever thread notices the failure first; and a recorder that
   reports no failure has dropped none and marked every split clean (OnFrame,
   WriteLoop, HasFailed, Stop). *)
Accounted ==
    opc = "stopped" =>
        /\ sent = written + dropped
        /\ ~failed => dropped = 0 /\ \A k \in DOMAIN splits : splits[k].json = {"clean"}

(* The index names telegrams in the order of their arrival, over all splits,
   and the data file has at most one more, from a write that failed
   (Append). *)
IndexInOrder ==
    /\ \A k, l \in DOMAIN splits : \A a \in DOMAIN splits[k].csv : \A b \in DOMAIN splits[l].csv :
          k < l \/ (k = l /\ a < b) => splits[k].csv[a].id < splits[l].csv[b].id
    /\ \A k \in DOMAIN splits :
          LET s == splits[k]
          IN  /\ SubSeq(s.bin, 1, Len(s.csv)) = s.csv
              /\ Len(s.bin) > Len(s.csv) =>
                    /\ Len(s.bin) = Len(s.csv) + 1
                    /\ failed \/ wpc = "writeCsv"

(* A split exceeds the limit only by holding a single telegram that is larger
   (Append). *)
SplitsBounded ==
    \A k \in DOMAIN splits :
        MaxBytes # 0 /\ splits[k].bytes > MaxBytes => Len(splits[k].csv) = 1

(* What the writer keeps true of the files at every step, and of the counters
   in the end. *)
RecorderInv == TypeOK /\ IndexInOrder /\ SplitsBounded /\ Accounted

(* Stop returns, whatever the disk does (WriteLoop, CloseSplit). *)
StopReturns == opc = "join" ~> opc = "stopped"
=============================================================================
