---------------------------- MODULE SbfWriteQueue ---------------------------
(***************************************************************************)
(* The queue between the thread that reads the AsteRx socket and the disk: *)
(* asterx_driver/src/sbf_write_queue.cpp, with SbfWriter and the rotating  *)
(* file under it.  The caller (the Qt thread) enqueues and closes; one     *)
(* writer thread drains.  Each step is one critical section of mu_, or the *)
(* file operation between two of them.                                     *)
(***************************************************************************)
EXTENDS RotatingFile, FiniteSets, SequencesExt

CONSTANTS
    Sizes,      \* sizes of nonempty SBF blocks
    Budget,     \* max_pending_bytes_
    MaxBlocks   \* bound on the blocks offered

ASSUME SizesAssumption == Sizes \subseteq Nat \ {0}
ASSUME BudgetAssumption == Budget \in Nat \ {0} /\ MaxBlocks \in Nat

VARIABLES
    \* guarded by mu_
    queue,        \* queue_: blocks [id, size]
    pending,      \* pending_bytes_
    stop,         \* stop_
    closed,       \* closed_
    \* atomics
    failed,       \* failed_
    writeFailed,  \* write_failed_
    records,      \* records_written_
    \* the writer thread and the file
    wpc,          \* where WriterLoop is
    inHand,       \* the block it has popped
    file,         \* writer_
    \* the caller
    cpc,          \* where the caller is
    rest,         \* Close without a thread: what it took from the queue
    offer,        \* the block Enqueue holds
    \* what happened
    offered,      \* blocks offered to Enqueue so far
    accepted,     \* blocks for which Enqueue returned true, in order
    written,      \* blocks that reached the file, in order
    refused,      \* Enqueue has returned false
    calls         \* invocations of on_failure_

lockVars == <<queue, pending, stop, closed>>
historyVars == <<offered, accepted, refused>>
vars == <<lockVars, failed, writeFailed, records, wpc, inHand, file, cpc, rest, offer,
          historyVars, written, calls>>

Blocks == [id : 1 .. MaxBlocks, size : Sizes]
NoBlock == [id |-> 0, size |-> 0]

(* The bytes of a sequence of blocks, each named by its block and its place. *)
Bytes(seq) == UNION {{i} \X (1 .. seq[i].size) : i \in DOMAIN seq}
TotalSize(seq) == Cardinality(Bytes(seq))

(* The values of the variables. *)
TypeOK ==
    /\ queue \in Seq(Blocks) /\ rest \in Seq(Blocks)
    /\ accepted \in Seq(Blocks) /\ written \in Seq(Blocks)
    /\ pending \in 0 .. Budget /\ offered \in 0 .. MaxBlocks
    /\ records \in 0 .. MaxBlocks /\ calls \in 0 .. 1
    /\ {stop, closed, failed, writeFailed, refused} \subseteq BOOLEAN
    /\ wpc \in {"none", "wait", "write", "fail", "notify", "settle", "exited"}
    /\ {inHand, offer} \subseteq Blocks \cup {NoBlock}
    /\ cpc \in {"open", "lock", "overflow", "join", "drain", "drainFail", "drainNotify", "close",
                "closed"}
    /\ file.open \in BOOLEAN /\ file.failed \in BOOLEAN /\ file.wrote \in BOOLEAN
    /\ file.sizes \in Seq(Nat)

Init ==
    /\ queue = << >> /\ pending = 0 /\ stop = FALSE /\ closed = FALSE
    /\ failed = FALSE /\ writeFailed = FALSE /\ records = 0
    /\ wpc = "none" /\ inHand = NoBlock /\ file = NoFile
    /\ cpc = "open" /\ rest = << >> /\ offer = NoBlock
    /\ offered = 0 /\ accepted = << >> /\ written = << >> /\ refused = FALSE /\ calls = 0

----------------------------------------------------------------------------
(* The caller. *)

Start ==
    /\ cpc = "open" /\ wpc = "none"
    /\ wpc' = "wait"
    /\ UNCHANGED <<lockVars, failed, writeFailed, records, inHand, file, cpc, rest,
                   historyVars, written, calls, offer>>

(* Enqueue reads failed_ before it takes the lock ... *)
OfferBlock(b) ==
    /\ cpc = "open" /\ offered < MaxBlocks
    /\ offered' = b.id
    /\ \/ failed /\ refused' = TRUE /\ UNCHANGED <<cpc, offer>>
       \/ ~failed /\ cpc' = "lock" /\ offer' = b /\ UNCHANGED refused
    /\ UNCHANGED <<lockVars, failed, writeFailed, records, wpc, inHand, file, rest,
                   accepted, written, calls>>

Offer == \E size \in Sizes : OfferBlock([id |-> offered + 1, size |-> size])

(* ... so that the writer may fail in between and the block is taken all the
   same.  The caller is the thread that closes: stop_ and closed_ are never
   set here. *)
Enqueue ==
    /\ cpc = "lock"
    /\ \/ /\ pending + offer.size > Budget
          /\ cpc' = "overflow" /\ UNCHANGED <<queue, pending, accepted>>
       \/ /\ pending + offer.size <= Budget
          /\ queue' = Append(queue, offer) /\ pending' = pending + offer.size
          /\ accepted' = Append(accepted, offer) /\ cpc' = "open"
    /\ offer' = NoBlock
    /\ UNCHANGED <<stop, closed, failed, writeFailed, records, wpc, inHand, file, rest,
                   offered, refused, written, calls>>

(* Over budget: Fail takes the lock again, and Enqueue returns false. *)
Overflow ==
    /\ cpc = "overflow"
    /\ cpc' = "open" /\ failed' = TRUE /\ refused' = TRUE
    /\ UNCHANGED <<lockVars, writeFailed, records, wpc, inHand, file, rest, offered,
                   accepted, written, calls, offer>>

(* Close stops the queue; without a writer thread it takes the blocks. *)
Close ==
    /\ cpc = "open"
    /\ stop' = TRUE
    /\ IF wpc # "none"
       THEN cpc' = "join" /\ UNCHANGED <<queue, pending, rest>>
       ELSE cpc' = "drain" /\ rest' = queue /\ queue' = << >> /\ pending' = 0
    /\ UNCHANGED <<closed, failed, writeFailed, records, wpc, inHand, file, historyVars,
                   written, calls, offer>>

Join ==
    /\ cpc = "join" /\ wpc = "exited"
    /\ cpc' = "close"
    /\ UNCHANGED <<lockVars, failed, writeFailed, records, wpc, inHand, file, rest,
                   historyVars, written, calls, offer>>

(* Mutant: any failure, not only one of the file, discards the rest. *)
WriteOneUnlessFailed(b) ==
    IF failed THEN UNCHANGED <<file, writeFailed, records, written>>
    ELSE /\ file' \in AppendBlock(file, b.size)
         /\ written' = IF file'.wrote THEN Append(written, b) ELSE written
         /\ writeFailed' = file'.failed
         /\ records' = IF file'.failed THEN records ELSE Len(written')

(* WriteOne: nothing once a write has failed; a block that reached the file
   before its rotation failed is written but not counted. *)
WriteOne(b) ==
    IF writeFailed THEN UNCHANGED <<file, writeFailed, records, written>>
    ELSE /\ file' \in AppendBlock(file, b.size)
         /\ written' = IF file'.wrote THEN Append(written, b) ELSE written
         /\ writeFailed' = file'.failed
         /\ records' = IF file'.failed THEN records ELSE Len(written')

WroteBadly == writeFailed' /\ ~writeFailed

(* Fail with notify: the first failure invokes the callback, outside mu_. *)
FailFirst(first) == failed' = TRUE /\ first = ~failed

DrainOne ==
    /\ cpc = "drain" /\ rest # << >>
    /\ WriteOne(Head(rest)) /\ rest' = Tail(rest)
    /\ cpc' = IF WroteBadly THEN "drainFail" ELSE "drain"
    /\ UNCHANGED <<lockVars, failed, wpc, inHand, historyVars, calls, offer>>

DrainFail ==
    /\ cpc = "drainFail"
    /\ \E first \in BOOLEAN :
          FailFirst(first) /\ cpc' = IF first THEN "drainNotify" ELSE "drain"
    /\ UNCHANGED <<lockVars, writeFailed, records, wpc, inHand, file, rest, historyVars,
                   written, calls, offer>>

DrainNotify ==
    /\ cpc = "drainNotify"
    /\ cpc' = "drain" /\ calls' = calls + 1
    /\ UNCHANGED <<lockVars, failed, writeFailed, records, wpc, inHand, file, rest,
                   historyVars, written, offer>>

DrainDone ==
    /\ cpc = "drain" /\ rest = << >>
    /\ cpc' = "close"
    /\ UNCHANGED <<lockVars, failed, writeFailed, records, wpc, inHand, file, rest,
                   historyVars, written, calls, offer>>

(* writer_.close(), then closed_ and the verdict !failed_. *)
CloseFile ==
    /\ cpc = "close"
    /\ file' \in CloseCurrent(file)
    /\ failed' = (failed \/ file'.failed)
    /\ closed' = TRUE /\ cpc' = "closed"
    /\ UNCHANGED <<queue, pending, stop, writeFailed, records, wpc, inHand, rest,
                   historyVars, written, calls, offer>>

(* Close is idempotent: a second call repeats the verdict. *)
Closed == cpc = "closed" /\ UNCHANGED vars

----------------------------------------------------------------------------
(* WriterLoop. *)

(* cv_ wakes it for a block or for stop_; stop_ alone does not end it. *)
Pop ==
    /\ wpc = "wait" /\ queue # << >>
    /\ inHand' = Head(queue) /\ queue' = Tail(queue) /\ wpc' = "write"
    /\ UNCHANGED <<pending, stop, closed, failed, writeFailed, records, file, cpc, rest,
                   historyVars, written, calls, offer>>

(* Mutant: after a failure the loop goes back to waiting. *)
ExitUnlessFailed ==
    /\ wpc = "wait" /\ queue = << >> /\ stop
    /\ wpc' = IF failed THEN "wait" ELSE "exited"
    /\ UNCHANGED <<lockVars, failed, writeFailed, records, inHand, file, cpc, rest,
                   historyVars, written, calls, offer>>

Exit ==
    /\ wpc = "wait" /\ queue = << >> /\ stop
    /\ wpc' = "exited"
    /\ UNCHANGED <<lockVars, failed, writeFailed, records, inHand, file, cpc, rest,
                   historyVars, written, calls, offer>>

Write ==
    /\ wpc = "write"
    /\ WriteOne(inHand)
    /\ wpc' = IF WroteBadly THEN "fail" ELSE "settle"
    /\ UNCHANGED <<lockVars, failed, inHand, cpc, rest, historyVars, calls, offer>>

Fail ==
    /\ wpc = "fail"
    /\ \E first \in BOOLEAN :
          FailFirst(first) /\ wpc' = IF first THEN "notify" ELSE "settle"
    /\ UNCHANGED <<lockVars, writeFailed, records, inHand, file, cpc, rest, historyVars,
                   written, calls, offer>>

Notify ==
    /\ wpc = "notify"
    /\ wpc' = "settle" /\ calls' = calls + 1
    /\ UNCHANGED <<lockVars, failed, writeFailed, records, inHand, file, cpc, rest,
                   historyVars, written, offer>>

(* The bytes are released only after the write. *)
Settle ==
    /\ wpc = "settle"
    /\ pending' = pending - inHand.size
    /\ inHand' = NoBlock /\ wpc' = "wait"
    /\ UNCHANGED <<queue, stop, closed, failed, writeFailed, records, file, cpc, rest,
                   historyVars, written, calls, offer>>

CloseSteps == Join \/ DrainOne \/ DrainFail \/ DrainNotify \/ DrainDone \/ CloseFile
Caller == Start \/ Offer \/ Enqueue \/ Overflow \/ Close \/ CloseSteps
Writer == Pop \/ Exit \/ Write \/ Fail \/ Notify \/ Settle

Next == Caller \/ Writer \/ Closed

(* A thread that can run does, and Close, once called, goes on; nobody has
   to enqueue or to close. *)
Fairness == WF_vars(Writer) /\ WF_vars(CloseSteps)

Spec == Init /\ [][Next]_vars
FairSpec == Spec /\ Fairness

----------------------------------------------------------------------------
(* Properties. *)

(* The threads, the locks and the files together are a recording as its caller
   sees it. *)
Log == INSTANCE RecordLog WITH
    Items <- Blocks, stored <- written, broken <- writeFailed, closing <- stop,
    verdict <- IF ~closed THEN "none" ELSE IF failed THEN "failed" ELSE "clean"

(* Every step keeps the promise of RecordLog: blocks reach the file in the order
   they were accepted and each only once; an overflow refuses one block and
   loses none; once the file has failed nothing is written behind the gap; and
   Close returns true only if everything ever offered is in the file (Enqueue,
   Fail, WriteOne, Close). *)
ImplementsLog == Log!Spec

(* The file never holds a block out of order or twice, and records_written_
   never runs ahead of it; a clean Close has counted every block. *)
WrittenInOrder ==
    /\ IsPrefix(written, accepted) /\ records <= Len(written)
    /\ closed /\ ~failed => records = Len(accepted)

(* pending_bytes_ is exactly what is queued or being written: it neither leaks
   (the queue would refuse blocks for ever) nor wraps below zero (Enqueue,
   Settle). *)
PendingIsExact ==
    /\ pending = TotalSize(queue) + inHand.size
    /\ pending <= Budget

(* rotate_bytes is a hard cap on every file of the recording (Append with
   precheck_size_cap, RotateIfNeeded). *)
FilesWithinCap == \A i \in DOMAIN file.sizes : file.sizes[i] <= FileCap

(* A latched failure is never silent: the caller saw a refusal, or the callback
   ran (once), or Close gives the verdict (Fail, Enqueue, Close). *)
FailureReachesCaller ==
    /\ failed /\ wpc # "notify" /\ cpc # "drainNotify" => calls = 1 \/ refused \/ closed
    /\ writeFailed /\ wpc # "fail" /\ cpc # "drainFail" => failed
    /\ calls <= 1

(* What holds between any two critical sections: types, an exact byte count,
   the order of the records, the cap on every file, no silent failure. *)
QueueInv ==
    TypeOK /\ PendingIsExact /\ WrittenInOrder /\ FilesWithinCap /\ FailureReachesCaller

(* Close returns: the writer drains the queue and is joined. *)
CloseReturns == stop ~> closed
=============================================================================
