----------------------- MODULE AsterxRecordingProofs -----------------------
(***************************************************************************)
(* The AsteRx recording, for blocks of any sizes, any budget, any number   *)
(* of blocks and any frames: the write queue implements RecordLog and      *)
(* keeps its books, a frame parses exactly when it is well formed, and     *)
(* the live rows show the recording.                                       *)
(***************************************************************************)
EXTENDS AsterxRecording, SequenceTheorems, FiniteSetTheorems, FunctionTheorems,
        WellFoundedInduction, TLAPS

USE SizesAssumption, BudgetAssumption, FileCapAssumption

FileState == [open : BOOLEAN, failed : BOOLEAN, wrote : BOOLEAN, sizes : Seq(Nat)]

(* What each operation on the file leaves: a state in which the block is
   written or the writer has failed. *)
LEMMA CloseCurrentType ==
    ASSUME NEW f \in FileState
    PROVE  CloseCurrent(f) \subseteq FileState
<1>1. CASE f.open
  <2>1. \A bad \in BOOLEAN : [f EXCEPT !.open = FALSE, !.failed = @ \/ bad] \in FileState
    BY DEF FileState
  <2> QED BY <1>1, <2>1 DEF CloseCurrent
<1>2. CASE ~f.open
  BY <1>2 DEF CloseCurrent
<1> QED BY <1>1, <1>2

LEMMA OpenNextType ==
    ASSUME NEW f \in FileState
    PROVE  OpenNext(f) \subseteq FileState
<1>1. ASSUME NEW g \in FileState
      PROVE  /\ [g EXCEPT !.failed = TRUE] \in FileState
             /\ [g EXCEPT !.open = TRUE, !.sizes = Append(@, 0)] \in FileState
  <2>1. Append(g.sizes, 0) \in Seq(Nat)
    BY <1>1 DEF FileState
  <2> QED BY <1>1, <2>1 DEF FileState
<1> QED BY <1>1, CloseCurrentType DEF OpenNext

LEMMA CloseCurrentKeeps ==
    ASSUME NEW f \in FileState, NEW g \in CloseCurrent(f)
    PROVE  g.wrote = f.wrote
<1>1. \A bad \in BOOLEAN : [f EXCEPT !.open = FALSE, !.failed = @ \/ bad].wrote = f.wrote
  BY DEF FileState
<1> QED BY <1>1 DEF CloseCurrent

LEMMA OpenNextKeeps ==
    ASSUME NEW f \in FileState, NEW g \in OpenNext(f)
    PROVE  g.wrote = f.wrote
<1>1. PICK h \in CloseCurrent(f) :
         g \in IF h.failed THEN {h}
               ELSE {[h EXCEPT !.failed = TRUE], [h EXCEPT !.open = TRUE, !.sizes = Append(@, 0)]}
  BY DEF OpenNext
<1>2. h \in FileState /\ h.wrote = f.wrote
  BY CloseCurrentType, CloseCurrentKeeps
<1>3. /\ [h EXCEPT !.failed = TRUE].wrote = h.wrote
      /\ [h EXCEPT !.open = TRUE, !.sizes = Append(@, 0)].wrote = h.wrote
  BY <1>2 DEF FileState
<1> QED BY <1>1, <1>2, <1>3

LEMMA PutOutcome ==
    ASSUME NEW f \in FileState, NEW size \in Nat, NEW g \in Put(f, size)
    PROVE  g \in FileState /\ (g.wrote \/ g.failed)
<1> DEFINE failing == [f EXCEPT !.failed = TRUE]
           put == [f EXCEPT !.wrote = TRUE, !.sizes[Len(f.sizes)] = @ + size]
<1>1. failing \in FileState /\ failing.failed
  BY DEF FileState
<1>2. put \in FileState /\ put.wrote
  <2>1. f.sizes \in Seq(Nat)
    BY DEF FileState
  <2>2. [f.sizes EXCEPT ![Len(f.sizes)] = @ + size] \in Seq(Nat)
    <3>1. CASE Len(f.sizes) \in 1 .. Len(f.sizes)
      <4>1. f.sizes[Len(f.sizes)] + size \in Nat
        BY <2>1, <3>1, ElementOfSeq
      <4> QED BY <2>1, <3>1, <4>1, ExceptSeq
    <3>2. CASE Len(f.sizes) \notin 1 .. Len(f.sizes)
      <4>1. f.sizes \in [1 .. Len(f.sizes) -> Nat]
        BY <2>1, LenProperties
      <4>2. [f.sizes EXCEPT ![Len(f.sizes)] = @ + size] = f.sizes
        BY <3>2, <4>1
      <4> QED BY <2>1, <4>2
    <3> QED BY <3>1, <3>2
  <2> QED BY <2>2 DEF FileState
<1>3. g = failing \/ g = put \/ g \in OpenNext(put)
  BY DEF Put, RotateIfNeeded
<1> QED BY <1>1, <1>2, <1>3, OpenNextType, OpenNextKeeps

LEMMA PutWithinCapOutcome ==
    ASSUME NEW f \in FileState, NEW size \in Nat, NEW g \in PutWithinCap(f, size)
    PROVE  g \in FileState /\ (g.wrote \/ g.failed)
<1>1. [f EXCEPT !.failed = TRUE] \in FileState /\ [f EXCEPT !.failed = TRUE].failed
  BY DEF FileState
<1>2. CASE size > FileCap
  BY <1>1, <1>2 DEF PutWithinCap
<1>3. CASE ~(size > FileCap)
  <2>1. PICK h \in FileState : g \in IF h.failed THEN {h} ELSE Put(h, size)
    BY <1>3, OpenNextType DEF PutWithinCap
  <2> QED BY <2>1, PutOutcome
<1> QED BY <1>2, <1>3

LEMMA AppendOutcome ==
    ASSUME NEW f \in FileState, NEW size \in Nat, NEW g \in AppendBlock(f, size)
    PROVE  g \in FileState /\ (g.wrote \/ g.failed)
<1> DEFINE fresh == [f EXCEPT !.wrote = FALSE]
<1>1. fresh \in FileState /\ fresh.failed = f.failed
  BY DEF FileState
<1>2. CASE f.failed
  BY <1>1, <1>2 DEF AppendBlock
<1>3. CASE ~f.failed
  <2>1. PICK h \in FileState : g \in IF h.failed THEN {h} ELSE PutWithinCap(h, size)
    BY <1>1, <1>3, OpenNextType DEF AppendBlock
  <2> QED BY <2>1, PutWithinCapOutcome
<1> QED BY <1>2, <1>3

----------------------------------------------------------------------------
(* The inductive invariant. *)

LogTypeOK ==
    /\ queue \in Seq(Blocks) /\ rest \in Seq(Blocks)
    /\ accepted \in Seq(Blocks) /\ written \in Seq(Blocks)
    /\ inHand \in Blocks \cup {NoBlock} /\ offer \in Blocks \cup {NoBlock}
    /\ offered \in 0 .. MaxBlocks /\ file \in FileState
    /\ stop \in BOOLEAN /\ closed \in BOOLEAN /\ failed \in BOOLEAN
    /\ writeFailed \in BOOLEAN /\ refused \in BOOLEAN
    /\ wpc \in {"none", "wait", "write", "fail", "notify", "settle", "exited"}
    /\ cpc \in {"open", "lock", "overflow", "join", "drain", "drainFail", "drainNotify", "close",
                "closed"}

Draining == {"drain", "drainFail", "drainNotify"}

(* Who may be where: Close drains only without a thread, and ends the file when
   the thread is gone and nothing is left. *)
PhasesAgree ==
    /\ stop <=> cpc \notin {"open", "lock", "overflow"}
    /\ closed <=> cpc = "closed"
    /\ cpc = "lock" => offer \in Blocks
    /\ wpc = "write" => inHand \in Blocks
    /\ cpc \in Draining => wpc = "none" /\ queue = << >>
    /\ cpc \notin Draining => rest = << >>
    /\ cpc = "join" => wpc # "none"
    /\ cpc \in {"close", "closed"} => wpc \in {"none", "exited"} /\ queue = << >>
    /\ wpc = "exited" => stop /\ queue = << >>

InFlight == IF wpc = "write" THEN 1 ELSE 0

(* Unless the file has failed, an accepted block is in the file, in the writer's
   hand or still queued, and in that order. *)
Lined ==
    /\ Len(accepted) = Len(written) + InFlight + Len(queue) + Len(rest)
    /\ wpc = "write" => accepted[Len(written) + 1] = inHand
    /\ \A i \in 1 .. Len(queue) : accepted[Len(written) + InFlight + i] = queue[i]
    /\ \A i \in 1 .. Len(rest) : accepted[Len(written) + i] = rest[i]

StoredIsPrefix ==
    /\ Len(written) <= Len(accepted)
    /\ \A i \in 1 .. Len(written) : written[i] = accepted[i]

(* A failure on its way to failed_ is in the hands of exactly one thread. *)
FailureLatched ==
    /\ writeFailed /\ wpc # "fail" /\ cpc # "drainFail" => failed
    /\ wpc = "fail" => writeFailed
    /\ refused => failed

LogInv == LogTypeOK /\ PhasesAgree /\ StoredIsPrefix /\ (~writeFailed => Lined) /\ FailureLatched

LEMMA LogInvInit == Init => LogInv
<1> SUFFICES ASSUME Init PROVE LogInv
  OBVIOUS
<1>1. file \in FileState
  BY DEF Init, NoFile, FileState
<1>2. LogTypeOK
  <2>1. offered \in 0 .. MaxBlocks
    BY DEF Init
  <2>2. /\ queue \in Seq(Blocks) /\ rest \in Seq(Blocks)
        /\ accepted \in Seq(Blocks) /\ written \in Seq(Blocks)
    BY EmptySeq DEF Init
  <2> QED BY <1>1, <2>1, <2>2, Zenon DEF Init, LogTypeOK
<1>3. PhasesAgree /\ FailureLatched
  BY DEF Init, PhasesAgree, FailureLatched, Draining
<1>4. StoredIsPrefix /\ Lined
  BY DEF Init, StoredIsPrefix, Lined, InFlight
<1> QED BY <1>2, <1>3, <1>4 DEF LogInv

(* WriteOne: a block in front of everything that is not yet in the file either
   reaches it, or the file fails. *)
LEMMA WriteOneOutcome ==
    ASSUME LogTypeOK, NEW b \in Blocks, WriteOne(b)
    PROVE  /\ file' \in FileState /\ writeFailed' \in BOOLEAN
           /\ writeFailed => UNCHANGED <<written, writeFailed>>
           /\ ~writeFailed => written' = Append(written, b) \/ (written' = written /\ writeFailed')
<1>1. CASE writeFailed
  BY <1>1 DEF WriteOne, LogTypeOK
<1>2. CASE ~writeFailed
  <2>1. b.size \in Nat
    BY DEF Blocks
  <2>2. file' \in FileState /\ (file'.wrote \/ file'.failed)
    BY <1>2, <2>1, AppendOutcome DEF WriteOne, LogTypeOK
  <2>3. writeFailed' = file'.failed /\ file'.failed \in BOOLEAN
    BY <1>2, <2>2 DEF WriteOne, FileState
  <2> QED BY <1>2, <2>2, <2>3 DEF WriteOne
<1> QED BY <1>1, <1>2 DEF LogTypeOK
(* Steps that move no block keep them lined up. *)
LEMMA ListsKept ==
    ASSUME LogInv, UNCHANGED <<accepted, written, queue, rest, writeFailed>>,
           wpc' = "write" <=> wpc = "write", wpc = "write" => inHand' = inHand
    PROVE  StoredIsPrefix' /\ (~writeFailed' => Lined')
BY DEF LogInv, StoredIsPrefix, Lined, InFlight

LEMMA LogInvStep == LogInv /\ [Next]_vars => LogInv'
<1> SUFFICES ASSUME LogInv, [Next]_vars PROVE LogInv'
  OBVIOUS
<1> USE DEF lockVars, historyVars
<1>1. ASSUME Start PROVE LogInv'
  <2>1. LogTypeOK'
    BY <1>1, ZenonT(30) DEF LogInv, LogTypeOK, Start
  <2>2. PhasesAgree'
    BY <1>1 DEF LogInv, LogTypeOK, PhasesAgree, Draining, Start
  <2>3. StoredIsPrefix' /\ (~writeFailed' => Lined')
    BY <1>1, ListsKept DEF Start
  <2>4. FailureLatched'
    BY <1>1 DEF LogInv, LogTypeOK, FailureLatched, PhasesAgree, Draining, Start
  <2> QED BY <2>1, <2>2, <2>3, <2>4 DEF LogInv
<1>2. ASSUME NEW size \in Sizes, OfferBlock([id |-> offered + 1, size |-> size]) PROVE LogInv'
  <2>0. [id |-> offered + 1, size |-> size] \in Blocks /\ offered + 1 \in 0 .. MaxBlocks
    BY <1>2 DEF LogInv, LogTypeOK, Blocks, OfferBlock
  <2>1. LogTypeOK'
    BY <2>0, <1>2, ZenonT(30) DEF LogInv, LogTypeOK, OfferBlock
  <2>2. PhasesAgree'
    BY <2>0, <1>2 DEF LogInv, LogTypeOK, PhasesAgree, Draining, OfferBlock
  <2>3. StoredIsPrefix' /\ (~writeFailed' => Lined')
    BY <1>2, ListsKept DEF OfferBlock
  <2>4. FailureLatched'
    BY <2>0, <1>2 DEF LogInv, LogTypeOK, FailureLatched, PhasesAgree, Draining, OfferBlock
  <2> QED BY <2>1, <2>2, <2>3, <2>4 DEF LogInv
<1>3. ASSUME Overflow PROVE LogInv'
  <2>1. LogTypeOK'
    BY <1>3, ZenonT(30) DEF LogInv, LogTypeOK, Overflow
  <2>2. PhasesAgree'
    BY <1>3 DEF LogInv, LogTypeOK, PhasesAgree, Draining, Overflow
  <2>3. StoredIsPrefix' /\ (~writeFailed' => Lined')
    BY <1>3, ListsKept DEF Overflow
  <2>4. FailureLatched'
    BY <1>3 DEF LogInv, LogTypeOK, FailureLatched, PhasesAgree, Draining, Overflow
  <2> QED BY <2>1, <2>2, <2>3, <2>4 DEF LogInv
<1>4. ASSUME Join PROVE LogInv'
  <2>1. LogTypeOK'
    BY <1>4, ZenonT(30) DEF LogInv, LogTypeOK, Join
  <2>2. PhasesAgree'
    BY <1>4 DEF LogInv, LogTypeOK, PhasesAgree, Draining, Join
  <2>3. StoredIsPrefix' /\ (~writeFailed' => Lined')
    BY <1>4, ListsKept DEF Join
  <2>4. FailureLatched'
    BY <1>4 DEF LogInv, LogTypeOK, FailureLatched, PhasesAgree, Draining, Join
  <2> QED BY <2>1, <2>2, <2>3, <2>4 DEF LogInv
<1>5. ASSUME DrainFail PROVE LogInv'
  <2>1. LogTypeOK'
    BY <1>5, ZenonT(30) DEF LogInv, LogTypeOK, DrainFail, FailFirst
  <2>2. PhasesAgree'
    BY <1>5 DEF LogInv, LogTypeOK, PhasesAgree, Draining, DrainFail, FailFirst
  <2>3. StoredIsPrefix' /\ (~writeFailed' => Lined')
    BY <1>5, ListsKept DEF DrainFail, FailFirst
  <2>4. FailureLatched'
    BY <1>5 DEF LogInv, LogTypeOK, FailureLatched, PhasesAgree, Draining, DrainFail, FailFirst
  <2> QED BY <2>1, <2>2, <2>3, <2>4 DEF LogInv
<1>6. ASSUME DrainNotify PROVE LogInv'
  <2>1. LogTypeOK'
    BY <1>6, ZenonT(30) DEF LogInv, LogTypeOK, DrainNotify
  <2>2. PhasesAgree'
    BY <1>6 DEF LogInv, LogTypeOK, PhasesAgree, Draining, DrainNotify
  <2>3. StoredIsPrefix' /\ (~writeFailed' => Lined')
    BY <1>6, ListsKept DEF DrainNotify
  <2>4. FailureLatched'
    BY <1>6 DEF LogInv, LogTypeOK, FailureLatched, PhasesAgree, Draining, DrainNotify
  <2> QED BY <2>1, <2>2, <2>3, <2>4 DEF LogInv
<1>7. ASSUME DrainDone PROVE LogInv'
  <2>1. LogTypeOK'
    BY <1>7, ZenonT(30) DEF LogInv, LogTypeOK, DrainDone
  <2>2. PhasesAgree'
    BY <1>7 DEF LogInv, LogTypeOK, PhasesAgree, Draining, DrainDone
  <2>3. StoredIsPrefix' /\ (~writeFailed' => Lined')
    BY <1>7, ListsKept DEF DrainDone
  <2>4. FailureLatched'
    BY <1>7 DEF LogInv, LogTypeOK, FailureLatched, PhasesAgree, Draining, DrainDone
  <2> QED BY <2>1, <2>2, <2>3, <2>4 DEF LogInv
<1>8. ASSUME CloseFile PROVE LogInv'
  <2>0. file' \in FileState /\ file'.failed \in BOOLEAN
    BY <1>8, CloseCurrentType DEF CloseFile, LogInv, LogTypeOK, FileState
  <2>1. LogTypeOK'
    BY <2>0, <1>8, ZenonT(30) DEF LogInv, LogTypeOK, CloseFile
  <2>2. PhasesAgree'
    BY <2>0, <1>8 DEF LogInv, LogTypeOK, PhasesAgree, Draining, CloseFile
  <2>3. StoredIsPrefix' /\ (~writeFailed' => Lined')
    BY <1>8, ListsKept DEF CloseFile
  <2>4. FailureLatched'
    BY <2>0, <1>8 DEF LogInv, LogTypeOK, FailureLatched, PhasesAgree, Draining, CloseFile
  <2> QED BY <2>1, <2>2, <2>3, <2>4 DEF LogInv
<1>9. ASSUME Exit PROVE LogInv'
  <2>1. LogTypeOK'
    BY <1>9, ZenonT(30) DEF LogInv, LogTypeOK, Exit
  <2>2. PhasesAgree'
    BY <1>9 DEF LogInv, LogTypeOK, PhasesAgree, Draining, Exit
  <2>3. StoredIsPrefix' /\ (~writeFailed' => Lined')
    BY <1>9, ListsKept DEF Exit
  <2>4. FailureLatched'
    BY <1>9 DEF LogInv, LogTypeOK, FailureLatched, PhasesAgree, Draining, Exit
  <2> QED BY <2>1, <2>2, <2>3, <2>4 DEF LogInv
<1>10. ASSUME Fail PROVE LogInv'
  <2>1. LogTypeOK'
    BY <1>10, ZenonT(30) DEF LogInv, LogTypeOK, Fail, FailFirst
  <2>2. PhasesAgree'
    BY <1>10 DEF LogInv, LogTypeOK, PhasesAgree, Draining, Fail, FailFirst
  <2>3. StoredIsPrefix' /\ (~writeFailed' => Lined')
    BY <1>10, ListsKept DEF Fail, FailFirst
  <2>4. FailureLatched'
    BY <1>10 DEF LogInv, LogTypeOK, FailureLatched, PhasesAgree, Draining, Fail, FailFirst
  <2> QED BY <2>1, <2>2, <2>3, <2>4 DEF LogInv
<1>11. ASSUME Notify PROVE LogInv'
  <2>1. LogTypeOK'
    BY <1>11, ZenonT(30) DEF LogInv, LogTypeOK, Notify
  <2>2. PhasesAgree'
    BY <1>11 DEF LogInv, LogTypeOK, PhasesAgree, Draining, Notify
  <2>3. StoredIsPrefix' /\ (~writeFailed' => Lined')
    BY <1>11, ListsKept DEF Notify
  <2>4. FailureLatched'
    BY <1>11 DEF LogInv, LogTypeOK, FailureLatched, PhasesAgree, Draining, Notify
  <2> QED BY <2>1, <2>2, <2>3, <2>4 DEF LogInv
<1>12. ASSUME Settle PROVE LogInv'
  <2>1. LogTypeOK'
    BY <1>12, ZenonT(30) DEF LogInv, LogTypeOK, Settle
  <2>2. PhasesAgree'
    BY <1>12 DEF LogInv, LogTypeOK, PhasesAgree, Draining, Settle
  <2>3. StoredIsPrefix' /\ (~writeFailed' => Lined')
    BY <1>12, ListsKept DEF Settle
  <2>4. FailureLatched'
    BY <1>12 DEF LogInv, LogTypeOK, FailureLatched, PhasesAgree, Draining, Settle
  <2> QED BY <2>1, <2>2, <2>3, <2>4 DEF LogInv
<1>13. ASSUME Enqueue PROVE LogInv'
  <2>0. cpc = "lock" /\ offer \in Blocks
    BY <1>13 DEF Enqueue, LogInv, PhasesAgree
  <2>a. /\ Append(queue, offer) \in Seq(Blocks) /\ Len(Append(queue, offer)) = Len(queue) + 1
        /\ \A i \in 1 .. Len(queue) : Append(queue, offer)[i] = queue[i]
        /\ Append(queue, offer)[Len(queue) + 1] = offer
    BY <2>0, AppendProperties DEF LogInv, LogTypeOK
  <2>b. /\ Append(accepted, offer) \in Seq(Blocks) /\ Len(Append(accepted, offer)) = Len(accepted) + 1
        /\ \A i \in 1 .. Len(accepted) : Append(accepted, offer)[i] = accepted[i]
        /\ Append(accepted, offer)[Len(accepted) + 1] = offer
    BY <2>0, AppendProperties DEF LogInv, LogTypeOK
  <2>c. /\ \/ accepted' = accepted /\ queue' = queue
           \/ accepted' = Append(accepted, offer) /\ queue' = Append(queue, offer)
        /\ UNCHANGED <<written, rest, wpc, inHand, writeFailed>> /\ rest = << >>
    BY <2>0, <1>13 DEF Enqueue, LogInv, PhasesAgree, Draining
  <2>d. Len(queue) \in Nat /\ Len(accepted) \in Nat /\ Len(written) \in Nat
    BY LenProperties DEF LogInv, LogTypeOK
  <2>1. LogTypeOK'
    BY <2>0, <2>a, <2>b, <1>13, ZenonT(30) DEF LogInv, LogTypeOK, Enqueue
  <2>2. PhasesAgree'
    BY <2>0, <1>13 DEF LogInv, LogTypeOK, PhasesAgree, Draining, Enqueue
  <2>3. StoredIsPrefix'
    BY <2>b, <2>c, <2>d DEF LogInv, StoredIsPrefix
  <2>4. ~writeFailed' => Lined'
    <3>1. CASE accepted' = accepted /\ queue' = queue
      BY <2>c, <3>1 DEF LogInv, Lined, InFlight
    <3>2. CASE accepted' = Append(accepted, offer) /\ queue' = Append(queue, offer)
      <4> SUFFICES ASSUME ~writeFailed' PROVE Lined'
        OBVIOUS
      <4>1. Lined
        BY <2>c DEF LogInv
      <4>2. /\ Len(accepted) = Len(written) + InFlight + Len(queue) /\ InFlight \in {0, 1}
            /\ InFlight' = InFlight
        BY <2>c, <2>d, <4>1 DEF Lined, InFlight
      <4>3. Len(accepted') = Len(written') + InFlight' + Len(queue') + Len(rest')
        BY <2>a, <2>b, <2>c, <2>d, <3>2, <4>2
      <4>4. wpc' = "write" => accepted'[Len(written') + 1] = inHand'
        BY <2>b, <2>c, <2>d, <3>2, <4>1, <4>2 DEF Lined, InFlight
      <4>5. \A i \in 1 .. Len(queue') : accepted'[Len(written') + InFlight' + i] = queue'[i]
        <5> SUFFICES ASSUME NEW i \in 1 .. Len(queue')
                     PROVE  accepted'[Len(written') + InFlight' + i] = queue'[i]
          OBVIOUS
        <5>1. CASE i <= Len(queue)
          <6>1. Len(written) + InFlight + i \in 1 .. Len(accepted)
            BY <2>d, <4>2, <5>1
          <6>2. accepted[Len(written) + InFlight + i] = queue[i]
            BY <2>d, <4>1, <5>1 DEF Lined
          <6> QED BY <2>a, <2>b, <2>c, <2>d, <3>2, <4>2, <5>1, <6>1, <6>2
        <5>2. CASE i = Len(queue) + 1
          <6>1. Len(written) + InFlight + i = Len(accepted) + 1
            BY <2>d, <4>2, <5>2
          <6>2. Len(written') + InFlight' + i = Len(accepted) + 1
            BY <2>c, <4>2, <6>1
          <6>3. accepted'[Len(accepted) + 1] = offer /\ queue'[i] = offer
            BY <2>a, <2>b, <3>2, <5>2
          <6> QED BY <6>2, <6>3
        <5>3. Len(queue') = Len(queue) + 1
          BY <2>a, <3>2
        <5>4. i <= Len(queue) \/ i = Len(queue) + 1
          BY <2>d, <5>3
        <5> QED BY <5>1, <5>2, <5>4
      <4>6. \A i \in 1 .. Len(rest') : accepted'[Len(written') + i] = rest'[i]
        BY <2>c
      <4> QED BY <4>3, <4>4, <4>5, <4>6 DEF Lined
    <3> QED BY <2>c, <3>1, <3>2
  <2>5. FailureLatched'
    BY <2>0, <1>13 DEF LogInv, FailureLatched, Enqueue
  <2> QED BY <2>1, <2>2, <2>3, <2>4, <2>5 DEF LogInv
<1>14. ASSUME Close PROVE LogInv'
  <2>1. LogTypeOK'
    BY <1>14, EmptySeq, ZenonT(30) DEF LogInv, LogTypeOK, Close
  <2>2. PhasesAgree'
    BY <1>14 DEF LogInv, LogTypeOK, PhasesAgree, Draining, Close
  <2>3. StoredIsPrefix'
    BY <1>14 DEF LogInv, StoredIsPrefix, Close
  <2>4. ~writeFailed' => Lined'
    BY <1>14 DEF LogInv, LogTypeOK, PhasesAgree, Draining, Lined, InFlight, Close
  <2>5. FailureLatched'
    BY <1>14 DEF LogInv, FailureLatched, Close
  <2> QED BY <2>1, <2>2, <2>3, <2>4, <2>5 DEF LogInv
<1>15. ASSUME Pop PROVE LogInv'
  <2>0. /\ Head(queue) \in Blocks /\ Tail(queue) \in Seq(Blocks)
        /\ Len(queue) > 0 /\ Len(Tail(queue)) = Len(queue) - 1 /\ Head(queue) = queue[1]
        /\ \A i \in 1 .. Len(Tail(queue)) : Tail(queue)[i] = queue[i + 1]
    BY <1>15, HeadTailProperties, EmptySeq DEF Pop, LogInv, LogTypeOK
  <2>1. LogTypeOK'
    BY <2>0, <1>15, ZenonT(30) DEF LogInv, LogTypeOK, Pop
  <2>2. PhasesAgree'
    BY <2>0, <1>15 DEF LogInv, LogTypeOK, PhasesAgree, Draining, Pop
  <2>3. StoredIsPrefix'
    BY <1>15 DEF LogInv, StoredIsPrefix, Pop
  <2>a. /\ wpc = "wait" /\ wpc' = "write" /\ inHand' = Head(queue) /\ queue' = Tail(queue)
        /\ UNCHANGED <<accepted, written, rest, writeFailed>> /\ rest = << >>
        /\ Len(queue) \in Nat /\ Len(accepted) \in Nat /\ Len(written) \in Nat
    BY <1>15, LenProperties DEF Pop, LogInv, LogTypeOK, PhasesAgree, Draining
  <2>4. ~writeFailed' => Lined'
    <3> SUFFICES ASSUME ~writeFailed' PROVE Lined'
      OBVIOUS
    <3>0. Lined /\ InFlight = 0 /\ InFlight' = 1 /\ Len(rest) = 0
      BY <2>a, EmptySeq DEF LogInv, InFlight
    <3>1. Len(accepted') = Len(written') + InFlight' + Len(queue') + Len(rest')
      BY <2>0, <2>a, <3>0 DEF Lined
    <3>2. accepted'[Len(written') + 1] = inHand'
      <4>1. accepted[Len(written) + InFlight + 1] = queue[1]
        BY <2>0, <2>a, <3>0 DEF Lined
      <4> QED BY <2>0, <2>a, <3>0, <4>1
    <3>3. ASSUME NEW i \in 1 .. Len(queue')
          PROVE  accepted'[Len(written') + InFlight' + i] = queue'[i]
      <4>1. i \in Nat /\ i + 1 \in 1 .. Len(queue) /\ queue'[i] = queue[i + 1]
        BY <2>0, <2>a, <3>3
      <4>2. accepted[Len(written) + InFlight + (i + 1)] = queue[i + 1]
        BY <3>0, <4>1 DEF Lined
      <4>3. Len(written) + InFlight + (i + 1) = Len(written') + InFlight' + i
        BY <2>a, <3>0, <4>1
      <4> QED BY <2>a, <4>1, <4>2, <4>3
    <3>4. ASSUME NEW i \in 1 .. Len(rest') PROVE accepted'[Len(written') + i] = rest'[i]
      BY <2>a, <3>0, <3>4
    <3> QED BY <3>1, <3>2, <3>3, <3>4 DEF Lined
  <2>5. FailureLatched'
    BY <1>15 DEF LogInv, FailureLatched, Pop
  <2> QED BY <2>1, <2>2, <2>3, <2>4, <2>5 DEF LogInv
<1>16. ASSUME Write PROVE LogInv'
  <2>0. /\ wpc = "write" /\ inHand \in Blocks /\ rest = << >> /\ rest' = << >>
        /\ cpc' = cpc /\ queue' = queue /\ accepted' = accepted /\ wpc' # "write"
    BY <1>16 DEF Write, LogInv, PhasesAgree, Draining
  <2>a. /\ file' \in FileState /\ writeFailed' \in BOOLEAN
        /\ writeFailed => UNCHANGED <<written, writeFailed>>
        /\ ~writeFailed => written' = Append(written, inHand) \/ (written' = written /\ writeFailed')
    BY <1>16, <2>0, WriteOneOutcome DEF Write, LogInv
  <2>b. /\ Append(written, inHand) \in Seq(Blocks) /\ Len(Append(written, inHand)) = Len(written) + 1
        /\ \A i \in 1 .. Len(written) : Append(written, inHand)[i] = written[i]
        /\ Append(written, inHand)[Len(written) + 1] = inHand
    BY <2>0, AppendProperties DEF LogInv, LogTypeOK
  <2>c. written' \in Seq(Blocks)
    BY <2>a, <2>b DEF LogInv, LogTypeOK
  <2>d. /\ Len(queue) \in Nat /\ Len(accepted) \in Nat /\ Len(written) \in Nat
        /\ Len(rest) \in Nat /\ writeFailed \in BOOLEAN
    BY LenProperties DEF LogInv, LogTypeOK
  <2>1. LogTypeOK'
    BY <2>a, <2>c, <1>16, ZenonT(30) DEF LogInv, LogTypeOK, Write
  <2>2. PhasesAgree'
    BY <2>0, <1>16 DEF LogInv, LogTypeOK, PhasesAgree, Draining, Write
  <2>e. ~writeFailed => Len(written) < Len(accepted) /\ accepted[Len(written) + 1] = inHand
    <3>1. InFlight = 1
      BY <2>0 DEF InFlight
    <3> QED BY <2>0, <2>d, <3>1 DEF LogInv, Lined
  <2>3. StoredIsPrefix'
    <3>1. CASE written' = written
      BY <2>0, <3>1 DEF LogInv, StoredIsPrefix
    <3>2. CASE ~writeFailed /\ written' = Append(written, inHand)
      BY <2>0, <2>b, <2>d, <2>e, <3>2 DEF LogInv, StoredIsPrefix
    <3> QED BY <2>a, <2>d, <3>1, <3>2
  <2>4. ~writeFailed' => Lined'
    <3> SUFFICES ASSUME ~writeFailed' PROVE Lined'
      OBVIOUS
    <3>0. /\ Lined /\ InFlight = 1 /\ InFlight' = 0 /\ Len(rest) = 0
          /\ Len(written') = Len(written) + 1
      BY <2>0, <2>a, <2>b, EmptySeq DEF LogInv, InFlight
    <3>1. Len(accepted') = Len(written') + InFlight' + Len(queue') + Len(rest')
      BY <2>0, <2>d, <3>0 DEF Lined
    <3>2. ASSUME NEW i \in 1 .. Len(queue')
          PROVE  accepted'[Len(written') + InFlight' + i] = queue'[i]
      <4>1. i \in Nat /\ accepted[Len(written) + InFlight + i] = queue[i]
        BY <2>0, <2>d, <3>0, <3>2 DEF Lined
      <4>2. Len(written) + InFlight + i = Len(written') + InFlight' + i
        BY <2>d, <3>0, <4>1
      <4> QED BY <2>0, <4>1, <4>2
    <3>3. ASSUME NEW i \in 1 .. Len(rest') PROVE accepted'[Len(written') + i] = rest'[i]
      BY <2>0, <3>0, <3>3
    <3> QED BY <2>0, <3>1, <3>2, <3>3 DEF Lined
  <2>5. FailureLatched'
    BY <2>0, <2>a, <1>16 DEF LogInv, LogTypeOK, PhasesAgree, Draining, FailureLatched, Write, WroteBadly
  <2> QED BY <2>1, <2>2, <2>3, <2>4, <2>5 DEF LogInv
<1>17. ASSUME DrainOne PROVE LogInv'
  <2>0. /\ cpc = "drain" /\ wpc = "none" /\ wpc' = wpc /\ queue = << >> /\ queue' = queue
        /\ accepted' = accepted /\ rest' = Tail(rest)
        /\ Head(rest) \in Blocks /\ Tail(rest) \in Seq(Blocks)
        /\ Len(rest) > 0 /\ Len(Tail(rest)) = Len(rest) - 1 /\ Head(rest) = rest[1]
        /\ \A i \in 1 .. Len(Tail(rest)) : Tail(rest)[i] = rest[i + 1]
    BY <1>17, HeadTailProperties, EmptySeq DEF DrainOne, LogInv, LogTypeOK, PhasesAgree, Draining
  <2>a. /\ file' \in FileState /\ writeFailed' \in BOOLEAN
        /\ writeFailed => UNCHANGED <<written, writeFailed>>
        /\ ~writeFailed => written' = Append(written, Head(rest)) \/ (written' = written /\ writeFailed')
    BY <1>17, <2>0, WriteOneOutcome DEF DrainOne, LogInv
  <2>b. /\ Append(written, Head(rest)) \in Seq(Blocks) /\ Len(Append(written, Head(rest))) = Len(written) + 1
        /\ \A i \in 1 .. Len(written) : Append(written, Head(rest))[i] = written[i]
        /\ Append(written, Head(rest))[Len(written) + 1] = Head(rest)
    BY <2>0, AppendProperties DEF LogInv, LogTypeOK
  <2>c. written' \in Seq(Blocks)
    BY <2>a, <2>b DEF LogInv, LogTypeOK
  <2>d. /\ Len(queue) \in Nat /\ Len(accepted) \in Nat /\ Len(written) \in Nat
        /\ Len(rest) \in Nat /\ writeFailed \in BOOLEAN
    BY LenProperties DEF LogInv, LogTypeOK
  <2>1. LogTypeOK'
    BY <2>0, <2>a, <2>c, <1>17, ZenonT(30) DEF LogInv, LogTypeOK, DrainOne
  <2>2. PhasesAgree'
    BY <2>0, <1>17 DEF LogInv, LogTypeOK, PhasesAgree, Draining, DrainOne
  <2>e. ~writeFailed => Len(written) < Len(accepted) /\ accepted[Len(written) + 1] = Head(rest)
    BY <2>0, <2>d DEF LogInv, Lined, InFlight
  <2>3. StoredIsPrefix'
    <3>1. CASE written' = written
      BY <2>0, <3>1 DEF LogInv, StoredIsPrefix
    <3>2. CASE ~writeFailed /\ written' = Append(written, Head(rest))
      BY <2>0, <2>b, <2>d, <2>e, <3>2 DEF LogInv, StoredIsPrefix
    <3> QED BY <2>a, <2>d, <3>1, <3>2
  <2>4. ~writeFailed' => Lined'
    <3> SUFFICES ASSUME ~writeFailed' PROVE Lined'
      OBVIOUS
    <3>0. /\ Lined /\ InFlight = 0 /\ InFlight' = 0 /\ Len(queue) = 0
          /\ Len(written') = Len(written) + 1
      BY <2>0, <2>a, <2>b, EmptySeq DEF LogInv, InFlight
    <3>1. Len(accepted') = Len(written') + InFlight' + Len(queue') + Len(rest')
      BY <2>0, <2>d, <3>0 DEF Lined
    <3>2. ASSUME NEW i \in 1 .. Len(rest') PROVE accepted'[Len(written') + i] = rest'[i]
      <4>1. i \in Nat /\ i + 1 \in 1 .. Len(rest) /\ rest'[i] = rest[i + 1]
        BY <2>0, <2>d, <3>2
      <4>2. accepted[Len(written) + (i + 1)] = rest[i + 1]
        BY <3>0, <4>1 DEF Lined
      <4>3. Len(written) + (i + 1) = Len(written') + i
        BY <2>d, <3>0, <4>1
      <4> QED BY <2>0, <4>1, <4>2, <4>3
    <3>3. ASSUME NEW i \in 1 .. Len(queue')
          PROVE  accepted'[Len(written') + InFlight' + i] = queue'[i]
      BY <2>0, <3>0, <3>3
    <3> QED BY <2>0, <3>1, <3>2, <3>3 DEF Lined
  <2>5. FailureLatched'
    BY <2>0, <2>a, <1>17 DEF LogInv, LogTypeOK, PhasesAgree, Draining, FailureLatched, DrainOne, WroteBadly
  <2> QED BY <2>1, <2>2, <2>3, <2>4, <2>5 DEF LogInv
<1>18. ASSUME UNCHANGED vars PROVE LogInv'
  BY <1>18 DEF vars, LogInv, LogTypeOK, PhasesAgree, StoredIsPrefix, Lined, InFlight, FailureLatched
<1> QED
  BY <1>1, <1>2, <1>3, <1>4, <1>5, <1>6, <1>7, <1>8, <1>9, <1>10, <1>11, <1>12, <1>13, <1>14,
     <1>15, <1>16, <1>17, <1>18 DEF Next, Caller, CloseSteps, Writer, Closed, Offer

----------------------------------------------------------------------------
(* The queue never leaves LogInv, ... *)
THEOREM LogInvCorrect == Spec => []LogInv
BY LogInvInit, LogInvStep, PTL DEF Spec

(* ... and in LogInv each of its steps is a step of RecordLog or none: whatever
   the sizes, the budget and the number of blocks, the queue keeps what
   ImplementsLog says (sbf_write_queue.cpp). *)
LEMMA LogInitially == Init => Log!Init
BY DEF Init, Log!Init

LEMMA LogSteps == LogInv /\ [Next]_vars => [Log!Next]_(Log!vars)
<1> SUFFICES ASSUME LogInv, [Next]_vars PROVE [Log!Next]_(Log!vars)
  OBVIOUS
<1> USE DEF lockVars, historyVars
<1> DEFINE still == UNCHANGED <<accepted, written, refused, writeFailed, stop, closed>>
<1>a. ASSUME still, ~closed PROVE UNCHANGED Log!vars
  BY <1>a DEF Log!vars
<1>1. ASSUME Start \/ Join \/ DrainFail \/ DrainNotify \/ DrainDone \/ Pop \/ Exit \/ Fail \/ Notify \/ Settle
      PROVE  still /\ ~closed
  BY <1>1 DEF Start, Join, DrainFail, DrainNotify, DrainDone, Pop, Exit, Fail, Notify, Settle,
              LogInv, PhasesAgree, Draining
<1>2. ASSUME NEW b, OfferBlock(b) PROVE (still /\ ~closed) \/ Log!Refuse
  BY <1>2 DEF OfferBlock, LogInv, PhasesAgree, Log!Refuse
<1>3. ASSUME Overflow PROVE Log!Refuse
  BY <1>3 DEF Overflow, LogInv, PhasesAgree, Log!Refuse
<1>4. ASSUME Enqueue PROVE (still /\ ~closed) \/ Log!Accept
  BY <1>4 DEF Enqueue, LogInv, PhasesAgree, Log!Accept
<1>5. ASSUME Close PROVE Log!Close
  BY <1>5 DEF Close, LogInv, PhasesAgree, Log!Close
<1>6. ASSUME Write \/ DrainOne PROVE (still /\ ~closed) \/ Log!Store \/ Log!Break
  <2> DEFINE b == IF wpc = "write" THEN inHand ELSE Head(rest)
  <2>1. /\ b \in Blocks /\ WriteOne(b) /\ ~closed /\ writeFailed \in BOOLEAN
        /\ UNCHANGED <<accepted, refused, stop, closed>>
    BY <1>6, HeadTailProperties DEF Write, DrainOne, LogInv, LogTypeOK, PhasesAgree, Draining
  <2>2. ~writeFailed => Len(written) < Len(accepted) /\ accepted[Len(written) + 1] = b
    <3> SUFFICES ASSUME ~writeFailed
                 PROVE  Len(written) < Len(accepted) /\ accepted[Len(written) + 1] = b
      OBVIOUS
    <3>1. Lined /\ Len(written) \in Nat /\ Len(queue) \in Nat /\ Len(rest) \in Nat
      BY LenProperties DEF LogInv, LogTypeOK
    <3>2. CASE Write
      BY <3>1, <3>2 DEF Write, Lined, InFlight
    <3>3. CASE DrainOne
      <4>1. wpc = "none" /\ Len(rest) > 0 /\ Head(rest) = rest[1]
        BY <3>3, EmptySeq DEF DrainOne, LogInv, LogTypeOK, PhasesAgree, Draining
      <4> QED BY <3>1, <4>1 DEF Lined, InFlight
    <3> QED BY <1>6, <3>2, <3>3
  <2>3. /\ writeFailed' \in BOOLEAN
        /\ writeFailed => UNCHANGED <<written, writeFailed>>
        /\ ~writeFailed => written' = Append(written, b) \/ (written' = written /\ writeFailed')
    BY <2>1, WriteOneOutcome DEF LogInv
  <2>4. CASE writeFailed
    BY <2>1, <2>3, <2>4
  <2>5. CASE ~writeFailed /\ written' = Append(written, b)
    BY <2>1, <2>2, <2>3, <2>5 DEF Log!Store
  <2>6. CASE ~writeFailed /\ written' = written /\ writeFailed'
    BY <2>1, <2>2, <2>3, <2>6 DEF Log!Break
  <2> QED BY <2>1, <2>3, <2>4, <2>5, <2>6
<1>7. ASSUME CloseFile PROVE Log!Finish
  <2>1. /\ stop /\ ~closed /\ closed' /\ queue = << >> /\ rest = << >>
        /\ wpc \in {"none", "exited"} /\ cpc = "close"
        /\ UNCHANGED <<accepted, written, refused, writeFailed, stop>>
    BY <1>7 DEF CloseFile, LogInv, LogTypeOK, PhasesAgree, Draining
  <2>2. writeFailed \/ written = accepted
    <3> SUFFICES ASSUME ~writeFailed PROVE written = accepted
      OBVIOUS
    <3>1. Len(written) = Len(accepted) /\ \A i \in 1 .. Len(written) : written[i] = accepted[i]
      BY <2>1, LenProperties DEF LogInv, LogTypeOK, Lined, InFlight, StoredIsPrefix
    <3> QED BY <3>1, SeqEqual DEF LogInv, LogTypeOK
  <2>3. writeFailed \/ refused => failed'
    BY <1>7, <2>1 DEF CloseFile, LogInv, FailureLatched
  <2> QED BY <2>1, <2>2, <2>3 DEF Log!Finish
<1>8. ASSUME UNCHANGED vars PROVE UNCHANGED Log!vars
  BY <1>8 DEF vars, Log!vars
<1> QED
  BY <1>a, <1>1, <1>2, <1>3, <1>4, <1>5, <1>6, <1>7, <1>8
     DEF Next, Caller, CloseSteps, Writer, Closed, Offer, Log!Next

(* ImplementsLog for every instance: WriteBlock, the writer thread and Close of
   sbf_write_queue.cpp, in every interleaving and with every disk failure, only
   take steps of RecordLog. Blocks reach the files in the order in which they
   were accepted, none twice; a failure ends the storing for good; and Close
   reports clean only when nothing accepted is missing. *)
THEOREM LogCorrect == Spec => ImplementsLog
BY LogInvCorrect, LogInitially, LogSteps, PTL DEF Spec, ImplementsLog, Log!Spec

----------------------------------------------------------------------------
(* Bytes are counted as a set has them: of one block, ... *)
LEMMA BytesOfBlock ==
    ASSUME NEW n, NEW k \in Nat
    PROVE  IsFiniteSet({n} \X (1 .. k)) /\ Cardinality({n} \X (1 .. k)) = k
<1>1. IsFiniteSet({n}) /\ Cardinality({n}) = 1
  BY FS_Singleton
<1>2. IsFiniteSet(1 .. k) /\ Cardinality(1 .. k) = IF 1 > k THEN 0 ELSE k - 1 + 1
  BY FS_Interval
<1>3. Cardinality(1 .. k) = k
  BY <1>2
<1>4. IsFiniteSet({n} \X (1 .. k)) /\ Cardinality({n} \X (1 .. k)) = 1 * Cardinality(1 .. k)
  BY <1>1, <1>2, FS_Product
<1> QED BY <1>3, <1>4

(* ... of a sequence of blocks, ... *)
LEMMA BytesOf ==
    ASSUME NEW q \in Seq(Blocks)
    PROVE  \A p : p \in Bytes(q) <=> \E i \in 1 .. Len(q) : \E k \in 1 .. q[i].size : p = <<i, k>>
<1> TAKE p
<1>1. DOMAIN q = 1 .. Len(q)
  BY LenProperties
<1>2. \A i : p \in {i} \X (1 .. q[i].size) <=> \E k \in 1 .. q[i].size : p = <<i, k>>
  OBVIOUS
<1>3. p \in Bytes(q) <=> \E i \in DOMAIN q : p \in {i} \X (1 .. q[i].size)
  BY DEF Bytes
<1> QED BY <1>1, <1>2, <1>3, Zenon

LEMMA BytesFinite ==
    ASSUME NEW q \in Seq(Blocks)
    PROVE  IsFiniteSet(Bytes(q)) /\ TotalSize(q) \in Nat
<1> DEFINE parts == {{i} \X (1 .. q[i].size) : i \in DOMAIN q}
           part == [i \in DOMAIN q |-> {i} \X (1 .. q[i].size)]
<1>1. IsFiniteSet(DOMAIN q)
  BY LenProperties, FS_Interval
<1>2. part \in Surjection(DOMAIN q, parts)
  BY DEF Surjection
<1>3. IsFiniteSet(parts)
  BY <1>1, <1>2, FS_Surjection
<1>4. \A i \in DOMAIN q : IsFiniteSet({i} \X (1 .. q[i].size))
  <2> TAKE i \in DOMAIN q
  <2>1. q[i] \in Blocks
    BY ElementOfSeq, LenProperties
  <2>2. q[i].size \in Nat
    BY <2>1 DEF Blocks
  <2> QED BY <2>2, BytesOfBlock
<1>5. \A t \in parts : IsFiniteSet(t)
  BY <1>4
<1>6. Bytes(q) = UNION parts
  BY DEF Bytes
<1> HIDE DEF parts
<1>7. IsFiniteSet(UNION parts)
  BY <1>3, <1>5, FS_UNION
<1> QED BY <1>6, <1>7, FS_CardinalityType DEF TotalSize

LEMMA BytesOfNone == TotalSize(<< >>) = 0
<1>1. Bytes(<< >>) = {}
  BY DEF Bytes
<1> QED BY <1>1, FS_EmptySet DEF TotalSize

(* A block adds its size at the end ... *)
LEMMA BytesAdded ==
    ASSUME NEW q \in Seq(Blocks), NEW b \in Blocks
    PROVE  TotalSize(Append(q, b)) = TotalSize(q) + b.size
<1> DEFINE n == Len(q) + 1
           last == {n} \X (1 .. b.size)
<1>1. /\ Append(q, b) \in Seq(Blocks) /\ Len(Append(q, b)) = n /\ Len(q) \in Nat
      /\ \A i \in 1 .. Len(q) : Append(q, b)[i] = q[i]
      /\ Append(q, b)[n] = b
  BY AppendProperties, LenProperties
<1>2. b.size \in Nat
  BY DEF Blocks
<1>3. \A p : p \in last <=> \E k \in 1 .. b.size : p = <<n, k>>
  OBVIOUS
<1>4. ASSUME NEW p PROVE p \in Bytes(Append(q, b)) <=> p \in Bytes(q) \/ p \in last
  <2> DEFINE r == Append(q, b)
  <2>0. r \in Seq(Blocks) /\ Len(r) = n
    BY <1>1
  <2>1. p \in Bytes(r) <=> \E i \in 1 .. n : \E k \in 1 .. r[i].size : p = <<i, k>>
    <3> HIDE DEF r
    <3> QED BY <2>0, BytesOf
  <2>2. p \in Bytes(q) <=> \E i \in 1 .. Len(q) : \E k \in 1 .. q[i].size : p = <<i, k>>
    BY BytesOf
  <2>3. 1 .. n = (1 .. Len(q)) \cup {n}
    BY <1>1
  <2> QED BY <1>1, <1>3, <2>1, <2>2, <2>3
<1>5. Bytes(Append(q, b)) = Bytes(q) \cup last
  BY <1>4, Zenon
<1>6. Bytes(q) \cap last = {}
  <2> SUFFICES ASSUME NEW p \in Bytes(q), p \in last PROVE FALSE
    OBVIOUS
  <2>1. PICK i \in 1 .. Len(q) : \E k \in 1 .. q[i].size : p = <<i, k>>
    BY BytesOf
  <2>2. PICK k : p = <<i, k>>
    BY <2>1
  <2>3. PICK l : p = <<n, l>>
    BY <1>3
  <2> QED BY <1>1, <2>2, <2>3
<1>7. IsFiniteSet(last) /\ Cardinality(last) = b.size
  BY <1>2, BytesOfBlock
<1> HIDE DEF last
<1>8. Cardinality(Bytes(q) \cup last) = Cardinality(Bytes(q)) + Cardinality(last) - Cardinality({})
  BY <1>6, <1>7, BytesFinite, FS_Union
<1>9. Cardinality({}) = 0
  BY FS_EmptySet
<1> QED BY <1>2, <1>5, <1>7, <1>8, <1>9, BytesFinite DEF TotalSize

(* ... and the first takes its size away. *)
LEMMA BytesTaken ==
    ASSUME NEW q \in Seq(Blocks), q # << >>
    PROVE  TotalSize(Tail(q)) = TotalSize(q) - Head(q).size
<1> DEFINE first == {1} \X (1 .. Head(q).size)
           later == Bytes(q) \ first
           shift == [p \in Bytes(Tail(q)) |-> <<p[1] + 1, p[2]>>]
<1>1. /\ Head(q) \in Blocks /\ Head(q) = q[1] /\ Tail(q) \in Seq(Blocks)
      /\ Len(q) \in Nat /\ Len(q) >= 1 /\ Len(Tail(q)) = Len(q) - 1
      /\ \A i \in 1 .. Len(Tail(q)) : Tail(q)[i] = q[i + 1]
  BY HeadTailProperties, EmptySeq, LenProperties
<1>2. Head(q).size \in Nat
  BY <1>1 DEF Blocks
<1>3. \A p : p \in first <=> \E k \in 1 .. q[1].size : p = <<1, k>>
  BY <1>1
<1>4. first \subseteq Bytes(q)
  <2> SUFFICES ASSUME NEW p \in first PROVE p \in Bytes(q)
    OBVIOUS
  <2>1. 1 \in 1 .. Len(q)
    BY <1>1
  <2> QED BY <1>3, <2>1, BytesOf
<1>5. \A p : p \in later <=> \E i \in 2 .. Len(q) : \E k \in 1 .. q[i].size : p = <<i, k>>
  <2> SUFFICES ASSUME NEW p
               PROVE  p \in later <=> \E i \in 2 .. Len(q) : \E k \in 1 .. q[i].size : p = <<i, k>>
    OBVIOUS
  <2>1. p \in Bytes(q) <=> \E i \in 1 .. Len(q) : \E k \in 1 .. q[i].size : p = <<i, k>>
    BY BytesOf
  <2>2. 1 .. Len(q) = (2 .. Len(q)) \cup {1} /\ 1 \notin 2 .. Len(q)
    BY <1>1
  <2>3. p \in first => \A i \in 2 .. Len(q) : \A k : p # <<i, k>>
    BY <1>3, <2>2
  <2> HIDE DEF first
  <2> QED BY <1>3, <2>1, <2>2, <2>3, Zenon
<1>6. ASSUME NEW p \in Bytes(Tail(q))
      PROVE  \E i \in 1 .. Len(Tail(q)) : \E k \in 1 .. q[i + 1].size :
                p = <<i, k>> /\ shift[p] = <<i + 1, k>>
  <2>0. \A r \in Seq(Blocks) : p \in Bytes(r) =>
           \E i \in 1 .. Len(r) : \E k \in 1 .. r[i].size : p = <<i, k>>
    BY BytesOf
  <2>1. PICK i \in 1 .. Len(Tail(q)) : \E k \in 1 .. Tail(q)[i].size : p = <<i, k>>
    BY <1>1, <2>0
  <2>2. PICK k \in 1 .. Tail(q)[i].size : p = <<i, k>>
    BY <2>1
  <2>3. p[1] = i /\ p[2] = k
    BY <2>2
  <2> QED BY <1>1, <2>2, <2>3
<1> HIDE DEF first
<1>7. shift \in [Bytes(Tail(q)) -> later]
  <2> SUFFICES ASSUME NEW p \in Bytes(Tail(q)) PROVE shift[p] \in later
    OBVIOUS
  <2> HIDE DEF shift
  <2>1. PICK i \in 1 .. Len(Tail(q)) : \E k \in 1 .. q[i + 1].size : shift[p] = <<i + 1, k>>
    BY <1>6
  <2>2. i + 1 \in 2 .. Len(q)
    BY <1>1
  <2> QED BY <1>5, <2>1, <2>2
<1>8. \A a, b \in Bytes(Tail(q)) : shift[a] = shift[b] => a = b
  <2> SUFFICES ASSUME NEW a \in Bytes(Tail(q)), NEW b \in Bytes(Tail(q)), shift[a] = shift[b]
               PROVE  a = b
    OBVIOUS
  <2> HIDE DEF shift
  <2>1. PICK i \in 1 .. Len(Tail(q)) : \E k : a = <<i, k>> /\ shift[a] = <<i + 1, k>>
    BY <1>6
  <2>2. PICK j \in 1 .. Len(Tail(q)) : \E l : b = <<j, l>> /\ shift[b] = <<j + 1, l>>
    BY <1>6
  <2>3. PICK k : a = <<i, k>> /\ shift[a] = <<i + 1, k>>
    BY <2>1
  <2>4. PICK l : b = <<j, l>> /\ shift[b] = <<j + 1, l>>
    BY <2>2
  <2>5. <<i + 1, k>> = <<j + 1, l>>
    BY <2>3, <2>4, Zenon
  <2>6. i + 1 = j + 1 /\ k = l
    BY <2>5
  <2>7. i \in Int /\ j \in Int
    BY <1>1
  <2> QED BY <2>3, <2>4, <2>6, <2>7
<1>9. \A p \in later : \E a \in Bytes(Tail(q)) : shift[a] = p
  <2> SUFFICES ASSUME NEW p \in later PROVE \E a \in Bytes(Tail(q)) : shift[a] = p
    OBVIOUS
  <2>1. PICK i \in 2 .. Len(q) : \E k \in 1 .. q[i].size : p = <<i, k>>
    BY <1>5
  <2>6. PICK k \in 1 .. q[i].size : p = <<i, k>>
    BY <2>1
  <2>2. i - 1 \in 1 .. Len(Tail(q)) /\ i \in Int /\ (i - 1) + 1 = i
    BY <1>1
  <2>3. Tail(q)[i - 1] = q[i]
    BY <1>1, <2>2
  <2>4. <<i - 1, k>> \in Bytes(Tail(q))
    BY <1>1, <2>2, <2>3, BytesOf
  <2>5. shift[<<i - 1, k>>] = <<i, k>>
    BY <2>2, <2>4
  <2> QED BY <2>6, <2>4, <2>5
<1> HIDE DEF shift, later
<1>10. shift \in Bijection(Bytes(Tail(q)), later)
  BY <1>7, <1>8, <1>9, Fun_IsBij
<1>11. Cardinality(later) = TotalSize(Tail(q))
  BY <1>1, <1>10, BytesFinite, FS_Bijection DEF ExistsBijection, TotalSize
<1>12. Cardinality(first) = Head(q).size
  BY <1>2, BytesOfBlock DEF first
<1>13. Cardinality(later) = Cardinality(Bytes(q)) - Cardinality(first)
  <2>1. Bytes(q) \cap first = first
    BY <1>4
  <2> QED BY <2>1, BytesFinite, FS_Difference DEF later
<1> QED BY <1>11, <1>12, <1>13 DEF TotalSize

----------------------------------------------------------------------------
(* The cap on the files.  A file that is open has a size. *)
WithinCap(f) ==
    /\ f \in FileState
    /\ f.open => f.sizes # << >>
    /\ \A i \in 1 .. Len(f.sizes) : f.sizes[i] <= FileCap

Usable(f) == f.failed \/ f.open

LEMMA CloseKeepsCap ==
    ASSUME NEW f, WithinCap(f)
    PROVE  \A g \in CloseCurrent(f) : WithinCap(g)
<1>1. \A bad \in BOOLEAN : WithinCap([f EXCEPT !.open = FALSE, !.failed = @ \/ bad])
  BY DEF WithinCap, FileState
<1> QED BY <1>1 DEF CloseCurrent

LEMMA OpenKeepsCap ==
    ASSUME NEW f, WithinCap(f)
    PROVE  \A g \in OpenNext(f) :
              WithinCap(g) /\ Usable(g) /\ (~g.failed => g.sizes[Len(g.sizes)] = 0)
<1>1. ASSUME NEW h, WithinCap(h)
      PROVE  LET failing == [h EXCEPT !.failed = TRUE]
                 next == [h EXCEPT !.open = TRUE, !.sizes = Append(@, 0)]
             IN  /\ WithinCap(failing) /\ failing.failed
                 /\ WithinCap(next) /\ next.open /\ next.sizes[Len(next.sizes)] = 0
  <2> DEFINE failing == [h EXCEPT !.failed = TRUE]
             next == [h EXCEPT !.open = TRUE, !.sizes = Append(@, 0)]
  <2>1. h.sizes \in Seq(Nat) /\ h \in FileState
    BY <1>1 DEF WithinCap, FileState
  <2>2. /\ Append(h.sizes, 0) \in Seq(Nat) /\ Len(Append(h.sizes, 0)) = Len(h.sizes) + 1
        /\ \A i \in 1 .. Len(h.sizes) : Append(h.sizes, 0)[i] = h.sizes[i]
        /\ Append(h.sizes, 0)[Len(h.sizes) + 1] = 0
        /\ Append(h.sizes, 0) # << >> /\ Len(h.sizes) \in Nat
    BY <2>1, AppendProperties, LenProperties
  <2>3. WithinCap(failing) /\ failing.failed
    BY <1>1 DEF WithinCap, FileState
  <2>4. next \in FileState /\ next.open /\ next.sizes = Append(h.sizes, 0)
    BY <2>1, <2>2 DEF FileState
  <2>5. \A i \in 1 .. Len(next.sizes) : next.sizes[i] <= FileCap
    BY <1>1, <2>2, <2>4 DEF WithinCap
  <2> QED BY <2>2, <2>3, <2>4, <2>5 DEF WithinCap
<1>2. ASSUME NEW g \in OpenNext(f)
      PROVE  WithinCap(g) /\ Usable(g) /\ (~g.failed => g.sizes[Len(g.sizes)] = 0)
  <2>1. PICK h \in CloseCurrent(f) :
           g \in IF h.failed THEN {h}
                 ELSE {[h EXCEPT !.failed = TRUE], [h EXCEPT !.open = TRUE, !.sizes = Append(@, 0)]}
    BY <1>2 DEF OpenNext
  <2>2. WithinCap(h)
    BY CloseKeepsCap
  <2> QED BY <1>1, <2>1, <2>2 DEF Usable
<1> QED BY <1>2

(* A block that fits is added to the open file. *)
LEMMA PutKeepsCap ==
    ASSUME NEW f, WithinCap(f), f.open, NEW size \in Nat, f.sizes[Len(f.sizes)] + size <= FileCap
    PROVE  \A g \in Put(f, size) : WithinCap(g) /\ Usable(g)
<1> DEFINE failing == [f EXCEPT !.failed = TRUE]
           put == [f EXCEPT !.wrote = TRUE, !.sizes[Len(f.sizes)] = @ + size]
           sizes == [f.sizes EXCEPT ![Len(f.sizes)] = @ + size]
<1>1. WithinCap(failing) /\ failing.failed
  BY DEF WithinCap, FileState
<1>2. f.sizes \in Seq(Nat) /\ f \in FileState /\ Len(f.sizes) \in 1 .. Len(f.sizes)
  <2>1. f.sizes \in Seq(Nat) /\ f.sizes # << >> /\ f \in FileState
    BY DEF WithinCap, FileState
  <2> QED BY <2>1, EmptySeq, LenProperties
<1>3. f.sizes[Len(f.sizes)] + size \in Nat
  BY <1>2, ElementOfSeq
<1>4. sizes \in Seq(Nat) /\ Len(sizes) = Len(f.sizes)
  BY <1>2, <1>3, ExceptSeq
<1>5. \A i \in 1 .. Len(sizes) : sizes[i] <= FileCap
  <2> TAKE i \in 1 .. Len(sizes)
  <2>1. i \in DOMAIN f.sizes /\ f.sizes[i] <= FileCap
    BY <1>2, <1>4, LenProperties DEF WithinCap
  <2>2. CASE i = Len(f.sizes)
    BY <2>1, <2>2
  <2>3. CASE i # Len(f.sizes)
    BY <2>1, <2>3
  <2> QED BY <2>2, <2>3
<1>6. put \in FileState /\ put.open /\ put.sizes = sizes
  BY <1>2, <1>4 DEF FileState
<1>7. sizes # << >>
  BY <1>2, <1>4, EmptySeq
<1>8. WithinCap(put)
  BY <1>5, <1>6, <1>7 DEF WithinCap
<1>9. ASSUME NEW g \in Put(f, size) PROVE g = failing \/ g = put \/ g \in OpenNext(put)
  BY <1>9 DEF Put, RotateIfNeeded
<1> HIDE DEF failing, put
<1> QED BY <1>1, <1>6, <1>8, <1>9, OpenKeepsCap DEF Usable

LEMMA AppendKeepsCap ==
    ASSUME NEW f, WithinCap(f), NEW size \in Nat
    PROVE  \A g \in AppendBlock(f, size) : WithinCap(g)
<1> DEFINE fresh == [f EXCEPT !.wrote = FALSE]
<1>1. WithinCap(fresh) /\ fresh.open = f.open
  BY DEF WithinCap, FileState
<1>2. ASSUME NEW h, WithinCap(h), Usable(h), ~h.failed, NEW g \in PutWithinCap(h, size)
      PROVE  WithinCap(g)
  <2>1. CASE size > FileCap
    <3>1. WithinCap([h EXCEPT !.failed = TRUE])
      BY <1>2 DEF WithinCap, FileState
    <3> QED BY <1>2, <2>1, <3>1 DEF PutWithinCap
  <2>2. CASE ~(size > FileCap)
    <3> DEFINE from == IF CurrentBytes(h) > FileCap - size THEN OpenNext(h) ELSE {h}
    <3>1. PICK k \in from : g \in IF k.failed THEN {k} ELSE Put(k, size)
      BY <1>2, <2>2 DEF PutWithinCap
    <3>2. WithinCap(k) /\ Usable(k)
      BY <1>2, OpenKeepsCap
    <3>3. k.failed \/ k.sizes[Len(k.sizes)] + size <= FileCap
      <4>1. CASE CurrentBytes(h) > FileCap - size
        <5>1. k.failed \/ k.sizes[Len(k.sizes)] = 0
          BY <1>2, <4>1, OpenKeepsCap
        <5> QED BY <2>2, <5>1
      <4>2. CASE ~(CurrentBytes(h) > FileCap - size)
        <5>1. h.sizes \in Seq(Nat) /\ h.sizes # << >>
          BY <1>2 DEF WithinCap, FileState, Usable
        <5>2. h.sizes[Len(h.sizes)] \in Nat
          BY <5>1, EmptySeq, ElementOfSeq, LenProperties
        <5> QED BY <1>2, <4>2, <5>2 DEF CurrentBytes
      <4> QED BY <4>1, <4>2
    <3> QED BY <3>1, <3>2, <3>3, PutKeepsCap DEF Usable
  <2> QED BY <2>1, <2>2
<1>3. ASSUME NEW g \in AppendBlock(f, size) PROVE WithinCap(g)
  <2>1. CASE f.failed
    BY <1>1, <1>3, <2>1 DEF AppendBlock
  <2>2. CASE ~f.failed
    <3> DEFINE from == IF f.open THEN {fresh} ELSE OpenNext(fresh)
    <3>1. PICK h \in from : g \in IF h.failed THEN {h} ELSE PutWithinCap(h, size)
      BY <1>3, <2>2 DEF AppendBlock
    <3>2. WithinCap(h) /\ Usable(h)
      BY <1>1, OpenKeepsCap DEF Usable
    <3> QED BY <1>2, <3>1, <3>2
  <2> QED BY <2>1, <2>2
<1> QED BY <1>3

----------------------------------------------------------------------------
(* What QueueInv needs beside LogInv.  The byte count follows the blocks that
   are queued or in the writer's hands; ... *)
Pending ==
    /\ pending \in Nat /\ pending <= Budget
    /\ pending = TotalSize(queue) + inHand.size
    /\ wpc \notin {"write", "fail", "notify", "settle"} => inHand = NoBlock

(* ... an accepted block has been offered, and the one in Enqueue's hands is not
   accepted yet; ... *)
Offers == Len(accepted) + (IF cpc \in {"lock", "overflow"} THEN 1 ELSE 0) <= offered

(* ... a block that is not counted has made its write fail; ... *)
Counts ==
    /\ records \in Nat /\ records <= Len(written)
    /\ ~writeFailed => records = Len(written)
    /\ WithinCap(file)

(* ... and the callback runs for the failure that is latched first. *)
Callback ==
    /\ calls \in {0, 1}
    /\ calls = 1 => failed
    /\ wpc = "notify" \/ cpc = "drainNotify" => failed /\ calls = 0
    /\ failed /\ wpc # "notify" /\ cpc # "drainNotify" => calls = 1 \/ refused \/ closed

Books == Pending /\ Offers /\ Counts /\ Callback

LEMMA BooksInit == Init => Books
<1> SUFFICES ASSUME Init PROVE Books
  OBVIOUS
<1>1. Pending
  <2>1. pending = 0 /\ queue = << >> /\ inHand = NoBlock /\ NoBlock.size = 0
    BY DEF Init, NoBlock
  <2> QED BY <2>1, BytesOfNone DEF Pending
<1>2. Offers /\ Callback
  BY DEF Init, Offers, Callback
<1>3. Counts
  BY DEF Init, Counts, WithinCap, NoFile, FileState
<1> QED BY <1>1, <1>2, <1>3 DEF Books

LEMMA PendingStep == LogInv /\ Pending /\ [Next]_vars => Pending'
<1> SUFFICES ASSUME LogInv, Pending, [Next]_vars PROVE Pending'
  OBVIOUS
<1> USE DEF lockVars, historyVars
<1>a. /\ queue \in Seq(Blocks) /\ inHand \in Blocks \cup {NoBlock} /\ TotalSize(queue) \in Nat
      /\ inHand.size \in Nat
  <2>1. queue \in Seq(Blocks) /\ inHand \in Blocks \cup {NoBlock}
    BY DEF LogInv, LogTypeOK
  <2>2. TotalSize(queue) \in Nat
    BY <2>1, BytesFinite
  <2>3. inHand.size \in Nat
    <3>1. CASE inHand \in Blocks
      BY <3>1, SizesAssumption DEF Blocks
    <3>2. CASE inHand = NoBlock
      BY <3>2 DEF NoBlock
    <3> QED BY <2>1, <3>1, <3>2
  <2> QED BY <2>1, <2>2, <2>3
<1>1. ASSUME Start \/ (\E size \in Sizes : OfferBlock([id |-> offered + 1, size |-> size]))
             \/ Overflow \/ Join \/ DrainOne \/ DrainFail \/ DrainNotify \/ DrainDone \/ CloseFile
             \/ Exit \/ Write \/ Fail \/ Notify \/ UNCHANGED vars
      PROVE  Pending'
  <2>1. UNCHANGED <<queue, pending, inHand>>
    BY <1>1 DEF Start, OfferBlock, Overflow, Join, DrainOne, DrainFail, DrainNotify, DrainDone,
                CloseFile, Exit, Write, Fail, Notify, vars
  <2>2. \/ wpc' = wpc \/ (wpc = "none" /\ wpc' = "wait") \/ (wpc = "wait" /\ wpc' = "exited")
        \/ wpc' \in {"write", "fail", "notify", "settle"}
    BY <1>1 DEF Start, OfferBlock, Overflow, Join, DrainOne, DrainFail, DrainNotify, DrainDone,
                CloseFile, Exit, Write, Fail, Notify, vars
  <2> QED BY <2>1, <2>2 DEF Pending
<1>2. ASSUME Enqueue PROVE Pending'
  <2>1. offer \in Blocks /\ offer.size \in Nat
    BY <1>2 DEF Enqueue, LogInv, PhasesAgree, Blocks
  <2>2. CASE UNCHANGED <<queue, pending>>
    BY <1>2, <2>2 DEF Enqueue, Pending
  <2>3. CASE /\ pending + offer.size <= Budget /\ pending' = pending + offer.size
             /\ queue' = Append(queue, offer)
    <3>1. TotalSize(queue') = TotalSize(queue) + offer.size
      BY <1>a, <2>1, <2>3, BytesAdded
    <3>2. UNCHANGED <<inHand, wpc>>
      BY <1>2 DEF Enqueue
    <3>3. pending' \in Nat /\ pending' <= Budget
      BY <2>1, <2>3 DEF Pending
    <3>4. pending' = TotalSize(queue') + inHand'.size
      <4> DEFINE t == TotalSize(queue)
                 u == TotalSize(queue')
                 h == inHand.size
      <4>1. pending = t + h /\ pending' = pending + offer.size /\ u = t + offer.size
        BY <2>3, <3>1 DEF Pending
      <4>2. t \in Nat /\ h \in Nat
        BY <1>a
      <4> HIDE DEF t, u, h
      <4>3. pending' = u + h
        BY <2>1, <4>1, <4>2
      <4> QED BY <3>2, <4>3 DEF u, h
    <3> QED BY <3>2, <3>3, <3>4 DEF Pending
  <2> QED BY <1>2, <2>2, <2>3 DEF Enqueue
<1>3. ASSUME Close PROVE Pending'
  <2>1. CASE wpc # "none"
    BY <1>3, <2>1 DEF Close, Pending
  <2>2. CASE wpc = "none"
    <3>1. /\ inHand = NoBlock /\ NoBlock.size = 0 /\ pending' = 0 /\ queue' = << >>
          /\ UNCHANGED <<inHand, wpc>>
      BY <1>3, <2>2 DEF Close, Pending, NoBlock
    <3> QED BY <3>1, BytesOfNone DEF Pending
  <2> QED BY <2>1, <2>2
<1>4. ASSUME Pop PROVE Pending'
  <2>1. /\ inHand = NoBlock /\ NoBlock.size = 0 /\ queue # << >> /\ Head(queue) \in Blocks
        /\ inHand' = Head(queue) /\ queue' = Tail(queue) /\ pending' = pending /\ wpc' = "write"
    BY <1>4, <1>a, HeadTailProperties DEF Pop, Pending, NoBlock
  <2>2. Head(queue).size \in Nat
    BY <2>1 DEF Blocks
  <2>3. TotalSize(queue') = TotalSize(queue) - Head(queue).size
    BY <1>a, <2>1, BytesTaken
  <2>4. pending' = TotalSize(queue') + inHand'.size
    BY <1>a, <2>1, <2>2, <2>3 DEF Pending
  <2> QED BY <2>1, <2>4 DEF Pending
<1>5. ASSUME Settle PROVE Pending'
  <2>1. /\ queue' = queue /\ pending' = pending - inHand.size /\ inHand' = NoBlock
        /\ NoBlock.size = 0
    BY <1>5 DEF Settle, NoBlock
  <2> QED BY <1>a, <2>1 DEF Pending
<1> QED BY <1>1, <1>2, <1>3, <1>4, <1>5 DEF Next, Caller, CloseSteps, Writer, Closed, Offer

LEMMA OffersStep == LogInv /\ Offers /\ [Next]_vars => Offers'
<1> SUFFICES ASSUME LogInv, Offers, [Next]_vars PROVE Offers'
  OBVIOUS
<1> USE DEF lockVars, historyVars
<1>a. offered \in Nat /\ Len(accepted) \in Nat
  BY LenProperties DEF LogInv, LogTypeOK
<1>1. ASSUME NEW size \in Sizes, OfferBlock([id |-> offered + 1, size |-> size]) PROVE Offers'
  BY <1>1, <1>a DEF OfferBlock, Offers
<1>2. ASSUME Enqueue PROVE Offers'
  <2>1. offer \in Blocks
    BY <1>2 DEF Enqueue, LogInv, PhasesAgree
  <2>2. Len(Append(accepted, offer)) = Len(accepted) + 1
    BY <2>1, AppendProperties DEF LogInv, LogTypeOK
  <2> QED BY <1>2, <1>a, <2>2 DEF Enqueue, Offers
<1>3. ASSUME UNCHANGED <<offered, accepted>>, cpc' \in {"lock", "overflow"} => cpc' = cpc
      PROVE  Offers'
  BY <1>3, <1>a DEF Offers
<1>4. ASSUME Start \/ Overflow \/ Close \/ Join \/ DrainOne \/ DrainFail \/ DrainNotify \/ DrainDone
             \/ CloseFile \/ Pop \/ Exit \/ Write \/ Fail \/ Notify \/ Settle \/ UNCHANGED vars
      PROVE  UNCHANGED <<offered, accepted>> /\ (cpc' \in {"lock", "overflow"} => cpc' = cpc)
  BY <1>4 DEF Start, Overflow, Close, Join, DrainOne, DrainFail, DrainNotify, DrainDone,
              CloseFile, Pop, Exit, Write, Fail, Notify, Settle, vars
<1> QED BY <1>1, <1>2, <1>3, <1>4 DEF Next, Caller, CloseSteps, Writer, Closed, Offer

LEMMA CountsStep == LogInv /\ Counts /\ [Next]_vars => Counts'
<1> SUFFICES ASSUME LogInv, Counts, [Next]_vars PROVE Counts'
  OBVIOUS
<1> USE DEF lockVars, historyVars
<1>a. Len(written) \in Nat /\ writeFailed \in BOOLEAN
  BY LenProperties DEF LogInv, LogTypeOK
<1>1. ASSUME NEW b \in Blocks, WriteOne(b) PROVE Counts'
  <2>1. CASE writeFailed
    BY <1>1, <2>1 DEF WriteOne, Counts
  <2>2. CASE ~writeFailed
    <3>1. b.size \in Nat
      BY <1>1 DEF Blocks
    <3>2. WithinCap(file')
      BY <1>1, <2>2, <3>1, AppendKeepsCap DEF WriteOne, Counts
    <3>3. /\ written' = written \/ written' = Append(written, b)
          /\ writeFailed' = file'.failed
          /\ records' = IF file'.failed THEN records ELSE Len(written')
      BY <1>1, <2>2 DEF WriteOne
    <3>4. Len(Append(written, b)) = Len(written) + 1
      BY AppendProperties DEF LogInv, LogTypeOK
    <3>5. Len(written') \in Nat /\ Len(written') >= Len(written)
      BY <1>a, <3>3, <3>4
    <3>6. records = Len(written)
      BY <2>2 DEF Counts
    <3> QED BY <1>a, <3>2, <3>3, <3>5, <3>6 DEF Counts
  <2> QED BY <2>1, <2>2
<1>2. ASSUME Write \/ DrainOne PROVE Counts'
  <2>1. \E b \in Blocks : WriteOne(b)
    BY <1>2, HeadTailProperties DEF Write, DrainOne, LogInv, LogTypeOK, PhasesAgree
  <2> QED BY <1>1, <2>1
<1>3. ASSUME CloseFile PROVE Counts'
  BY <1>3, CloseKeepsCap DEF CloseFile, Counts
<1>4. ASSUME UNCHANGED <<records, written, writeFailed, file>> PROVE Counts'
  BY <1>4 DEF Counts
<1>5. ASSUME Start \/ (\E size \in Sizes : OfferBlock([id |-> offered + 1, size |-> size]))
             \/ Enqueue \/ Overflow \/ Close \/ Join \/ DrainFail \/ DrainNotify \/ DrainDone
             \/ Pop \/ Exit \/ Fail \/ Notify \/ Settle \/ UNCHANGED vars
      PROVE  UNCHANGED <<records, written, writeFailed, file>>
  BY <1>5 DEF Start, OfferBlock, Enqueue, Overflow, Close, Join, DrainFail, DrainNotify, DrainDone,
              Pop, Exit, Fail, Notify, Settle, vars
<1> QED BY <1>2, <1>3, <1>4, <1>5 DEF Next, Caller, CloseSteps, Writer, Closed, Offer

LEMMA CallbackStep == LogInv /\ Callback /\ [Next]_vars => Callback'
<1> SUFFICES ASSUME LogInv, Callback, [Next]_vars PROVE Callback'
  OBVIOUS
<1> USE DEF lockVars, historyVars
<1>a. failed \in BOOLEAN /\ closed \in BOOLEAN /\ refused \in BOOLEAN
  BY DEF LogInv, LogTypeOK
<1>b. ~(wpc = "notify" /\ cpc = "drainNotify")
  BY DEF LogInv, PhasesAgree, Draining
<1>1. ASSUME UNCHANGED <<failed, calls, closed>>, refused => refused', wpc' = "notify" <=> wpc = "notify",
             cpc' = "drainNotify" <=> cpc = "drainNotify"
      PROVE  Callback'
  BY <1>1, <1>a DEF Callback
<1>2. ASSUME Start \/ (\E size \in Sizes : OfferBlock([id |-> offered + 1, size |-> size]))
             \/ Enqueue \/ Close \/ Join \/ DrainOne \/ DrainDone
             \/ Pop \/ Exit \/ Write \/ Settle \/ UNCHANGED vars
      PROVE  /\ UNCHANGED <<failed, calls, closed>> /\ (refused => refused')
             /\ wpc' = "notify" <=> wpc = "notify"
             /\ cpc' = "drainNotify" <=> cpc = "drainNotify"
  BY <1>2 DEF Start, OfferBlock, Enqueue, Close, Join, DrainOne, DrainDone, Pop, Exit, Write,
              Settle, vars
<1>3. ASSUME Overflow PROVE Callback'
  BY <1>3, <1>a DEF Overflow, Callback
<1>4. ASSUME CloseFile PROVE Callback'
  <2>1. wpc' # "notify" /\ cpc' # "drainNotify" /\ closed' /\ (failed => failed') /\ calls' = calls
    BY <1>3, <1>4 DEF CloseFile, LogInv, PhasesAgree
  <2> QED BY <2>1 DEF Callback
<1>5. ASSUME DrainFail \/ Fail PROVE Callback'
  <2>1. wpc # "notify" /\ cpc # "drainNotify" /\ failed' /\ UNCHANGED <<calls, refused, closed>>
    BY <1>5 DEF DrainFail, Fail, FailFirst, LogInv, PhasesAgree, Draining
  <2>2. CASE failed
    <3>1. wpc' # "notify" /\ cpc' # "drainNotify"
      BY <1>5, <2>1, <2>2 DEF DrainFail, Fail, FailFirst
    <3> QED BY <2>1, <2>2, <3>1 DEF Callback
  <2>3. CASE ~failed
    <3>1. wpc' = "notify" \/ cpc' = "drainNotify"
      BY <1>5, <2>3 DEF DrainFail, Fail, FailFirst
    <3> QED BY <2>1, <2>3, <3>1 DEF Callback
  <2> QED BY <1>a, <2>2, <2>3
<1>6. ASSUME DrainNotify \/ Notify PROVE Callback'
  <2>1. /\ failed /\ calls = 0 /\ calls' = 1 /\ failed' = failed
        /\ wpc' # "notify" /\ cpc' # "drainNotify"
    BY <1>6, <1>b DEF DrainNotify, Notify, Callback
  <2> QED BY <2>1 DEF Callback
<1> QED BY <1>1, <1>2, <1>3, <1>4, <1>5, <1>6 DEF Next, Caller, CloseSteps, Writer, Closed, Offer

LEMMA BooksStep == LogInv /\ Books /\ [Next]_vars => Books'
BY PendingStep, OffersStep, CountsStep, CallbackStep DEF Books

(* Together they are QueueInv. *)
LEMMA QueueInvHolds == LogInv /\ Books => QueueInv
<1> SUFFICES ASSUME LogInv, Books PROVE QueueInv
  OBVIOUS
<1>1. /\ Len(written) \in Nat /\ Len(accepted) \in Nat /\ Len(written) <= Len(accepted)
      /\ Len(accepted) <= offered /\ offered \in 0 .. MaxBlocks
      /\ accepted \in Seq(Blocks) /\ written \in Seq(Blocks)
  BY LenProperties DEF LogInv, LogTypeOK, StoredIsPrefix, Books, Offers
<1>2. TypeOK
  <2>1. pending \in 0 .. Budget /\ records \in 0 .. MaxBlocks /\ calls \in 0 .. 1
    BY <1>1 DEF Books, Pending, Counts, Callback
  <2>2. /\ file.open \in BOOLEAN /\ file.failed \in BOOLEAN /\ file.wrote \in BOOLEAN
        /\ file.sizes \in Seq(Nat)
    BY DEF LogInv, LogTypeOK, FileState
  <2>3. {stop, closed, failed, writeFailed, refused} \subseteq BOOLEAN
    BY Zenon DEF LogInv, LogTypeOK
  <2>4. {inHand, offer} \subseteq Blocks \cup {NoBlock}
    BY Zenon DEF LogInv, LogTypeOK
  <2> QED BY <2>1, <2>2, <2>3, <2>4 DEF TypeOK, LogInv, LogTypeOK
<1>3. PendingIsExact
  BY DEF PendingIsExact, Books, Pending
<1>4. WrittenInOrder
  <2>1. IsPrefix(written, accepted)
    <3>1. SubSeq(written, 1, Len(written)) = SubSeq(accepted, 1, Len(written))
      BY <1>1, SubSeqProperties DEF LogInv, StoredIsPrefix
    <3> QED BY <1>1, <3>1 DEF IsPrefix
  <2>2. closed /\ ~failed => records = Len(accepted)
    <3> SUFFICES ASSUME closed, ~failed PROVE records = Len(accepted)
      OBVIOUS
    <3>1. cpc = "closed" /\ wpc \in {"none", "exited"} /\ queue = << >> /\ rest = << >> /\ ~writeFailed
      BY DEF LogInv, PhasesAgree, Draining, FailureLatched
    <3>2. Len(accepted) = Len(written)
      BY <1>1, <3>1, EmptySeq DEF LogInv, Lined, InFlight
    <3> QED BY <3>1, <3>2 DEF Books, Counts
  <2> QED BY <2>1, <2>2 DEF WrittenInOrder, Books, Counts
<1>5. FilesWithinCap
  <2>1. DOMAIN file.sizes = 1 .. Len(file.sizes)
    BY LenProperties DEF LogInv, LogTypeOK, FileState
  <2> QED BY <2>1 DEF FilesWithinCap, Books, Counts, WithinCap
<1>6. FailureReachesCaller
  BY DEF FailureReachesCaller, Books, Callback, LogInv, FailureLatched
<1> QED BY <1>2, <1>3, <1>4, <1>5, <1>6 DEF QueueInv

(* Between any two critical sections the byte count is exact, the records are in
   order and counted, every file keeps to its cap, and a failure reaches the
   caller, for blocks of any sizes and any budget (Enqueue, WriterLoop, Close). *)
THEOREM QueueCorrect == Spec => []QueueInv
<1>1. Spec => []LogInv
  BY LogInvCorrect
<1>2. Spec => []Books
  <2>1. Init => Books
    BY BooksInit
  <2>2. LogInv /\ Books /\ [Next]_vars => Books'
    BY BooksStep
  <2> QED BY <1>1, <2>1, <2>2, PTL DEF Spec
<1>3. LogInv /\ Books => QueueInv
  BY QueueInvHolds
<1> QED BY <1>1, <1>2, <1>3, PTL

----------------------------------------------------------------------------
(* Every nonempty set of naturals has a least element. *)
LEMMA Least ==
    ASSUME NEW T, T \subseteq Nat, T # {}
    PROVE  \E x \in T : \A y \in T : x <= y
<1> DEFINE U == {1 .. n : n \in T}
<1>1. U \subseteq FiniteSubsetsOf(Nat)
  <2>1. ASSUME NEW n \in Nat PROVE IsFiniteSet(1 .. n) /\ 1 .. n \in SUBSET Nat
    BY FS_Interval
  <2> QED BY <2>1 DEF FiniteSubsetsOf
<1>2. U # {}
  OBVIOUS
<1> HIDE DEF U
<1>3. \E x \in U : \A y \in U : ~ (<<y, x>> \in StrictSubsetOrdering(Nat))
  BY FS_StrictSubsetOrderingWellFounded, WFMin, <1>1, <1>2, Zenon
<1>4. PICK n \in T : \A m \in T : ~ (<<1 .. m, 1 .. n>> \in StrictSubsetOrdering(Nat))
  BY <1>3 DEF U
<1>5. ASSUME NEW m \in T, m < n PROVE <<1 .. m, 1 .. n>> \in StrictSubsetOrdering(Nat)
  <2>1. /\ 1 .. m \subseteq 1 .. n /\ n \in 1 .. n /\ n \notin 1 .. m
        /\ 1 .. m \in SUBSET Nat /\ 1 .. n \in SUBSET Nat
    BY <1>5
  <2> QED BY <2>1, Zenon DEF StrictSubsetOrdering
<1>6. \A m \in T : ~ (m < n)
  BY <1>4, <1>5, Zenon
<1>7. n \in Nat /\ \A m \in T : m \in Nat
  OBVIOUS
<1> HIDE DEF U
<1>8. \A m \in T : n <= m
  BY <1>6, <1>7
<1> QED BY <1>8

(* Induction, with a set for the property. *)
LEMMA Induct ==
    ASSUME NEW S, 0 \in S, \A n \in Nat : n \in S => n + 1 \in S
    PROVE  Nat \subseteq S
<1> DEFINE T == {n \in Nat : n \notin S}
<1>1. SUFFICES ASSUME T # {} PROVE FALSE
  OBVIOUS
<1>2. PICK x \in T : \A y \in T : x <= y
  BY <1>1, Least
<1>3. x # 0 /\ x - 1 \in Nat /\ x - 1 \notin T
  BY <1>2
<1> QED BY <1>2, <1>3

(* A run of n steps, and that there is one whatever the steps are. *)
Runs(n, S, s, step) ==
    {f \in [0 .. n -> S] : f[0] = s /\ \A k \in 1 .. n : f[k] = step[k][f[k - 1]]}

LEMMA Iterates ==
    ASSUME NEW n \in Nat, NEW S, NEW s \in S, NEW step \in [1 .. n -> [S -> S]]
    PROVE  \E f : f \in Runs(n, S, s, step)
<1> DEFINE Run(m, f) == f[0] = s /\ \A k \in 1 .. m : f[k] = step[k][f[k - 1]]
           Long == {m \in Nat : m <= n => \E f \in [0 .. m -> S] : Run(m, f)}
<1>1. 0 \in Long
  <2> DEFINE f == [k \in 0 .. 0 |-> s]
  <2>1. f \in [0 .. 0 -> S] /\ Run(0, f)
    OBVIOUS
  <2> HIDE DEF f
  <2> QED BY <2>1
<1>2. ASSUME NEW m \in Nat, m \in Long PROVE m + 1 \in Long
  <2> SUFFICES ASSUME m + 1 <= n PROVE \E f \in [0 .. (m + 1) -> S] : Run(m + 1, f)
    OBVIOUS
  <2>1. PICK f \in [0 .. m -> S] : Run(m, f)
    BY <1>2
  <2> DEFINE v == step[m + 1][f[m]]
             g == [k \in 0 .. (m + 1) |-> IF k = m + 1 THEN v ELSE f[k]]
  <2>2. v \in S
    <3>1. m + 1 \in 1 .. n /\ f[m] \in S
      OBVIOUS
    <3> QED BY <3>1
  <2>3. \A k \in 0 .. m : g[k] = f[k]
    OBVIOUS
  <2>4. g[m + 1] = v /\ g \in [0 .. (m + 1) -> S]
    BY <2>2
  <2> HIDE DEF g
  <2>5. ASSUME NEW k \in 1 .. (m + 1) PROVE g[k] = step[k][g[k - 1]]
    <3>1. CASE k = m + 1
      BY <2>3, <2>4, <3>1
    <3>2. CASE k # m + 1
      <4>1. k \in 1 .. m /\ k \in 0 .. m /\ k - 1 \in 0 .. m
        BY <3>2
      <4> QED BY <2>1, <2>3, <4>1
    <3> QED BY <3>1, <3>2
  <2>6. g[0] = s
    BY <2>1, <2>3
  <2> QED BY <2>4, <2>5, <2>6
<1> HIDE DEF Long
<1>3. n \in Long
  BY <1>1, <1>2, Induct
<1> QED BY <1>3 DEF Long, Runs

----------------------------------------------------------------------------
(* A reader that has not failed is within what it reads. *)
Reader == {r \in [pos : Nat, size : Nat, ok : BOOLEAN] : r.ok => r.pos <= r.size}

(* t is r after total more bytes, if there are as many. *)
Passed(r, t, total) ==
    /\ t \in Reader /\ t.size = r.size
    /\ t.ok <=> r.ok /\ r.pos + total <= r.size
    /\ t.ok => t.pos = r.pos + total

LEMMA TakePasses == ASSUME NEW r \in Reader, NEW k \in Nat PROVE Passed(r, Take(r, k), k)
<1>1. /\ r = [pos |-> r.pos, size |-> r.size, ok |-> r.ok] /\ r.pos \in Nat /\ r.size \in Nat
      /\ r.ok \in BOOLEAN /\ (r.ok => r.pos <= r.size)
  BY DEF Reader
<1>a. r \in [pos : Nat, size : Nat, ok : BOOLEAN]
  BY DEF Reader
<1>2. CASE r.ok /\ r.size - r.pos >= k
  <2> DEFINE t == [r EXCEPT !.pos = @ + k]
  <2>1. t.pos = r.pos + k /\ t.size = r.size /\ t.ok = r.ok
    BY <1>a
  <2>2. t \in [pos : Nat, size : Nat, ok : BOOLEAN]
    <3>1. r.pos + k \in Nat
      BY <1>1
    <3> QED BY <1>a, <3>1
  <2>3. Take(r, k) = t
    BY <1>2 DEF Take
  <2> HIDE DEF t
  <2>4. Passed(r, t, k)
    BY <1>1, <1>2, <2>1, <2>2 DEF Passed, Reader
  <2> QED BY <2>3, <2>4
<1>3. CASE ~(r.ok /\ r.size - r.pos >= k)
  <2> DEFINE t == [r EXCEPT !.ok = FALSE]
  <2>1. t.pos = r.pos /\ t.size = r.size /\ t.ok = FALSE
    BY <1>a
  <2>2. t \in [pos : Nat, size : Nat, ok : BOOLEAN]
    BY <1>a
  <2>3. Take(r, k) = t
    BY <1>3 DEF Take
  <2> HIDE DEF t
  <2>4. Passed(r, t, k)
    BY <1>1, <1>3, <2>1, <2>2 DEF Passed, Reader
  <2> QED BY <2>3, <2>4
<1> QED BY <1>2, <1>3

LEMMA PassedOn ==
    ASSUME NEW r \in Reader, NEW s, NEW t, NEW a \in Nat, NEW b \in Nat,
           Passed(r, s, a), Passed(s, t, b)
    PROVE  Passed(r, t, a + b)
BY DEF Passed, Reader

LEMMA TakeAllPasses ==
    ASSUME NEW r \in Reader, NEW w \in Seq(Nat), NEW sum \in [0 .. Len(w) -> Nat],
           sum[0] = 0, \A k \in 1 .. Len(w) : sum[k] = sum[k - 1] + w[k]
    PROVE  Passed(r, TakeAll(r, w), sum[Len(w)])
<1> DEFINE n == Len(w)
           step == [k \in 1 .. n |-> [x \in Reader |-> Take(x, w[k])]]
           After(f) == f = [k \in 0 .. n |-> IF k = 0 THEN r ELSE Take(f[k - 1], w[k])]
<1>1. n \in Nat /\ \A k \in 1 .. n : w[k] \in Nat
  OBVIOUS
<1>2. ASSUME NEW k \in 1 .. n, NEW x \in Reader PROVE Take(x, w[k]) \in Reader
  BY <1>1, TakePasses DEF Passed
<1>3. step \in [1 .. n -> [Reader -> Reader]]
  BY <1>2
<1>4. PICK g : g \in Runs(n, Reader, r, step)
  <2>1. n \in Nat
    BY <1>1
  <2> HIDE DEF step, n
  <2> QED BY <1>3, <2>1, Iterates
<1>5. /\ g \in [0 .. n -> Reader] /\ g[0] = r
       /\ \A k \in 1 .. n : g[k] = step[k][g[k - 1]]
  <2> HIDE DEF step, n
  <2> QED BY <1>4 DEF Runs
<1>6. After(g)
  <2>1. ASSUME NEW k \in 0 .. n
        PROVE  g[k] = IF k = 0 THEN r ELSE Take(g[k - 1], w[k])
    <3>1. CASE k = 0
      BY <1>1, <1>5, <3>1
    <3>2. CASE k # 0
      <4>1. k \in 1 .. n /\ k - 1 \in 0 .. n
        BY <1>1, <3>2
      <4>2. g[k - 1] \in Reader
        BY <1>5, <4>1
      <4>3. step[k][g[k - 1]] = Take(g[k - 1], w[k])
        BY <4>1, <4>2
      <4>4. g[k] = step[k][g[k - 1]]
        <5> HIDE DEF step, n
        <5> QED BY <1>5, <4>1
      <4> QED BY <3>2, <4>3, <4>4
    <3> QED BY <3>1, <3>2
  <2>2. g = [k \in 0 .. n |-> g[k]]
    BY <1>5
  <2> QED BY <2>1, <2>2
<1> DEFINE after == CHOOSE f : After(f)
<1>7. After(after)
  BY <1>6
<1>8. TakeAll(r, w) = after[n]
  BY DEF TakeAll
<1> HIDE DEF after
<1> DEFINE Good == {k \in Nat : k <= n => Passed(r, after[k], sum[k])}
<1>9. 0 \in Good
  <2>1. after[0] = r
    BY <1>1, <1>7
  <2>2. Passed(r, r, 0)
    BY DEF Passed, Reader
  <2> QED BY <2>1, <2>2
<1>10. ASSUME NEW k \in Nat, k \in Good PROVE k + 1 \in Good
  <2> SUFFICES ASSUME k + 1 <= n PROVE Passed(r, after[k + 1], sum[k + 1])
    OBVIOUS
  <2>1. k \in 0 .. n /\ k + 1 \in 1 .. n /\ (k + 1) - 1 = k /\ k + 1 # 0 /\ k + 1 \in 0 .. n
    BY <1>1
  <2>2. after[k + 1] = Take(after[k], w[k + 1])
    BY <1>7, <2>1
  <2>3. Passed(r, after[k], sum[k]) /\ after[k] \in Reader /\ w[k + 1] \in Nat
    BY <1>1, <1>10, <2>1 DEF Passed
  <2>4. Passed(after[k], after[k + 1], w[k + 1])
    BY <2>2, <2>3, TakePasses
  <2>5. sum[k] \in Nat /\ sum[k + 1] = sum[k] + w[k + 1]
    BY <2>1
  <2> DEFINE one == after[k + 1]
             two == after[k]
             a == sum[k]
             b == w[k + 1]
  <2>6. Passed(r, two, a) /\ Passed(two, one, b) /\ a \in Nat /\ b \in Nat /\ sum[k + 1] = a + b
    BY <2>3, <2>4, <2>5
  <2> HIDE DEF one, two, a, b
  <2>7. Passed(r, one, a + b)
    BY <2>6, PassedOn
  <2> QED BY <2>6, <2>7 DEF one
<1> HIDE DEF Good
<1>11. n \in Good
  BY <1>1, <1>9, <1>10, Induct
<1> QED BY <1>1, <1>8, <1>11 DEF Good

LEMMA TakeTimesPasses ==
    ASSUME NEW r \in Reader, NEW n \in Nat, NEW w, NEW total \in Nat,
           \A x \in Reader : Passed(x, TakeAll(x, w), total)
    PROVE  Passed(r, TakeTimes(r, n, w), n * total)
<1> DEFINE step == [k \in 1 .. n |-> [x \in Reader |-> TakeAll(x, w)]]
           After(f) == f = [k \in 0 .. n |-> IF k = 0 THEN r ELSE TakeAll(f[k - 1], w)]
<1>1. ASSUME NEW x \in Reader PROVE TakeAll(x, w) \in Reader
  BY DEF Passed
<1>2. step \in [1 .. n -> [Reader -> Reader]]
  BY <1>1
<1>3. PICK g : g \in Runs(n, Reader, r, step)
  <2> HIDE DEF step
  <2> QED BY <1>2, Iterates
<1>4. /\ g \in [0 .. n -> Reader] /\ g[0] = r
      /\ \A k \in 1 .. n : g[k] = step[k][g[k - 1]]
  <2> HIDE DEF step
  <2> QED BY <1>3 DEF Runs
<1>5. After(g)
  <2>1. ASSUME NEW k \in 0 .. n
        PROVE  g[k] = IF k = 0 THEN r ELSE TakeAll(g[k - 1], w)
    <3>1. CASE k = 0
      BY <1>4, <3>1
    <3>2. CASE k # 0
      <4>1. k \in 1 .. n /\ k - 1 \in 0 .. n
        BY <3>2
      <4>2. g[k - 1] \in Reader
        BY <1>4, <4>1
      <4>3. step[k][g[k - 1]] = TakeAll(g[k - 1], w)
        BY <4>1, <4>2
      <4>4. g[k] = step[k][g[k - 1]]
        <5> HIDE DEF step
        <5> QED BY <1>4, <4>1
      <4> QED BY <3>2, <4>3, <4>4
    <3> QED BY <3>1, <3>2
  <2>2. g = [k \in 0 .. n |-> g[k]]
    BY <1>4
  <2> QED BY <2>1, <2>2
<1> DEFINE after == CHOOSE f : After(f)
<1>6. After(after)
  BY <1>5
<1>7. TakeTimes(r, n, w) = after[n]
  BY DEF TakeTimes
<1> HIDE DEF after
<1> DEFINE Good == {k \in Nat : k <= n => Passed(r, after[k], k * total)}
<1>8. 0 \in Good
  <2>1. after[0] = r /\ 0 * total = 0
    BY <1>6
  <2>2. Passed(r, r, 0)
    BY DEF Passed, Reader
  <2> QED BY <2>1, <2>2
<1>9. ASSUME NEW k \in Nat, k \in Good PROVE k + 1 \in Good
  <2> SUFFICES ASSUME k + 1 <= n PROVE Passed(r, after[k + 1], (k + 1) * total)
    OBVIOUS
  <2>1. (k + 1) - 1 = k /\ k + 1 # 0 /\ k + 1 \in 0 .. n
    OBVIOUS
  <2>2. after[k + 1] = TakeAll(after[k], w)
    BY <1>6, <2>1
  <2>3. Passed(r, after[k], k * total) /\ after[k] \in Reader
    BY <1>9 DEF Passed
  <2>4. Passed(after[k], after[k + 1], total)
    BY <2>2, <2>3
  <2>5. k * total \in Nat /\ (k + 1) * total = k * total + total
    OBVIOUS
  <2> DEFINE one == after[k + 1]
             two == after[k]
             a == k * total
  <2>6. Passed(r, two, a) /\ Passed(two, one, total) /\ a \in Nat /\ (k + 1) * total = a + total
    BY <2>3, <2>4, <2>5
  <2> HIDE DEF one, two, a
  <2>7. Passed(r, one, a + total)
    BY <2>6, PassedOn
  <2> QED BY <2>6, <2>7 DEF one
<1> HIDE DEF Good
<1>10. n \in Good
  BY <1>8, <1>9, Induct
<1> QED BY <1>7, <1>10 DEF Good

(* What is read of each part of a frame. *)
LEMMA HeaderPasses ==
    ASSUME NEW r \in Reader
    PROVE  Passed(r, TakeAll(r, HeaderFields), 14)
<1> DEFINE sum == [k \in 0 .. 7 |-> <<0, 1, 2, 4, 6, 8, 12, 14>>[k + 1]]
<1>1. HeaderFields \in Seq(Nat) /\ Len(HeaderFields) = 7
  BY DEF HeaderFields
<1>2. sum \in [0 .. 7 -> Nat] /\ sum[0] = 0 /\ sum[7] = 14
  OBVIOUS
<1>3. \A k \in 1 .. 7 : sum[k] = sum[k - 1] + HeaderFields[k]
  BY DEF HeaderFields
<1> HIDE DEF sum
<1>4. /\ sum \in [0 .. Len(HeaderFields) -> Nat] /\ sum[Len(HeaderFields)] = 14
      /\ \A k \in 1 .. Len(HeaderFields) : sum[k] = sum[k - 1] + HeaderFields[k]
  BY <1>1, <1>2, <1>3
<1>5. Passed(r, TakeAll(r, HeaderFields), sum[Len(HeaderFields)])
  BY <1>1, <1>2, <1>4, TakeAllPasses
<1> QED BY <1>4, <1>5

LEMMA NavPasses ==
    ASSUME NEW r \in Reader
    PROVE  Passed(r, TakeAll(r, NavFields), 42)
<1> DEFINE sum == [k \in 0 .. 13 |-> <<0, 1, 2, 4, 6, 14, 22, 30, 34, 36, 38, 39, 40, 42>>[k + 1]]
<1>1. NavFields \in Seq(Nat) /\ Len(NavFields) = 13
  BY DEF NavFields
<1>2. sum \in [0 .. 13 -> Nat] /\ sum[0] = 0 /\ sum[13] = 42
  OBVIOUS
<1>3. \A k \in 1 .. 13 : sum[k] = sum[k - 1] + NavFields[k]
  BY DEF NavFields
<1> HIDE DEF sum
<1>4. /\ sum \in [0 .. Len(NavFields) -> Nat] /\ sum[Len(NavFields)] = 42
      /\ \A k \in 1 .. Len(NavFields) : sum[k] = sum[k - 1] + NavFields[k]
  BY <1>1, <1>2, <1>3
<1>5. Passed(r, TakeAll(r, NavFields), sum[Len(NavFields)])
  BY <1>1, <1>2, <1>4, TakeAllPasses
<1> QED BY <1>4, <1>5

LEMMA NavGroupPasses ==
    ASSUME NEW r \in Reader
    PROVE  Passed(r, TakeAll(r, NavGroup), 12)
<1> DEFINE sum == [k \in 0 .. 3 |-> 4 * k]
<1>1. NavGroup \in Seq(Nat) /\ Len(NavGroup) = 3
  BY DEF NavGroup
<1>2. sum \in [0 .. 3 -> Nat] /\ sum[0] = 0 /\ sum[3] = 12
  OBVIOUS
<1>3. \A k \in 1 .. 3 : sum[k] = sum[k - 1] + NavGroup[k]
  BY DEF NavGroup
<1> HIDE DEF sum
<1>4. /\ sum \in [0 .. Len(NavGroup) -> Nat] /\ sum[Len(NavGroup)] = 12
      /\ \A k \in 1 .. Len(NavGroup) : sum[k] = sum[k - 1] + NavGroup[k]
  BY <1>1, <1>2, <1>3
<1>5. Passed(r, TakeAll(r, NavGroup), sum[Len(NavGroup)])
  BY <1>1, <1>2, <1>4, TakeAllPasses
<1> QED BY <1>4, <1>5

LEMMA StatusPasses ==
    ASSUME NEW r \in Reader
    PROVE  Passed(r, TakeAll(r, StatusFields), 18)
<1> DEFINE sum == [k \in 0 .. 9 |-> <<0, 1, 2, 6, 10, 14, 15, 16, 17, 18>>[k + 1]]
<1>1. StatusFields \in Seq(Nat) /\ Len(StatusFields) = 9
  BY DEF StatusFields
<1>2. sum \in [0 .. 9 -> Nat] /\ sum[0] = 0 /\ sum[9] = 18
  OBVIOUS
<1>3. \A k \in 1 .. 9 : sum[k] = sum[k - 1] + StatusFields[k]
  BY DEF StatusFields
<1> HIDE DEF sum
<1>4. /\ sum \in [0 .. Len(StatusFields) -> Nat] /\ sum[Len(StatusFields)] = 18
      /\ \A k \in 1 .. Len(StatusFields) : sum[k] = sum[k - 1] + StatusFields[k]
  BY <1>1, <1>2, <1>3
<1>5. Passed(r, TakeAll(r, StatusFields), sum[Len(StatusFields)])
  BY <1>1, <1>2, <1>4, TakeAllPasses
<1> QED BY <1>4, <1>5

LEMMA SubBlockPasses ==
    ASSUME NEW r \in Reader, NEW sub \in Nat, sub >= 4
    PROVE  Passed(r, TakeAll(r, <<1, 1, 1, 1, sub - 4>>), sub)
<1> DEFINE w == <<1, 1, 1, 1, sub - 4>>
           sum == [k \in 0 .. 5 |-> IF k = 5 THEN sub ELSE k]
<1>1. w \in Seq(Nat) /\ Len(w) = 5
  OBVIOUS
<1>2. sum \in [0 .. 5 -> Nat] /\ sum[0] = 0 /\ sum[5] = sub
  OBVIOUS
<1>3. \A k \in 1 .. 5 : sum[k] = sum[k - 1] + w[k]
  OBVIOUS
<1> HIDE DEF sum, w
<1>4. Passed(r, TakeAll(r, w), sub)
  BY <1>1, <1>2, <1>3, TakeAllPasses
<1> QED BY <1>4 DEF w

(* A frame parses when it is well formed: the parser's cursor finds every field
   inside the declared length. *)
LEMMA ParsedMeans ==
    ASSUME NEW f \in Frames, f.id \in {"nav", "status"}
    PROVE  Parsed(f) <=> WellFormed(f)
<1>1. /\ f.size \in Nat /\ f.length \in Nat /\ f.groups \in Nat /\ f.n \in Nat /\ f.sub \in Nat
      /\ f.sync \in BOOLEAN
  BY LiveAssumption DEF FrameType
<1> DEFINE r == [pos |-> 0, size |-> f.size, ok |-> f.sync]
           t == TakeAll(r, HeaderFields)
           h == ReadFrameHeader(f)
           fits == f.sync /\ f.length >= 14 /\ f.length <= f.size
<1>2. /\ h \in Reader /\ (h.ok <=> fits)
      /\ h.ok => h.pos = 14 /\ h.size = f.length
  <2>1. r \in Reader /\ r.pos = 0 /\ r.size = f.size /\ (r.ok <=> f.sync)
    BY <1>1 DEF Reader
  <2> HIDE DEF r
  <2>2. Passed(r, t, 14)
    BY <2>1, HeaderPasses
  <2> HIDE DEF t
  <2>3. /\ t \in [pos : Nat, size : Nat, ok : BOOLEAN] /\ (t.ok <=> f.sync /\ 14 <= f.size)
        /\ t.ok => t.pos = 14
    BY <2>1, <2>2 DEF Passed, Reader
  <2>4. h = IF t.ok /\ f.length >= 14 /\ f.length <= f.size THEN [t EXCEPT !.size = f.length]
            ELSE [t EXCEPT !.ok = FALSE]
    BY DEF ReadFrameHeader, t, r
  <2> HIDE DEF h
  <2>5. CASE t.ok /\ f.length >= 14 /\ f.length <= f.size
    <3> DEFINE u == [t EXCEPT !.size = f.length]
    <3>1. u.pos = t.pos /\ u.size = f.length /\ u.ok = t.ok
      BY <2>3
    <3>2. u \in [pos : Nat, size : Nat, ok : BOOLEAN]
      BY <1>1, <2>3
    <3>3. h = u
      BY <2>4, <2>5
    <3> HIDE DEF u
    <3> QED BY <1>1, <2>3, <2>5, <3>1, <3>2, <3>3 DEF Reader
  <2>6. CASE ~(t.ok /\ f.length >= 14 /\ f.length <= f.size)
    <3> DEFINE u == [t EXCEPT !.ok = FALSE]
    <3>1. u.pos = t.pos /\ u.size = t.size /\ u.ok = FALSE
      BY <2>3
    <3>2. u \in [pos : Nat, size : Nat, ok : BOOLEAN]
      BY <2>3
    <3>3. h = u
      BY <2>4, <2>6
    <3> HIDE DEF u
    <3> QED BY <1>1, <2>3, <2>6, <3>1, <3>2, <3>3 DEF Reader
  <2> QED BY <2>5, <2>6
<1> HIDE DEF h
<1>3. CASE f.id = "nav"
  <2> DEFINE fixed == TakeAll(h, NavFields)
             all == TakeTimes(fixed, f.groups, NavGroup)
  <2>1. Passed(h, fixed, 42)
    BY <1>2, NavPasses
  <2>2. Passed(fixed, all, f.groups * 12)
    <3> HIDE DEF fixed
    <3>1. fixed \in Reader
      BY <2>1 DEF Passed
    <3> QED BY <1>1, <3>1, NavGroupPasses, TakeTimesPasses
  <2>3. Parsed(f) = all.ok
    BY <1>3 DEF Parsed, ParseINSNavGeod, h
  <2> HIDE DEF fixed, all
  <2>4. all.ok <=> h.ok /\ 56 + 12 * f.groups <= h.size
    BY <1>1, <1>2, <2>1, <2>2 DEF Passed, Reader
  <2> QED BY <1>1, <1>2, <1>3, <2>3, <2>4 DEF WellFormed
<1>4. CASE f.id = "status"
  <2> DEFINE fixed == TakeAll(h, StatusFields)
             sub == <<1, 1, 1, 1, f.sub - 4>>
             all == TakeTimes(fixed, f.n, sub)
  <2>1. Passed(h, fixed, 18)
    BY <1>2, StatusPasses
  <2>2. Parsed(f) <=> fixed.ok /\ (f.n > 0 => f.sub >= 4) /\ all.ok
    BY <1>4 DEF Parsed, ParseReceiverStatus, h
  <2>3. WellFormed(f) <=> /\ f.sync /\ f.length <= f.size /\ 32 + f.n * f.sub <= f.length
                          /\ f.n > 0 => f.sub >= 4
    BY <1>4 DEF WellFormed
  <2>4. fixed \in Reader /\ (fixed.ok <=> h.ok /\ 32 <= h.size)
    BY <1>2, <2>1 DEF Passed, Reader
  <2>5. fixed.ok => fixed.pos = 32 /\ fixed.size = h.size
    BY <1>2, <2>1 DEF Passed, Reader
  <2>6. f.n * f.sub \in Nat /\ (f.n = 0 => f.n * f.sub = 0)
    BY <1>1
  <2>7. ASSUME f.n = 0 \/ f.sub >= 4 PROVE Passed(fixed, all, f.n * f.sub)
    <3> HIDE DEF fixed
    <3>1. CASE f.sub >= 4
      <4>1. \A x \in Reader : Passed(x, TakeAll(x, sub), f.sub)
        BY <1>1, <3>1, SubBlockPasses
      <4> HIDE DEF sub
      <4> QED BY <1>1, <2>4, <4>1, TakeTimesPasses
    <3>2. CASE f.n = 0
      <4>1. all = fixed
        <5> DEFINE After(g) == g = [k \in 0 .. 0 |-> IF k = 0 THEN fixed ELSE TakeAll(g[k - 1], sub)]
        <5>1. After([k \in 0 .. 0 |-> fixed])
          OBVIOUS
        <5>2. After(CHOOSE g : After(g))
          BY <5>1
        <5>3. all = (CHOOSE g : After(g))[0]
          BY <3>2 DEF TakeTimes
        <5> QED BY <5>2, <5>3
      <4>2. Passed(fixed, fixed, 0)
        BY <2>4 DEF Passed, Reader
      <4> QED BY <2>6, <3>2, <4>1, <4>2
    <3> QED BY <2>7, <3>1, <3>2
  <2> HIDE DEF fixed, all
  <2>8. ASSUME f.n = 0 \/ f.sub >= 4
        PROVE  all.ok <=> fixed.ok /\ 32 + f.n * f.sub <= h.size
    BY <1>2, <2>4, <2>5, <2>6, <2>7, <2>8 DEF Passed, Reader
  <2> QED BY <1>1, <1>2, <2>2, <2>3, <2>4, <2>6, <2>8
<1> QED BY <1>3, <1>4

----------------------------------------------------------------------------
(* The live rows.  A channel is its header and the rows due so far, or a
   beginning of that once it has failed; one not opened yet owes nothing. *)
ChannelState == [opened : BOOLEAN, failed : BOOLEAN, good : BOOLEAN, lines : Seq(Nat)]

ChannelShows(ch, rows) ==
    /\ ch \in ChannelState /\ rows \in Seq(Nat)
    /\ Len(ch.lines) <= Len(rows) + 1
    /\ \A i \in 1 .. Len(ch.lines) : ch.lines[i] = IF i = 1 THEN 0 ELSE rows[i - 1]
    /\ ch.opened /\ ch.good /\ ~ch.failed => Len(ch.lines) = Len(rows) + 1
    /\ ~ch.opened /\ ~ch.failed => ch.lines = << >> /\ rows = << >>

LiveShows(l, rows) ==
    /\ l = [c \in Channels |-> l[c]] /\ rows = [c \in Channels |-> rows[c]]
    /\ \A c \in Channels : ChannelShows(l[c], rows[c])

LEMMA FlushShows ==
    ASSUME NEW ch, NEW rows, ChannelShows(ch, rows)
    PROVE  \A d \in FlushChannel(ch) : ChannelShows(d, rows)
<1> DEFINE e == [ch EXCEPT !.good = FALSE]
<1>1. /\ e \in ChannelState /\ e.opened = ch.opened /\ e.failed = ch.failed /\ e.good = FALSE
      /\ e.lines = ch.lines
  BY DEF ChannelShows, ChannelState
<1>2. \A d \in FlushChannel(ch) : d = ch \/ d = e
  BY DEF FlushChannel
<1> HIDE DEF e
<1>3. ChannelShows(e, rows)
  BY <1>1 DEF ChannelShows
<1> QED BY <1>2, <1>3

LEMMA CloseShows ==
    ASSUME NEW ch, NEW rows, ChannelShows(ch, rows)
    PROVE  \A d \in CloseChannel(ch) : ChannelShows(d, rows)
<1> DEFINE e == [ch EXCEPT !.opened = FALSE, !.failed = TRUE]
<1>1. /\ e \in ChannelState /\ e.opened = FALSE /\ e.failed = TRUE /\ e.lines = ch.lines
  BY DEF ChannelShows, ChannelState
<1>2. \A d \in CloseChannel(ch) : d = e
  BY DEF CloseChannel
<1> HIDE DEF e
<1>3. ChannelShows(e, rows)
  BY <1>1 DEF ChannelShows
<1> QED BY <1>2, <1>3

(* Opening a channel leaves it failed, or with the header and the rows due. *)
LEMMA OpenShows ==
    ASSUME NEW ch, NEW rows, ChannelShows(ch, rows)
    PROVE  \A d \in OpenChannel(ch) : ChannelShows(d, rows) /\ (d.opened \/ d.failed)
<1> DEFINE bad == [ch EXCEPT !.failed = TRUE]
           open == [ch EXCEPT !.opened = TRUE, !.lines = <<0>>]
<1>1. /\ bad \in ChannelState /\ bad.failed = TRUE /\ bad.lines = ch.lines
  BY DEF ChannelShows, ChannelState
<1>2. /\ open \in ChannelState /\ open.opened = TRUE /\ open.lines = <<0>>
  <2>1. <<0>> \in Seq(Nat) /\ ch \in ChannelState
    BY DEF ChannelShows
  <2> DEFINE header == <<0>>
  <2> HIDE DEF header
  <2>2. LET o == [ch EXCEPT !.opened = TRUE, !.lines = header]
        IN  o \in ChannelState /\ o.opened = TRUE /\ o.lines = header
    BY <2>1 DEF ChannelState, header
  <2> QED BY <2>2 DEF header
<1>3. CASE ch.opened \/ ch.failed
  BY <1>3 DEF OpenChannel
<1>4. CASE ~(ch.opened \/ ch.failed)
  <2>1. \A d \in OpenChannel(ch) : d = bad \/ d = open
    BY <1>4 DEF OpenChannel
  <2> HIDE DEF bad, open
  <2>2. ChannelShows(bad, rows)
    BY <1>1 DEF ChannelShows
  <2>3. ChannelShows(open, rows)
    <3>1. rows = << >> /\ Len(rows) = 0 /\ Len(open.lines) = 1 /\ open.lines[1] = 0
      BY <1>2, <1>4 DEF ChannelShows
    <3> QED BY <1>2, <3>1 DEF ChannelShows
  <2> QED BY <1>1, <1>2, <2>1, <2>2, <2>3
<1> QED BY <1>3, <1>4

LEMMA AppendShows ==
    ASSUME NEW ch, NEW rows, ChannelShows(ch, rows), NEW id \in Nat
    PROVE  \A d \in AppendRow(ch, id) : ChannelShows(d, Append(rows, id))
<1> DEFINE more == Append(rows, id)
<1>1. rows \in Seq(Nat) /\ more \in Seq(Nat) /\ Len(more) = Len(rows) + 1 /\ Len(rows) \in Nat
  BY AppendProperties DEF ChannelShows
<1>2. \A i \in 1 .. Len(rows) : more[i] = rows[i]
  BY <1>1, AppendProperties
<1>3. more[Len(rows) + 1] = id
  BY <1>1, AppendProperties
<1> HIDE DEF more
<1>4. ASSUME NEW d, ChannelShows(d, rows), d.failed PROVE ChannelShows(d, more)
  <2>1. d.lines \in Seq(Nat) /\ Len(d.lines) \in Nat /\ Len(d.lines) <= Len(rows) + 1
    BY <1>4, LenProperties DEF ChannelShows, ChannelState
  <2>2. ASSUME NEW i \in 1 .. Len(d.lines)
        PROVE  d.lines[i] = IF i = 1 THEN 0 ELSE more[i - 1]
    <3>1. d.lines[i] = IF i = 1 THEN 0 ELSE rows[i - 1]
      BY <1>4 DEF ChannelShows
    <3>2. i # 1 => i - 1 \in 1 .. Len(rows)
      BY <1>1, <2>1
    <3> QED BY <1>2, <3>1, <3>2
  <2>3. d \in ChannelState /\ d.failed
    BY <1>4 DEF ChannelShows
  <2> QED BY <1>1, <2>1, <2>2, <2>3 DEF ChannelShows
<1>5. ASSUME NEW o \in OpenChannel(ch), NEW d,
             d \in IF o.failed THEN {o}
                   ELSE {[o EXCEPT !.good = FALSE, !.failed = TRUE]}
                        \cup (IF o.good THEN {[o EXCEPT !.lines = Append(@, id)]} ELSE {})
      PROVE  ChannelShows(d, more)
  <2>1. ChannelShows(o, rows) /\ (o.opened \/ o.failed)
    BY OpenShows
  <2> DEFINE bad == [o EXCEPT !.good = FALSE, !.failed = TRUE]
             put == [o EXCEPT !.lines = Append(@, id)]
  <2>2. bad \in ChannelState /\ bad.failed = TRUE /\ bad.lines = o.lines
    BY <2>1 DEF ChannelShows, ChannelState
  <2>3. (d = o /\ o.failed) \/ d = bad \/ (o.opened /\ ~o.failed /\ o.good /\ d = put)
    BY <1>5, <2>1
  <2>4. o.lines \in Seq(Nat) /\ o \in ChannelState
    BY <2>1 DEF ChannelShows, ChannelState
  <2>5. put \in ChannelState /\ put.lines = Append(o.lines, id) /\ put.opened = o.opened
        /\ put.failed = o.failed
    <3>1. Append(o.lines, id) \in Seq(Nat)
      BY <2>4, AppendProperties
    <3> QED BY <2>4, <3>1 DEF ChannelState
  <2> HIDE DEF bad, put
  <2>6. ChannelShows(bad, more)
    <3>1. ChannelShows(bad, rows)
      BY <2>1, <2>2 DEF ChannelShows
    <3> QED BY <1>4, <2>2, <3>1
  <2>7. ASSUME o.opened, ~o.failed, o.good PROVE ChannelShows(put, more)
    <3>1. Len(o.lines) = Len(rows) + 1
      BY <2>1, <2>7 DEF ChannelShows
    <3>2. /\ Len(put.lines) = Len(o.lines) + 1 /\ put.lines[Len(o.lines) + 1] = id
          /\ \A i \in 1 .. Len(o.lines) : put.lines[i] = o.lines[i]
      BY <2>4, <2>5, AppendProperties
    <3>3. ASSUME NEW i \in 1 .. Len(put.lines)
          PROVE  put.lines[i] = IF i = 1 THEN 0 ELSE more[i - 1]
      <4>1. CASE i = Len(o.lines) + 1
        BY <1>1, <1>3, <3>1, <3>2, <4>1
      <4>2. CASE i # Len(o.lines) + 1
        <5>1. i \in 1 .. Len(o.lines)
          BY <1>1, <3>1, <3>2, <4>2
        <5>2. put.lines[i] = IF i = 1 THEN 0 ELSE rows[i - 1]
          BY <2>1, <3>2, <5>1 DEF ChannelShows
        <5>3. i # 1 => i - 1 \in 1 .. Len(rows)
          BY <1>1, <3>1, <5>1
        <5> QED BY <1>2, <5>2, <5>3
      <4> QED BY <4>1, <4>2
    <3> QED BY <1>1, <2>5, <2>7, <3>1, <3>2, <3>3 DEF ChannelShows
  <2> QED BY <1>4, <2>1, <2>3, <2>6, <2>7
<1> QED BY <1>5 DEF AppendRow, more

(* A flush, or a new row of one channel, keeps every channel. *)
LEMMA BothShows ==
    ASSUME NEW rows, rows = [c \in Channels |-> rows[c]],
           NEW nav, NEW status,
           \A a \in nav : ChannelShows(a, rows["nav"]),
           \A b \in status : ChannelShows(b, rows["status"]),
           NEW l \in Both(nav, status)
    PROVE  /\ l = [c \in Channels |-> l[c]]
           /\ \A c \in Channels : ChannelShows(l[c], rows[c])
<1>1. PICK a \in nav, b \in status : l = [c \in Channels |-> IF c = "nav" THEN a ELSE b]
  BY DEF Both
<1>2. "nav" \in Channels /\ "status" \in Channels /\ \A c \in Channels : c = "nav" \/ c = "status"
  BY DEF Channels
<1>3. l["nav"] = a /\ l["status"] = b
  BY <1>1, <1>2
<1>4. l = [c \in Channels |-> l[c]]
  BY <1>1
<1>5. ASSUME NEW c \in Channels PROVE ChannelShows(l[c], rows[c])
  <2>1. CASE c = "nav"
    BY <1>3, <2>1
  <2>2. CASE c = "status"
    BY <1>3, <2>2
  <2> QED BY <1>2, <2>1, <2>2
<1> QED BY <1>4, <1>5

LEMMA FlushesShow ==
    ASSUME NEW l, NEW rows, LiveShows(l, rows)
    PROVE  \A k \in Flush(l) : LiveShows(k, rows)
<1>1. "nav" \in Channels /\ "status" \in Channels
  BY DEF Channels
<1>2. /\ \A a \in FlushChannel(l["nav"]) : ChannelShows(a, rows["nav"])
      /\ \A b \in FlushChannel(l["status"]) : ChannelShows(b, rows["status"])
  BY <1>1, FlushShows DEF LiveShows
<1> QED BY <1>2, BothShows DEF LiveShows, Flush

LEMMA ClosesShow ==
    ASSUME NEW l, NEW rows, LiveShows(l, rows)
    PROVE  \A k \in CloseLive(l) : LiveShows(k, rows)
<1>1. "nav" \in Channels /\ "status" \in Channels
  BY DEF Channels
<1>2. /\ \A a \in CloseChannel(l["nav"]) : ChannelShows(a, rows["nav"])
      /\ \A b \in CloseChannel(l["status"]) : ChannelShows(b, rows["status"])
  BY <1>1, CloseShows DEF LiveShows
<1> QED BY <1>2, BothShows DEF LiveShows, CloseLive

LEMMA MaybeFlushShows ==
    ASSUME NEW l, NEW rows, LiveShows(l, rows)
    PROVE  \A k \in MaybeFlush(l) : LiveShows(k, rows)
BY FlushesShow DEF MaybeFlush

LEMMA OnBlockShows ==
    ASSUME NEW l, NEW rows, LiveShows(l, rows), NEW f \in Frames, NEW id \in Nat,
           NEW k \in OnBlock(l, f, id)
    PROVE  LiveShows(k, IF HasRow(f) THEN [rows EXCEPT ![f.id] = Append(@, id)] ELSE rows)
<1>1. /\ f.size \in Nat /\ f.length \in Nat /\ f.groups \in Nat /\ f.n \in Nat /\ f.sub \in Nat
      /\ f.id \in {"nav", "status", "other"}
  BY LiveAssumption DEF FrameType
<1>2. CASE ~LiveCsv \/ f.size < 8 \/ f.id = "other"
  <2>1. ASSUME f.size < 8, f.id # "other" PROVE ~WellFormed(f)
    <3>1. f.n * f.sub \in Nat
      BY <1>1
    <3> QED BY <1>1, <2>1, <3>1 DEF WellFormed
  <2>2. ~HasRow(f)
    BY <1>2, <2>1 DEF HasRow
  <2>3. k = l
    BY <1>2 DEF OnBlock
  <2> QED BY <2>2, <2>3
<1>3. CASE LiveCsv /\ ~(f.size < 8) /\ f.id # "other" /\ (~Parsed(f) \/ ~f.fits)
  <2>1. ~HasRow(f)
    BY <1>1, <1>3, ParsedMeans DEF HasRow
  <2>2. k \in MaybeFlush(l)
    BY <1>3 DEF OnBlock
  <2> QED BY <2>1, <2>2, MaybeFlushShows
<1>4. CASE LiveCsv /\ ~(f.size < 8) /\ f.id # "other" /\ Parsed(f) /\ f.fits
  <2>1. HasRow(f) /\ f.id \in Channels
    BY <1>1, <1>4, ParsedMeans DEF HasRow, Channels
  <2>2. PICK c \in AppendRow(l[f.id], id) : k \in MaybeFlush([l EXCEPT ![f.id] = c])
    BY <1>4 DEF OnBlock
  <2> DEFINE more == [rows EXCEPT ![f.id] = Append(@, id)]
             next == [l EXCEPT ![f.id] = c]
  <2>3. ChannelShows(c, Append(rows[f.id], id))
    BY <2>1, AppendShows DEF LiveShows
  <2>4. /\ more = [d \in Channels |-> IF d = f.id THEN Append(rows[f.id], id) ELSE rows[d]]
        /\ next = [d \in Channels |-> IF d = f.id THEN c ELSE l[d]]
    BY <2>1 DEF LiveShows
  <2> HIDE DEF more, next
  <2>5. /\ more = [d \in Channels |-> more[d]] /\ next = [d \in Channels |-> next[d]]
    BY <2>4
  <2>6. ASSUME NEW d \in Channels PROVE ChannelShows(next[d], more[d])
    <3>1. CASE d = f.id
      BY <2>3, <2>4, <3>1
    <3>2. CASE d # f.id
      <4>1. next[d] = l[d] /\ more[d] = rows[d]
        BY <2>4, <3>2
      <4> QED BY <4>1 DEF LiveShows
    <3> QED BY <3>1, <3>2
  <2>7. LiveShows(next, more)
    BY <2>5, <2>6 DEF LiveShows
  <2>8. k \in MaybeFlush(next)
    BY <2>2 DEF next
  <2>9. LiveShows(k, more)
    BY <2>7, <2>8, MaybeFlushShows
  <2> QED BY <2>1, <2>9 DEF more
<1> QED BY <1>2, <1>3, <1>4

Shows == LiveShows(live, due)

LEMMA ShowsInit == RecordingInit => Shows
<1> SUFFICES ASSUME RecordingInit PROVE Shows
  OBVIOUS
<1>1. live = [c \in Channels |-> NoChannel] /\ due = [c \in Channels |-> << >>]
  BY DEF RecordingInit, NoLive
<1>2. ChannelShows(NoChannel, << >>)
  BY DEF ChannelShows, NoChannel, ChannelState
<1> QED BY <1>1, <1>2 DEF Shows, LiveShows

LEMMA ShowsStep == LogInv /\ Shows /\ [RecordingNext]_recordingVars => Shows'
<1> SUFFICES ASSUME LogInv, Shows, [RecordingNext]_recordingVars PROVE Shows'
  OBVIOUS
<1>1. ASSUME UNCHANGED <<live, due>> PROVE Shows'
  BY <1>1 DEF Shows
<1>2. ASSUME LinkDown PROVE Shows'
  BY <1>2, FlushesShow DEF LinkDown, Shows
<1>3. ASSUME ShutdownLive PROVE Shows'
  BY <1>3, ClosesShow DEF ShutdownLive, Shows
<1>4. ASSUME OnSbfBlock PROVE Shows'
  <2>1. CASE accepted' = accepted
    BY <1>1, <1>4, <2>1 DEF OnSbfBlock
  <2>2. CASE accepted' # accepted
    <3>1. PICK f \in Frames :
             /\ live' \in OnBlock(live, f, offer.id)
             /\ due' = IF HasRow(f) THEN [due EXCEPT ![f.id] = Append(@, offer.id)] ELSE due
      BY <1>4, <2>2 DEF OnSbfBlock
    <3>2. offer.id \in Nat
      BY <1>4 DEF OnSbfBlock, Enqueue, LogInv, PhasesAgree, Blocks
    <3>3. LiveShows(live', IF HasRow(f) THEN [due EXCEPT ![f.id] = Append(@, offer.id)] ELSE due)
      BY <3>1, <3>2, OnBlockShows DEF Shows
    <3> QED BY <3>1, <3>3 DEF Shows
  <2> QED BY <2>1, <2>2
<1> QED BY <1>1, <1>2, <1>3, <1>4 DEF RecordingNext, BlockArrives, recordingVars

LEMMA ShowsHolds == Shows => LiveIsTheRecording
<1> SUFFICES ASSUME Shows, NEW c \in Channels
             PROVE  /\ IsPrefix(live[c].lines, <<0>> \o due[c])
                    /\ (live[c].opened /\ live[c].good /\ ~live[c].failed
                           => live[c].lines = <<0>> \o due[c])
  BY DEF LiveIsTheRecording
<1> DEFINE lines == live[c].lines
           header == <<0>>
           all == header \o due[c]
<1>1. ChannelShows(live[c], due[c])
  BY DEF Shows, LiveShows
<1>2. lines \in Seq(Nat) /\ due[c] \in Seq(Nat) /\ Len(lines) \in Nat /\ Len(due[c]) \in Nat
      /\ Len(lines) <= Len(due[c]) + 1
  BY <1>1, LenProperties DEF ChannelShows, ChannelState
<1>3. header \in Seq(Nat) /\ Len(header) = 1 /\ header[1] = 0
  OBVIOUS
<1> HIDE DEF header
<1>4. /\ all \in Seq(Nat) /\ Len(all) = Len(due[c]) + 1
      /\ \A i \in 1 .. Len(all) : all[i] = IF i = 1 THEN 0 ELSE due[c][i - 1]
  <2>1. /\ all \in Seq(Nat) /\ Len(all) = Len(header) + Len(due[c])
        /\ \A i \in 1 .. Len(header) + Len(due[c]) :
              all[i] = IF i <= Len(header) THEN header[i] ELSE due[c][i - Len(header)]
    <3> DEFINE rows == due[c]
    <3> HIDE DEF rows
    <3>1. \A h, r \in Seq(Nat) :
             /\ h \o r \in Seq(Nat) /\ Len(h \o r) = Len(h) + Len(r)
             /\ \A i \in 1 .. Len(h) + Len(r) :
                   (h \o r)[i] = IF i <= Len(h) THEN h[i] ELSE r[i - Len(h)]
      BY ConcatProperties
    <3> QED BY <1>2, <1>3, <3>1
  <2> HIDE DEF all
  <2> QED BY <1>2, <1>3, <2>1
<1>5. \A i \in 1 .. Len(lines) : lines[i] = all[i]
  <2> HIDE DEF all
  <2> QED BY <1>1, <1>2, <1>4 DEF ChannelShows
<1> HIDE DEF all, lines
<1>6. IsPrefix(lines, all)
  <2>1. SubSeq(lines, 1, Len(lines)) = SubSeq(all, 1, Len(lines))
    BY <1>2, <1>4, <1>5, SubSeqProperties
  <2> QED BY <1>2, <1>4, <2>1 DEF IsPrefix
<1>7. Len(lines) = Len(all) => lines = all
  BY <1>2, <1>4, <1>5, SeqEqual
<1>8. live[c].opened /\ live[c].good /\ ~live[c].failed => Len(lines) = Len(all)
  BY <1>1, <1>4 DEF ChannelShows, lines
<1> QED BY <1>6, <1>7, <1>8 DEF lines, all, header

(* At every step of a recording session the queue keeps its books and a working
   live file is exactly the well-formed blocks of its kind that were accepted,
   in order, whatever frames arrive and whenever a write or a flush fails
   (OnSbfBlock, OnBlock, the parsers' bounds checks). *)
THEOREM RecordingCorrect == RecordingSpec => []RecordingInv
<1>1. RecordingSpec => Spec
  <2>1. RecordingInit => Init
    BY DEF RecordingInit
  <2>2. [RecordingNext]_recordingVars => [Next]_vars
    BY DEF RecordingNext, recordingVars, Aside, BlockArrives, OnSbfBlock, LinkDown, ShutdownLive,
           Next, Caller, Closed
  <2> QED BY <2>1, <2>2, PTL DEF RecordingSpec, Spec
<1>2. RecordingSpec => []LogInv
  BY <1>1, LogInvCorrect, PTL
<1>3. RecordingSpec => []Shows
  <2>1. RecordingInit => Shows
    BY ShowsInit
  <2>2. LogInv /\ Shows /\ [RecordingNext]_recordingVars => Shows'
    BY ShowsStep
  <2> QED BY <1>2, <2>1, <2>2, PTL DEF RecordingSpec
<1>4. Shows => LiveIsTheRecording
  BY ShowsHolds
<1> QED BY <1>1, <1>3, <1>4, QueueCorrect, PTL DEF RecordingInv
============================================================================
