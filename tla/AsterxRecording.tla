--------------------------- MODULE AsterxRecording ---------------------------
(***************************************************************************)
(* What Session::OnSbfBlock does with a block: it goes into the write      *)
(* queue, whose files are the recording, and only then to the live rows    *)
(* the console displays.  A refused block ends the acquisition; a lost     *)
(* link flushes the rows and keeps all files open; Shutdown closes the     *)
(* queue and then the live files.                                          *)
(***************************************************************************)
EXTENDS SbfWriteQueue, SbfLive

VARIABLES
    live,     \* live_
    ended,    \* live_ has been closed
    due       \* per channel, the accepted blocks that have a row

recordingVars == <<vars, live, ended, due>>

RecordingInit == Init /\ live = NoLive /\ ended = FALSE /\ due = [c \in Channels |-> << >>]

(* The reference for the parsers: every field the frame announces lies within
   its declared length, and that within what was delivered. *)
WellFormed(f) ==
    /\ f.sync /\ f.length <= f.size
    /\ f.id = "nav" => 56 + 12 * f.groups <= f.length
    /\ f.id = "status" => 32 + f.n * f.sub <= f.length /\ (f.n > 0 => f.sub >= 4)

HasRow(f) == LiveCsv /\ f.id # "other" /\ WellFormed(f) /\ f.fits

(* A block arrives; in kStopping none is taken. *)
BlockArrives == Offer /\ ~refused /\ UNCHANGED <<live, ended, due>>

OnSbfBlock ==
    /\ Enqueue
    /\ IF accepted' = accepted THEN UNCHANGED <<live, due>>
       ELSE \E f \in Frames :
              /\ live' \in OnBlock(live, f, offer.id)
              /\ due' = IF HasRow(f) THEN [due EXCEPT ![f.id] = Append(@, offer.id)] ELSE due
    /\ UNCHANGED ended

(* HandleFailure in warm-up: the link is gone, the files stay open. *)
LinkDown ==
    /\ cpc = "open" /\ ~refused
    /\ live' \in Flush(live)
    /\ UNCHANGED <<vars, ended, due>>

ShutdownLive ==
    /\ cpc = "closed" /\ ~ended
    /\ live' \in CloseLive(live) /\ ended' = TRUE
    /\ UNCHANGED <<vars, due>>

Aside == Start \/ Overflow \/ Close \/ CloseSteps \/ Writer

RecordingNext ==
    \/ Aside /\ UNCHANGED <<live, ended, due>>
    \/ BlockArrives \/ OnSbfBlock \/ LinkDown \/ ShutdownLive
    \/ Closed /\ ended /\ UNCHANGED <<live, ended, due>>

RecordingSpec == RecordingInit /\ [][RecordingNext]_recordingVars /\ Fairness

----------------------------------------------------------------------------
(* As long as a live file works, it is its header and one row for every block
   of its kind that was accepted for the recording and is well formed, in the
   order of arrival; after a failure it is a beginning of that, never
   overwritten (Append, OnSbfBlock). *)
LiveIsTheRecording ==
    \A c \in Channels :
        LET ch == live[c]
            all == <<0>> \o due[c]
        IN  /\ IsPrefix(ch.lines, all)
            /\ ch.opened /\ ch.good /\ ~ch.failed => ch.lines = all

(* What holds at every step: the queue's own invariant, and a live display that
   shows nothing but the recording. *)
RecordingInv == QueueInv /\ LiveIsTheRecording
=============================================================================
