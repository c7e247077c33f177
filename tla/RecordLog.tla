------------------------------ MODULE RecordLog -----------------------------
(***************************************************************************)
(* What a recording promises to whoever hands it items: an accepted item   *)
(* is stored, in its order, unless the medium breaks; after that nothing   *)
(* is stored; and the verdict at the end is clean only for a recording     *)
(* that refused nothing, broke nothing and stored everything.  Neither     *)
(* threads nor a queue, its limit or files are visible here.               *)
(***************************************************************************)
EXTENDS Naturals, Sequences

CONSTANT Items

VARIABLES
    accepted,  \* the items taken, in order
    stored,    \* the items on the medium, in order
    refused,   \* an item was not taken
    broken,    \* the medium failed
    closing,   \* no more items are offered
    verdict    \* none, clean or failed

vars == <<accepted, stored, refused, broken, closing, verdict>>

Init ==
    /\ accepted = << >> /\ stored = << >>
    /\ refused = FALSE /\ broken = FALSE /\ closing = FALSE /\ verdict = "none"

Accept ==
    /\ ~closing /\ \E item \in Items : accepted' = Append(accepted, item)
    /\ UNCHANGED <<stored, refused, broken, closing, verdict>>

Refuse ==
    /\ ~closing /\ refused' = TRUE
    /\ UNCHANGED <<accepted, stored, broken, closing, verdict>>

(* An item may reach the medium although the operation fails. *)
Store ==
    /\ ~broken /\ Len(stored) < Len(accepted) /\ verdict = "none"
    /\ stored' = Append(stored, accepted[Len(stored) + 1])
    /\ broken' \in BOOLEAN
    /\ UNCHANGED <<accepted, refused, closing, verdict>>

Break ==
    /\ ~broken /\ Len(stored) < Len(accepted) /\ verdict = "none" /\ broken' = TRUE
    /\ UNCHANGED <<accepted, stored, refused, closing, verdict>>

Close ==
    /\ ~closing /\ closing' = TRUE
    /\ UNCHANGED <<accepted, stored, refused, broken, verdict>>

(* Ending the medium may fail as well. *)
Finish ==
    /\ closing /\ verdict = "none"
    /\ broken \/ stored = accepted
    /\ verdict' \in IF broken \/ refused THEN {"failed"} ELSE {"clean", "failed"}
    /\ UNCHANGED <<accepted, stored, refused, broken, closing>>

Next == Accept \/ Refuse \/ Store \/ Break \/ Close \/ Finish

Spec == Init /\ [][Next]_vars
=============================================================================
