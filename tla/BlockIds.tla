------------------------------ MODULE BlockIds ------------------------------
(***************************************************************************)
(* The continuity accounting of GVSP block identifiers                     *)
(* (ebus_driver/include/ebus_driver/block_ids.h).  Identifiers of the      *)
(* 16-bit mode run through 1..65535 and wrap to 1, 0 is never sent; the    *)
(* extended mode counts without wrapping.  The cycle length is a parameter *)
(* so that short cycles can be checked; the code's value is 65535.         *)
(***************************************************************************)
EXTENDS Integers

CONSTANTS
    Cycle,     \* number of identifiers of the 16-bit mode, 65535 in the code
    Extended   \* the mode that the camera reports

ASSUME CycleAssumption == Cycle \in Nat /\ Cycle >= 3 /\ Cycle % 2 = 1
ASSUME ExtendedAssumption == Extended \in BOOLEAN

(* 32767 in the code: a larger forward distance is ambiguous. *)
Half == Cycle \div 2

(* last_ and have_last_ together: no identifier seen yet. *)
NoId == 0

Anomaly(last) == [gap |-> 0, anomaly |-> TRUE, last |-> last]

(* Identifiers skipped between last and id, going forward round the cycle. *)
Distance(last, id) ==
    LET expected == IF last = Cycle THEN 1 ELSE last + 1
    IN  (id + Cycle - expected) % Cycle

(* BlockIds::Observe: the gap before id, whether id is out of order or
   ambiguous, and the identifier remembered. *)
Observe(last, id) ==
    IF id = 0 \/ (~Extended /\ id > Cycle) THEN Anomaly(last)
    ELSE IF last = NoId THEN [gap |-> 0, anomaly |-> FALSE, last |-> id]
    ELSE IF Extended
         THEN IF id <= last THEN Anomaly(last)
              ELSE [gap |-> id - last - 1, anomaly |-> FALSE, last |-> id]
         ELSE IF Distance(last, id) > Half THEN Anomaly(last)
              ELSE [gap |-> Distance(last, id), anomaly |-> FALSE, last |-> id]

(* The identifier of the n-th block after the one called first.            *)
IdAfter(first, n) ==
    IF Extended THEN first + n ELSE ((first - 1 + n) % Cycle) + 1

=============================================================================
