---------------------------- MODULE RotatingFile ----------------------------
(***************************************************************************)
(* RotatingFileWriter of common/include/file_writer.h, with the hard cap   *)
(* per file that SbfWriter asks for.  The state of a writer is the record  *)
(* below; because opening, writing and flushing may fail, an operation is  *)
(* the set of the states it may leave behind.  Every operation of the code *)
(* returns !failed_, so the verdict is part of the state.                  *)
(***************************************************************************)
EXTENDS Naturals, Sequences

CONSTANT
    FileCap    \* Options::max_file_bytes

ASSUME FileCapAssumption == FileCap \in Nat \ {0}

(* `sizes` are the bytes of every file opened so far, the current one last; *)
(* `wrote` says whether the last Append reached the stream.                 *)
NoFile == [open |-> FALSE, failed |-> FALSE, wrote |-> FALSE, sizes |-> << >>]

CurrentBytes(f) == f.sizes[Len(f.sizes)]

(* The final flush or the close may report what earlier writes did not. *)
CloseCurrent(f) ==
    IF f.open THEN {[f EXCEPT !.open = FALSE, !.failed = @ \/ bad] : bad \in BOOLEAN}
              ELSE {f}

OpenNext(f) ==
    UNION {IF g.failed THEN {g}
           ELSE {[g EXCEPT !.failed = TRUE],
                 [g EXCEPT !.open = TRUE, !.sizes = Append(@, 0)]} : g \in CloseCurrent(f)}

(* Rotation by size or, at any moment, by age. *)
RotateIfNeeded(f) ==
    OpenNext(f) \cup (IF CurrentBytes(f) >= FileCap THEN {} ELSE {f})

Put(f, size) ==
    {[f EXCEPT !.failed = TRUE]}
        \cup RotateIfNeeded([f EXCEPT !.wrote = TRUE, !.sizes[Len(f.sizes)] = @ + size])

(* Rotate first when the block would push the file past the cap; a block   *)
(* larger than the cap fails the writer.                                   *)
PutWithinCap(f, size) ==
    IF size > FileCap THEN {[f EXCEPT !.failed = TRUE]}
    ELSE UNION {IF g.failed THEN {g} ELSE Put(g, size) :
                    g \in IF CurrentBytes(f) > FileCap - size THEN OpenNext(f) ELSE {f}}

AppendBlock(f, size) ==
    LET fresh == [f EXCEPT !.wrote = FALSE]
    IN  IF f.failed THEN {fresh}
        ELSE UNION {IF g.failed THEN {g} ELSE PutWithinCap(g, size) :
                        g \in IF f.open THEN {fresh} ELSE OpenNext(fresh)}
=============================================================================
