-------------------------- MODULE MCAsterxRecording --------------------------
(* Small blocks, one that fills most of a file, and one no file can hold.  A
   frame of each kind, one whose optional group would lie in its padding, and
   one whose row is too long. *)
EXTENDS AsterxRecording

Frame(id, length, groups, n, sub) ==
    [id |-> id, size |-> length, sync |-> TRUE, length |-> length, groups |-> groups,
     n |-> n, sub |-> sub, fits |-> TRUE]

MCFrames ==
    {Frame("other", 20, 0, 0, 0), Frame("nav", 68, 1, 0, 0), Frame("status", 40, 0, 2, 4),
     [Frame("nav", 56, 1, 0, 0) EXCEPT !.size = 68],
     [Frame("status", 44, 0, 3, 4) EXCEPT !.fits = FALSE]}
=============================================================================
