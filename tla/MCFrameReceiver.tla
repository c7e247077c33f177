-------------------------- MODULE MCFrameReceiver ---------------------------
(* Bytes: a length that is zero, one that is valid, and the marker. *)
EXTENDS FrameReceiver

MCBytes == {0, 1, 3}
=============================================================================
