---------------------------- MODULE MCEbusCamera ----------------------------
(* Small instances of EbusCamera; the values are in the .cfg files. *)
EXTENDS EbusCamera
=============================================================================
