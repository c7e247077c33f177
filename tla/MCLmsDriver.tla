---------------------------- MODULE MCLmsDriver -----------------------------
(* One variable of each table that tolerates something of its own. *)
EXTENDS LmsDriver

MCIdentity == <<"DItype">>
MCRows == <<[name |-> "LMPoutputRange", strict |-> TRUE], [name |-> "TSCRole", strict |-> FALSE]>>
MCNothing == << >>
MCAudit == <<"SCdevicestate", "SYphas">>
=============================================================================
