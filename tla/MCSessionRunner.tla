--------------------------- MODULE MCSessionRunner ---------------------------
(* Model checking of SessionRunner on small rigs.                            *)
EXTENDS SessionRunner
=============================================================================
