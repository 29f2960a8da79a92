--------------------------- MODULE MCEventRelay ---------------------------
(***************************************************************************)
(* EventRelay for TLC: the constants are given in the .cfg files.          *)
(***************************************************************************)
EXTENDS EventRelay
=============================================================================
