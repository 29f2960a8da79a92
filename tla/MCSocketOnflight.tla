-------------------------- MODULE MCSocketOnflight ------------------------
(* SocketOnflight for TLC: the constants are given in the .cfg files.      *)
EXTENDS SocketOnflight
=============================================================================
