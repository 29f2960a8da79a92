--------------------------- MODULE MCVaultKeys ---------------------------
(* One user.                                                               *)
EXTENDS VaultKeys

CONSTANTS u1
=============================================================================
