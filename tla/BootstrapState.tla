--------------------------- MODULE BootstrapState ---------------------------
(***************************************************************************)
(* The phases of the bootstrap, BootstrapState in primitives/src/eth.rs,   *)
(* in the order the enum's PartialOrd gives them.                          *)
(***************************************************************************)
EXTENDS Naturals

NodeSyncing                 == 0
FlushingStalledTransactions == 1
BootstrapRoundUpPhase1      == 2
BootstrapRoundUpPhase2      == 3
BootstrapSocketRelayQueue   == 4
BootstrapSocketRelay        == 5
NormalStart                 == 6
=============================================================================
