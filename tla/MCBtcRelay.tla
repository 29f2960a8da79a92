---------------------------- MODULE MCBtcRelay ----------------------------
(* A deposit, a change output and a payout.                                *)
EXTENDS BtcRelay

CONSTANTS d1, c1, p1
=============================================================================
