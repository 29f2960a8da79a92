---------------------------- MODULE MCTxSender ----------------------------
(* Two heartbeats and one request of sync_send_transaction.                *)
EXTENDS TxSender

CONSTANTS s, h1, h2

MCBeats == <<h1, h2>>
=============================================================================
