-------------------------- MODULE SocketMessages --------------------------
(***************************************************************************)
(* What a relayer derives from a socket message alone: where its relay     *)
(* goes, what is signed for it, whether it can be rolled back              *)
(* (client/src/eth/handlers/socket_relay_handler.rs).  Of the message only *)
(* the status and the kind of its sequence matter: inbound sequences go to *)
(* Bifrost, outbound ones leave it, and the chain at the other end is an   *)
(* EVM chain or Bitcoin.                                                   *)
(***************************************************************************)
Kinds == {"inbound", "outbound", "btcInbound", "btcOutbound"}

\* SocketEventStatus
Statuses == {"None", "Requested", "Failed", "Executed", "Reverted", "Accepted",
             "Rejected", "Committed", "Rollbacked"}

is_inbound_sequence(kind) == kind \in {"inbound", "btcInbound"}

Bitcoin(kind) == kind \in {"btcInbound", "btcOutbound"}

BifrostSide(kind) == IF is_inbound_sequence(kind) THEN "dst" ELSE "src"

\* system_clients has an EthClient for the chain at this end.
HasClient(kind, side) == Bitcoin(kind) => side = BifrostSide(kind)

---------------------------------------------------------------------------

\* Seeded defect: a reverted request is accepted.
build_inbound_signatures_swapped(status) ==
    CASE status \in {"Executed", "Reverted"} -> "Accepted"
      [] OTHER -> status

\* The status a poll is counted for by the socket of Bifrost: the status of the
\* message, or the one the relayer signed.
build_inbound_signatures(status) ==
    CASE status = "Executed" -> "Accepted"
      [] status = "Reverted" -> "Rejected"
      [] OTHER -> status

build_outbound_signatures(status) ==
    CASE status = "Requested" -> "Accepted"
      [] OTHER -> status

Ballot(kind, status) ==
    IF is_inbound_sequence(kind) THEN build_inbound_signatures(status)
                                 ELSE build_outbound_signatures(status)

\* The statuses that do not make the relay panic.
Relayable(kind) ==
    {"Requested", "Executed", "Reverted", "Accepted", "Rejected"}
        \cup (IF is_inbound_sequence(kind) THEN {"Failed"} ELSE {})

\* Seeded defect: a rejection goes to the destination.
get_inbound_relay_tx_chain_id_rejected(status) ==
    IF status = "Accepted" THEN "src" ELSE "dst"

get_inbound_relay_tx_chain_id(status) ==
    IF status \in {"Accepted", "Rejected"} THEN "src" ELSE "dst"

get_outbound_relay_tx_chain_id(status) ==
    IF status \in {"Accepted", "Rejected"} THEN "dst" ELSE "src"

RelayTxChain(kind, status) ==
    IF is_inbound_sequence(kind) THEN get_inbound_relay_tx_chain_id(status)
                                 ELSE get_outbound_relay_tx_chain_id(status)

\* is_executable: a relay the emitter has to follow.
is_executable(kind, status) ==
    status = IF is_inbound_sequence(kind) THEN "Requested" ELSE "Accepted"

\* The status that try_rollback polls for it.
RollbackStatus(kind) == IF is_inbound_sequence(kind) THEN "Failed" ELSE "Rejected"
=============================================================================
