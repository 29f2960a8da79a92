----------------------------- MODULE Transfer -----------------------------
(***************************************************************************)
(* What the bridge promises of a request, whatever the relayers do: it is  *)
(* executed or reverted on the destination chain, once, and the source     *)
(* chain then records the same outcome, once (the statuses of              *)
(* SocketEventStatus, primitives/src/eth.rs).                              *)
(***************************************************************************)
CONSTANT Requests

VARIABLE outcome

Init == outcome = [q \in Requests |-> "none"]

Move(q, from, to) == outcome[q] = from /\ outcome' = [outcome EXCEPT ![q] = to]

Next ==
    \E q \in Requests :
        \/ Move(q, "none", "requested")
        \/ Move(q, "requested", "executed")
        \/ Move(q, "requested", "reverted")
        \/ Move(q, "executed", "committed")
        \/ Move(q, "reverted", "rollbacked")

TransferSpec == Init /\ [][Next]_outcome
=============================================================================
