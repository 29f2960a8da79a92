-------------------------- MODULE BootstrapPhases --------------------------
(***************************************************************************)
(* What the bootstrap of the relayer promises about bootstrap_states, the  *)
(* map every component reads to know whether it may run                    *)
(* (primitives/src/bootstrap.rs, BootstrapState in primitives/src/eth.rs). *)
(*                                                                         *)
(* Each chain goes through the phases in order.  Two gates move every EVM  *)
(* chain at once: into phase 1-2 when all have flushed, and out of it into *)
(* the socket phases.  Bitcoin only waits for its node.                    *)
(***************************************************************************)
EXTENDS BootstrapState

CONSTANTS Evm, Btc, QueueEnabled

VARIABLE states

\* Without the CCCPRelayQueue pallet nobody would leave the queue phase.
AfterRoundUp == IF QueueEnabled THEN BootstrapSocketRelayQueue
                                ELSE BootstrapSocketRelay

AllEvmAt(phase) == \A c \in Evm : states[c] = phase

MoveChain(c, from, to) ==
    states[c] = from /\ states' = [states EXCEPT ![c] = to]

MoveEvm(from, to) ==
    /\ AllEvmAt(from)
    /\ states' = [c \in Evm \cup {Btc} |-> IF c \in Evm THEN to ELSE states[c]]

PhasesInit == states = [c \in Evm \cup {Btc} |-> NodeSyncing]

PhasesNext ==
    \/ \E c \in Evm :
         \/ MoveChain(c, NodeSyncing, FlushingStalledTransactions)
         \/ MoveChain(c, FlushingStalledTransactions, BootstrapRoundUpPhase1)
         \/ MoveChain(c, BootstrapSocketRelayQueue, BootstrapSocketRelay)
         \/ MoveChain(c, BootstrapSocketRelay, NormalStart)
    \/ MoveEvm(BootstrapRoundUpPhase1, BootstrapRoundUpPhase2)
    \/ MoveEvm(BootstrapRoundUpPhase2, AfterRoundUp)
    \/ MoveChain(Btc, NodeSyncing, BootstrapSocketRelay)
    \/ MoveChain(Btc, BootstrapSocketRelay, NormalStart)

PhasesSpec == PhasesInit /\ [][PhasesNext]_states
=============================================================================
