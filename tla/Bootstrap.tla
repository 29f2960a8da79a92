----------------------------- MODULE Bootstrap -----------------------------
(***************************************************************************)
(* The tasks that bootstrap the relayer together, in the mode in which     *)
(* bootstrap_config.is_enabled holds:                                      *)
(*                                                                         *)
(*   EventManager (one per EVM chain)      client/src/eth/events.rs        *)
(*   RoundupEmitter                        periodic/src/roundup_emitter.rs *)
(*   RoundupRelayHandler, with the tasks it spawns and the roundup_barrier *)
(*                       client/src/eth/handlers/roundup_relay_handler.rs  *)
(*   SocketQueuePoller (one per EVM chain) .../socket_queue_poller.rs      *)
(*   SocketRelayHandler (one per EVM chain).../socket_relay_handler.rs     *)
(*   SocketOnflightHandler                 .../socket_onflight_handler.rs  *)
(*   BlockManager (Bitcoin)                client/src/btc/block.rs         *)
(*                                                                         *)
(* They meet in bootstrap_states only.  A task that returns an error is    *)
(* run again by service.rs; every wait is a loop that reads the map until  *)
(* it holds the awaited value.  Rounds are the authority rounds of the     *)
(* Bifrost network; round r is committed when its relayers reached quorum  *)
(* on the Bifrost socket, and is then relayed to each external chain.      *)
(***************************************************************************)
EXTENDS Naturals, BootstrapState

CONSTANTS
    Bifrost,        \* the native chain
    External,       \* the other EVM chains
    Btc,
    QueueEnabled,   \* cccp_relay_queue_enabled
    SelectedIn,     \* rounds whose relayer set this relayer belongs to
    FirstRound,     \* latest round when the process starts
    MaxRound, MaxErrors, MaxPanics, MaxStreamEnds  \* bounds of the model

VARIABLES
    states,         \* bootstrap_states
    latest,         \* Bifrost: authority.latest_round
    committed,      \* Bifrost: last round with a NextAuthorityCommitted event
    extRound,       \* latest_round of each external chain
    emitter,        \* RoundupEmitter: where it is
    current,        \* RoundupEmitter.current_round
    nextPoll,       \* RoundupEmitter: next_poll_round
    roundLogs,      \* bootstrap_roundup_logs: last committed round in the cached logs
    handler,        \* RoundupRelayHandler: where it is
    rounds,         \* RoundupRelayHandler: rounds of the logs still to process
    targets,        \* RoundupRelayHandler: chains the first of them still goes to
    catcher,        \* the task spawned for each external chain
    seen,           \* latest_round that task has just read
    poller,         \* SocketQueuePoller of each chain
    relayer,        \* SocketRelayHandler of each chain
    onflight,       \* SocketOnflightHandler
    errors, panics, streamEnds,  \* bound the failures
    gateRound       \* history: latest when the chains entered phase 1-2

roundVars   == <<latest, committed, extRound>>
emitterVars == <<emitter, current, nextPoll, roundLogs>>
handlerVars == <<handler, rounds, targets, catcher, seen>>
socketVars  == <<poller, relayer, onflight, streamEnds>>
vars == <<states, roundVars, emitterVars, handlerVars, socketVars, errors, panics,
          gateRound>>

Evm == External \cup {Bifrost}
Chains == Evm \cup {Btc}

ASSUME ConstantsAssumption ==
    /\ Bifrost \notin External /\ Btc \notin Evm
    /\ QueueEnabled \in BOOLEAN
    /\ FirstRound \in Nat /\ MaxRound \in Nat

Phases == INSTANCE BootstrapPhases
          WITH Evm <- Evm, Btc <- Btc, QueueEnabled <- QueueEnabled, states <- states

NoLogs == MaxRound + 1      \* the cache is empty

set_bootstrap_state(c, state) == states' = [states EXCEPT ![c] = state]

\* "set all chains except bitcoin to"
SetAllEvm(state) ==
    states' = [c \in Chains |-> IF c \in Evm THEN state ELSE states[c]]

Fail == errors < MaxErrors /\ errors' = errors + 1

---------------------------------------------------------------------------
(* The chains.                                                             *)

NewRound ==
    /\ latest < MaxRound
    /\ latest' = latest + 1
    /\ UNCHANGED <<states, committed, extRound, emitterVars, handlerVars,
                   socketVars, errors, panics, gateRound>>

\* The relayers of the next round reach quorum on the Bifrost socket.
Commit ==
    /\ committed < latest
    /\ committed' = committed + 1
    /\ UNCHANGED <<states, latest, extRound, emitterVars, handlerVars, socketVars,
                   errors, panics, gateRound>>

\* Another relayer relays the next committed round to an external chain.
RelayedByOthers(x) ==
    /\ extRound[x] < committed
    /\ extRound' = [extRound EXCEPT ![x] = @ + 1]
    /\ UNCHANGED <<states, latest, committed, emitterVars, handlerVars, socketVars,
                   errors, panics, gateRound>>

---------------------------------------------------------------------------
(* EventManager::bootstrap_0 and BlockManager.                             *)

\* wait_provider_sync: an RPC error ends the wait like a synced node does.
NodeSynced(c) ==
    /\ states[c] = NodeSyncing
    /\ set_bootstrap_state(c, FlushingStalledTransactions)
    /\ UNCHANGED <<roundVars, emitterVars, handlerVars, socketVars, errors, panics,
                   gateRound>>

\* initial_flushing: an error is logged, the phase advances all the same.
Flushed(c) ==
    /\ states[c] = FlushingStalledTransactions
    /\ set_bootstrap_state(c, BootstrapRoundUpPhase1)
    /\ UNCHANGED <<roundVars, emitterVars, handlerVars, socketVars, errors, panics,
                   gateRound>>

BtcSynced ==
    /\ states[Btc] = NodeSyncing
    /\ set_bootstrap_state(Btc, BootstrapSocketRelay)
    /\ UNCHANGED <<roundVars, emitterVars, handlerVars, socketVars, errors, panics,
                   gateRound>>

\* BlockManager::bootstrap has sent the events of the bootstrap range.
BtcBootstrapped ==
    /\ states[Btc] = BootstrapSocketRelay
    /\ set_bootstrap_state(Btc, NormalStart)
    /\ UNCHANGED <<roundVars, emitterVars, handlerVars, socketVars, errors, panics,
                   gateRound>>

---------------------------------------------------------------------------
(* RoundupEmitter.  An error makes service.rs call run again.              *)

\* run reads the round; much may happen before bootstrap is through.
EmitterRun ==
    /\ emitter = "start"
    /\ current' = latest
    /\ emitter' = IF states[Bifrost] < NormalStart THEN "waiting" ELSE "live"
    /\ UNCHANGED <<states, roundVars, nextPoll, roundLogs, handlerVars, socketVars,
                   errors, panics, gateRound>>

\* Seeded defect: chains that are further on count as ready.
EmitterMayStart_later == \A c \in Evm : states[c] >= BootstrapRoundUpPhase1

EmitterMayStart == \A c \in Evm : states[c] = BootstrapRoundUpPhase1

EmitterReady ==
    /\ emitter = "waiting" /\ EmitterMayStart
    /\ emitter' = "asking"
    /\ UNCHANGED <<states, roundVars, current, nextPoll, roundLogs, handlerVars,
                   socketVars, errors, panics, gateRound>>

\* get_next_poll_round: the round after the last committed one, whether or not
\* a relayer has voted for it already.  The logs are left in the cache.
get_next_poll_round ==
    /\ nextPoll' = committed + 1
    /\ roundLogs' = committed

EmitterAsk ==
    /\ emitter = "asking"
    /\ get_next_poll_round
    /\ emitter' = "deciding"
    /\ UNCHANGED <<states, roundVars, current, handlerVars, socketVars, errors,
                   panics, gateRound>>

\* Seeded defect: escape when the round to vote for is the latest one.
EmitterEscape_early ==
    /\ emitter = "deciding" /\ nextPoll = current
    /\ SetAllEvm(BootstrapRoundUpPhase2)
    /\ gateRound' = latest
    /\ emitter' = "live"
    /\ UNCHANGED <<roundVars, current, nextPoll, roundLogs, handlerVars, socketVars,
                   errors, panics>>

\* The round to vote for has passed the latest one: on to phase 1-2.
EmitterEscape ==
    /\ emitter = "deciding" /\ nextPoll = current + 1
    /\ SetAllEvm(BootstrapRoundUpPhase2)
    /\ gateRound' = latest
    /\ emitter' = "live"
    /\ UNCHANGED <<roundVars, current, nextPoll, roundLogs, handlerVars, socketVars,
                   errors, panics>>

\* Vote for the round (if selected); the quorum is up to all relayers.  With
\* nextPoll > current + 1 neither branch of the loop is taken, for ever.
EmitterPoll ==
    /\ emitter = "deciding" /\ nextPoll <= current
    /\ emitter' = "polling"
    /\ UNCHANGED <<states, roundVars, current, nextPoll, roundLogs, handlerVars,
                   socketVars, errors, panics, gateRound>>

EmitterQuorum ==
    /\ emitter = "polling" /\ nextPoll < committed + 1
    /\ get_next_poll_round
    /\ emitter' = "deciding"
    /\ UNCHANGED <<states, roundVars, current, handlerVars, socketVars, errors,
                   panics, gateRound>>

\* The main loop notices a new round and votes for it.
EmitterRoundUp ==
    /\ emitter = "live" /\ current < latest
    /\ current' = latest
    /\ UNCHANGED <<states, roundVars, emitter, nextPoll, roundLogs, handlerVars,
                   socketVars, errors, panics, gateRound>>

EmitterError ==
    /\ \/ emitter = "deciding" /\ nextPoll <= current
       \/ emitter = "live"
    /\ Fail
    /\ emitter' = "start"
    /\ UNCHANGED <<states, roundVars, current, nextPoll, roundLogs, handlerVars,
                   socketVars, panics, gateRound>>

Emitter == EmitterRun \/ EmitterReady \/ EmitterAsk \/ EmitterEscape \/ EmitterPoll
           \/ EmitterQuorum \/ EmitterRoundUp

---------------------------------------------------------------------------
(* RoundupRelayHandler::bootstrap.                                         *)

\* get_bootstrap_events takes the cached logs, or fetches them.
HandlerFetch ==
    /\ handler = "waiting" /\ states[Bifrost] = BootstrapRoundUpPhase2
    /\ rounds' = 1 .. IF roundLogs # NoLogs THEN roundLogs ELSE committed
    /\ roundLogs' = NoLogs
    /\ handler' = "logs"
    /\ UNCHANGED <<states, roundVars, emitter, current, nextPoll, targets, catcher,
                   seen, socketVars, errors, panics, gateRound>>

\* The round of the log the handler is at; logs come in the order of rounds.
AtRound(r) == r \in rounds /\ \A s \in rounds : r <= s

\* process_confirmed_log: a round this relayer was not selected for is skipped.
HandlerLog ==
    /\ handler = "logs" /\ targets = {}
    /\ \E r \in rounds :
         /\ AtRound(r)
         /\ IF r - 1 \in SelectedIn
            THEN targets' = External /\ handler' = "sending" /\ UNCHANGED rounds
            ELSE rounds' = rounds \ {r} /\ UNCHANGED <<targets, handler>>
    /\ UNCHANGED <<states, roundVars, emitterVars, catcher, seen, socketVars, errors,
                   panics, gateRound>>

\* broadcast_roundup, one chain that has the round or can take it:
\* sync_send_transaction returns Ok also after a timeout, so the round may not
\* have landed.
HandlerSend ==
    /\ handler = "sending"
    /\ \E r \in rounds, x \in targets :
         /\ AtRound(r) /\ r <= extRound[x] + 1
         /\ \/ UNCHANGED extRound
            \/ r = extRound[x] + 1 /\ extRound' = [extRound EXCEPT ![x] = r]
         /\ targets' = targets \ {x}
    /\ UNCHANGED <<states, latest, committed, emitterVars, handler, rounds, catcher,
                   seen, socketVars, errors, panics, gateRound>>

HandlerSent ==
    /\ handler = "sending" /\ targets = {}
    /\ rounds' = {r \in rounds : ~AtRound(r)}
    /\ handler' = "logs"
    /\ UNCHANGED <<states, roundVars, emitterVars, targets, catcher, seen, socketVars,
                   errors, panics, gateRound>>

\* The authority contract accepts the next round only: fill_gas fails, the error
\* is returned and run starts over, with the cache gone.
HandlerReverted ==
    /\ handler = "sending"
    /\ \E r \in rounds, x \in targets : AtRound(r) /\ r > extRound[x] + 1
    /\ handler' = "waiting" /\ rounds' = {} /\ targets' = {}
    /\ UNCHANGED <<states, roundVars, emitterVars, catcher, seen, socketVars, errors,
                   panics, gateRound>>

\* So does the error of any RPC.
HandlerError ==
    /\ handler \in {"logs", "sending"} /\ rounds # {}
    /\ Fail
    /\ handler' = "waiting" /\ rounds' = {} /\ targets' = {}
    /\ UNCHANGED <<states, roundVars, emitterVars, catcher, seen, socketVars, panics,
                   gateRound>>

\* wait_if_latest_round spawns a task per external chain.
HandlerSpawn ==
    /\ handler = "logs" /\ rounds = {}
    /\ catcher' = [x \in External |-> "reading"]
    /\ handler' = "barrier"
    /\ UNCHANGED <<states, roundVars, emitterVars, rounds, targets, seen, socketVars,
                   errors, panics, gateRound>>

\* The two operands of the loop condition are two RPCs.
CatcherRead(x) ==
    /\ catcher[x] = "reading"
    /\ seen' = [seen EXCEPT ![x] = extRound[x]]
    /\ catcher' = [catcher EXCEPT ![x] = "comparing"]
    /\ UNCHANGED <<states, roundVars, emitterVars, handler, rounds, targets,
                   socketVars, errors, panics, gateRound>>

CatcherCompare(x) ==
    /\ catcher[x] = "comparing"
    /\ catcher' = [catcher EXCEPT ![x] = IF seen[x] < latest THEN "reading"
                                                             ELSE "arrived"]
    /\ UNCHANGED <<states, roundVars, emitterVars, handler, rounds, targets, seen,
                   socketVars, errors, panics, gateRound>>

\* unwrap of a failed RPC: the task is gone, and with it a party of the barrier.
CatcherPanic(x) ==
    /\ catcher[x] \in {"reading", "comparing"} /\ panics < MaxPanics
    /\ catcher' = [catcher EXCEPT ![x] = "dead"]
    /\ panics' = panics + 1
    /\ UNCHANGED <<states, roundVars, emitterVars, handler, rounds, targets, seen,
                   socketVars, errors, gateRound>>

\* Seeded defect: the barrier counts one external chain only.
BarrierComplete_one == External = {} \/ \E x \in External : catcher[x] = "arrived"

\* roundup_barrier has one party per external chain, and the handler.
BarrierComplete == \A x \in External : catcher[x] = "arrived"

HandlerRelease ==
    /\ handler = "barrier" /\ BarrierComplete
    /\ SetAllEvm(IF QueueEnabled THEN BootstrapSocketRelayQueue
                                 ELSE BootstrapSocketRelay)
    /\ handler' = "live"
    /\ UNCHANGED <<roundVars, emitterVars, rounds, targets, catcher, seen, socketVars,
                   errors, panics, gateRound>>

Handler == HandlerFetch \/ HandlerLog \/ HandlerSend \/ HandlerSent
           \/ HandlerReverted \/ HandlerSpawn \/ HandlerRelease

Catcher(x) == CatcherRead(x) \/ CatcherCompare(x)

---------------------------------------------------------------------------
(* The socket phases of each EVM chain.                                    *)

\* The rest of the state, for the actions of this section.
notSocket == <<roundVars, emitterVars, handlerVars, panics, gateRound>>

\* SocketQueuePoller::bootstrap; an error of get_bootstrap_events starts it
\* over, the errors of single logs are logged.
PollerStart(c) ==
    /\ QueueEnabled
    /\ poller[c] = "waiting" /\ states[c] = BootstrapSocketRelayQueue
    /\ poller' = [poller EXCEPT ![c] = "logs"]
    /\ UNCHANGED <<states, relayer, onflight, streamEnds, errors, notSocket>>

PollerDone(c) ==
    /\ poller[c] = "logs"
    /\ set_bootstrap_state(c, BootstrapSocketRelay)
    /\ poller' = [poller EXCEPT ![c] = "live"]
    /\ UNCHANGED <<relayer, onflight, streamEnds, errors, notSocket>>

PollerError(c) ==
    /\ poller[c] = "logs"
    /\ Fail
    /\ poller' = [poller EXCEPT ![c] = "waiting"]
    /\ UNCHANGED <<states, relayer, onflight, streamEnds, notSocket>>

\* SocketRelayHandler::bootstrap; any error starts it over.
RelayerStart(c) ==
    /\ relayer[c] = "waiting" /\ states[c] = BootstrapSocketRelay
    /\ relayer' = [relayer EXCEPT ![c] = "logs"]
    /\ UNCHANGED <<states, poller, onflight, streamEnds, errors, notSocket>>

RelayerDone(c) ==
    /\ relayer[c] = "logs"
    /\ set_bootstrap_state(c, NormalStart)
    /\ relayer' = [relayer EXCEPT ![c] = "live"]
    /\ UNCHANGED <<poller, onflight, streamEnds, errors, notSocket>>

RelayerError(c) ==
    /\ relayer[c] = "logs"
    /\ Fail
    /\ relayer' = [relayer EXCEPT ![c] = "waiting"]
    /\ UNCHANGED <<states, poller, onflight, streamEnds, notSocket>>

\* SocketOnflightHandler::bootstrap polls the state of the Bifrost chain for
\* one value; what recovery returns does not matter.
OnflightRecover ==
    /\ QueueEnabled
    /\ onflight \in {"waiting", "stopped"} /\ states[Bifrost] = BootstrapSocketRelay
    /\ onflight' = "streaming"
    /\ UNCHANGED <<states, poller, relayer, streamEnds, errors, notSocket>>

\* The block stream ends or fails: run returns, and is called again.
OnflightStopped ==
    /\ onflight = "streaming" /\ streamEnds < MaxStreamEnds
    /\ streamEnds' = streamEnds + 1
    /\ onflight' = "stopped"
    /\ UNCHANGED <<states, poller, relayer, errors, notSocket>>

Poller(c) == PollerStart(c) \/ PollerDone(c)
Relayer(c) == RelayerStart(c) \/ RelayerDone(c)

---------------------------------------------------------------------------
Init ==
    /\ states = [c \in Chains |-> NodeSyncing]
    /\ latest = FirstRound /\ committed \in 1 .. FirstRound
    /\ extRound \in [External -> 0 .. committed]
    /\ emitter = "start" /\ current = 0 /\ nextPoll = 0 /\ roundLogs = NoLogs
    /\ handler = "waiting" /\ rounds = {} /\ targets = {}
    /\ catcher = [x \in External |-> "none"] /\ seen = [x \in External |-> 0]
    /\ poller = [c \in Evm |-> "waiting"] /\ relayer = [c \in Evm |-> "waiting"]
    /\ onflight = "waiting"
    /\ errors = 0 /\ panics = 0 /\ streamEnds = 0
    /\ gateRound = 0

World == NewRound \/ Commit \/ \E x \in External : RelayedByOthers(x)

Managers ==
    \/ \E c \in Evm : NodeSynced(c) \/ Flushed(c)
    \/ BtcSynced \/ BtcBootstrapped

Failures ==
    \/ EmitterError \/ HandlerError
    \/ \E x \in External : CatcherPanic(x)
    \/ \E c \in Evm : PollerError(c) \/ RelayerError(c)

Next ==
    \/ World \/ Managers \/ Emitter \/ Handler
    \/ \E x \in External : Catcher(x)
    \/ \E c \in Evm : Poller(c) \/ Relayer(c)
    \/ OnflightRecover \/ OnflightStopped
    \/ Failures

Spec == Init /\ [][Next]_vars

\* Every task is scheduled, the nodes sync, and the relayers of a round reach
\* quorum and relay it; no failure has to happen, nor a new round.
Fairness ==
    /\ WF_vars(Commit) /\ WF_vars(Emitter) /\ WF_vars(Handler)
    /\ WF_vars(BtcSynced \/ BtcBootstrapped) /\ WF_vars(OnflightRecover)
    /\ \A x \in External : WF_vars(RelayedByOthers(x)) /\ WF_vars(Catcher(x))
    /\ \A c \in Evm : /\ WF_vars(NodeSynced(c) \/ Flushed(c))
                      /\ WF_vars(Poller(c)) /\ WF_vars(Relayer(c))

FairSpec == Spec /\ Fairness

---------------------------------------------------------------------------
(* Properties.                                                             *)

\* Every variable keeps its type.
TypeOK ==
    /\ states \in [Chains -> NodeSyncing .. NormalStart]
    /\ latest \in Nat /\ committed \in Nat /\ extRound \in [External -> Nat]
    /\ emitter \in {"start", "waiting", "asking", "deciding", "polling", "live"}
    /\ current \in Nat /\ nextPoll \in Nat /\ roundLogs \in Nat
    /\ handler \in {"waiting", "logs", "sending", "barrier", "live"}
    /\ rounds \subseteq Nat /\ targets \subseteq External
    /\ catcher \in [External -> {"none", "reading", "comparing", "arrived", "dead"}]
    /\ seen \in [External -> Nat]
    /\ poller \in [Evm -> {"waiting", "logs", "live"}]
    /\ relayer \in [Evm -> {"waiting", "logs", "live"}]
    /\ onflight \in {"waiting", "streaming", "stopped"}
    /\ gateRound \in Nat

\* bootstrap_states moves as BootstrapPhases says: whatever fails and is run
\* again, no task sets a phase a second time, moves a chain back, or lets one
\* chain through a gate of the round-up phases before the others
\* (set_bootstrap_state and the loops "set all chains except bitcoin").
MovesInPhases == Phases!PhasesSpec

\* No chain enters the socket phases before every external chain has the round
\* that was the latest on Bifrost when phase 1-2 began, although each catcher
\* compares two rounds it read at different times (wait_if_latest_round and the
\* roundup_barrier).
SocketsAfterRoundUp ==
    (\E c \in Evm : states[c] > BootstrapRoundUpPhase2) =>
      \A x \in External : extRound[x] >= gateRound

Undisturbed == latest = FirstRound /\ panics = 0

\* The bootstrap ends: every chain reaches NormalStart, whatever task fails and is
\* run again, if no new round begins meanwhile (the emitter may then never leave its
\* loop) and no catcher panics (roundup_barrier then misses a party).
Completes == []Undisturbed => <>(\A c \in Chains : states[c] = NormalStart)
=============================================================================
