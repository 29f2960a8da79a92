-------------------------- MODULE BootstrapProofs --------------------------
(***************************************************************************)
(* Proofs about Bootstrap, for any number of external chains and any       *)
(* bounds: its types, that it implements BootstrapPhases, and that the     *)
(* socket phases begin only when the round-up has reached every chain.     *)
(*                                                                         *)
(* And about Oracle, for any symbols, sources, volumes and quotes: the     *)
(* prices fed stay among the quotes, and a hook is charged a fair fee.     *)
(***************************************************************************)
EXTENDS Bootstrap, Oracle, FiniteSetTheorems, WellFoundedInduction, TLAPS

USE DEF NodeSyncing, FlushingStalledTransactions, BootstrapRoundUpPhase1,
        BootstrapRoundUpPhase2, BootstrapSocketRelayQueue, BootstrapSocketRelay,
        NormalStart,
        Phases!NodeSyncing, Phases!FlushingStalledTransactions,
        Phases!BootstrapRoundUpPhase1, Phases!BootstrapRoundUpPhase2,
        Phases!BootstrapSocketRelayQueue, Phases!BootstrapSocketRelay,
        Phases!NormalStart

\* The initial state is well typed.
LEMMA InitType == Init => TypeOK
BY ConstantsAssumption DEF Init, TypeOK, NoLogs, Chains

\* Every step of every task keeps the types.
LEMMA StepType == TypeOK /\ [Next]_vars => TypeOK'
<1> SUFFICES ASSUME TypeOK, [Next]_vars PROVE TypeOK'
  OBVIOUS
<1> USE ConstantsAssumption DEF TypeOK
<1>1. CASE World
  <2>1. CASE NewRound
    BY <2>1 DEF NewRound, emitterVars, handlerVars, socketVars
  <2>2. CASE Commit
    BY <2>2 DEF Commit, emitterVars, handlerVars, socketVars
  <2>3. ASSUME NEW x \in External, RelayedByOthers(x) PROVE TypeOK'
    BY <2>3 DEF RelayedByOthers, emitterVars, handlerVars, socketVars
  <2> QED BY <1>1, <2>1, <2>2, <2>3 DEF World
<1>2. CASE Managers
  <2>1. ASSUME NEW c \in Chains, NEW s \in NodeSyncing .. NormalStart,
               set_bootstrap_state(c, s)
        PROVE  states' \in [Chains -> NodeSyncing .. NormalStart]
    BY <2>1 DEF set_bootstrap_state
  <2>2. states' \in [Chains -> NodeSyncing .. NormalStart]
    BY <1>2, <2>1 DEF Managers, NodeSynced, Flushed, BtcSynced, BtcBootstrapped, Chains
  <2>3. UNCHANGED <<roundVars, emitterVars, handlerVars, socketVars, gateRound>>
    BY <1>2 DEF Managers, NodeSynced, Flushed, BtcSynced, BtcBootstrapped
  <2> QED BY <2>2, <2>3 DEF roundVars, emitterVars, handlerVars, socketVars
<1>3. CASE Emitter \/ EmitterError
  <2> USE DEF roundVars, handlerVars, socketVars
  <2>1. CASE EmitterRun
    BY <2>1 DEF EmitterRun
  <2>2. CASE EmitterReady
    BY <2>2 DEF EmitterReady
  <2>3. CASE EmitterAsk
    BY <2>3 DEF EmitterAsk, get_next_poll_round
  <2>4. CASE EmitterEscape
    BY <2>4 DEF EmitterEscape, SetAllEvm
  <2>5. CASE EmitterPoll
    BY <2>5 DEF EmitterPoll
  <2>6. CASE EmitterQuorum
    BY <2>6 DEF EmitterQuorum, get_next_poll_round
  <2>7. CASE EmitterRoundUp
    BY <2>7 DEF EmitterRoundUp
  <2>8. CASE EmitterError
    BY <2>8 DEF EmitterError, Fail
  <2> QED BY <1>3, <2>1, <2>2, <2>3, <2>4, <2>5, <2>6, <2>7, <2>8 DEF Emitter
<1>4. CASE Handler \/ HandlerError
  <2> USE DEF roundVars, emitterVars, socketVars
  <2>1. CASE HandlerFetch
    BY <2>1 DEF HandlerFetch, NoLogs
  <2>2. CASE HandlerLog
    BY <2>2, Zenon DEF HandlerLog
  <2>3. CASE HandlerSend
    BY <2>3 DEF HandlerSend
  <2>4. CASE HandlerSent
    BY <2>4, Zenon DEF HandlerSent
  <2>5. CASE HandlerReverted \/ HandlerError
    BY <2>5 DEF HandlerReverted, HandlerError, Fail
  <2>6. CASE HandlerSpawn
    BY <2>6 DEF HandlerSpawn
  <2>7. CASE HandlerRelease
    BY <2>7 DEF HandlerRelease, SetAllEvm
  <2> QED BY <1>4, <2>1, <2>2, <2>3, <2>4, <2>5, <2>6, <2>7 DEF Handler
<1>5. ASSUME NEW x \in External, Catcher(x) \/ CatcherPanic(x) PROVE TypeOK'
  BY <1>5, Zenon DEF Catcher, CatcherRead, CatcherCompare, CatcherPanic, roundVars,
              emitterVars, socketVars
<1>6. ASSUME NEW c \in Evm,
             Poller(c) \/ Relayer(c) \/ PollerError(c) \/ RelayerError(c)
      PROVE  TypeOK'
  <2> c \in Chains
    BY DEF Chains
  <2> USE DEF notSocket, roundVars, emitterVars, handlerVars
  <2>1. CASE PollerStart(c) \/ PollerError(c)
    BY <2>1, Zenon DEF PollerStart, PollerError, Fail
  <2>2. CASE PollerDone(c)
    BY <2>2 DEF PollerDone, set_bootstrap_state
  <2>3. CASE RelayerStart(c) \/ RelayerError(c)
    BY <2>3, Zenon DEF RelayerStart, RelayerError, Fail
  <2>4. CASE RelayerDone(c)
    BY <2>4 DEF RelayerDone, set_bootstrap_state
  <2> QED BY <1>6, <2>1, <2>2, <2>3, <2>4 DEF Poller, Relayer
<1>7. CASE OnflightRecover \/ OnflightStopped
  BY <1>7, Zenon DEF OnflightRecover, OnflightStopped, notSocket, roundVars, emitterVars,
              handlerVars
<1>8. CASE UNCHANGED vars
  BY <1>8 DEF vars, roundVars, emitterVars, handlerVars, socketVars
<1> QED
  BY <1>1, <1>2, <1>3, <1>4, <1>5, <1>6, <1>7, <1>8 DEF Next, Failures

\* The variables keep their types, for any number of external chains.
THEOREM TypeCorrect == Spec => []TypeOK
BY InitType, StepType, PTL DEF Spec

---------------------------------------------------------------------------
(* The gates.  A task that is past its wait still finds the phase it       *)
(* waited for: that is what makes its unconditional write a move of        *)
(* BootstrapPhases.                                                        *)

GateInv ==
    /\ \A c, d \in Evm :
         states[c] = BootstrapRoundUpPhase2 => states[d] = BootstrapRoundUpPhase2
    /\ emitter \in {"asking", "deciding", "polling"} =>
         \A c \in Evm : states[c] = BootstrapRoundUpPhase1
    /\ handler \in {"logs", "sending", "barrier"} =>
         \A c \in Evm : states[c] = BootstrapRoundUpPhase2
    /\ handler = "live" => \A c \in Evm : states[c] > BootstrapRoundUpPhase2
    /\ \A c \in Evm : poller[c] = "logs" => states[c] = BootstrapSocketRelayQueue
    /\ \A c \in Evm : relayer[c] = "logs" => states[c] = BootstrapSocketRelay

\* A step that moves no phase and takes no task past a wait keeps GateInv.
LEMMA GateStutter ==
    ASSUME GateInv, UNCHANGED <<states, emitter, handler, poller, relayer>>
    PROVE  GateInv'
BY DEF GateInv

\* Every step keeps GateInv, and moves bootstrap_states as BootstrapPhases does.
LEMMA StepGate ==
    TypeOK /\ GateInv /\ [Next]_vars => GateInv' /\ [Phases!PhasesNext]_states
<1> SUFFICES ASSUME TypeOK, GateInv, [Next]_vars
             PROVE  GateInv' /\ [Phases!PhasesNext]_states
  OBVIOUS
<1> USE DEF TypeOK
<1> Bifrost \in Evm /\ Evm \subseteq Chains /\ Btc \in Chains /\ Btc \notin Evm
    /\ External \subseteq Evm
  BY ConstantsAssumption DEF Evm, Chains
<1>1. CASE World
  <2>1. UNCHANGED <<states, emitter, handler, poller, relayer>>
    BY <1>1 DEF World, NewRound, Commit, RelayedByOthers, emitterVars, handlerVars,
                socketVars
  <2> QED BY <2>1, GateStutter
<1>2. CASE Managers
  <2>1. UNCHANGED <<emitter, handler, poller, relayer>>
    BY <1>2 DEF Managers, NodeSynced, Flushed, BtcSynced, BtcBootstrapped,
                emitterVars, handlerVars, socketVars
  <2>2. ASSUME NEW c \in Evm, NodeSynced(c) \/ Flushed(c)
        PROVE  GateInv' /\ Phases!PhasesNext
    <3>1. /\ states[c] < BootstrapRoundUpPhase1
          /\ \A d \in Evm \ {c} : states'[d] = states[d]
          /\ states'[c] <= BootstrapRoundUpPhase1
      BY <2>2 DEF NodeSynced, Flushed, set_bootstrap_state
    <3>2. GateInv'
      BY <2>1, <3>1 DEF GateInv
    <3>3. Phases!PhasesNext
      BY <2>2 DEF NodeSynced, Flushed, set_bootstrap_state, Phases!PhasesNext,
                  Phases!MoveChain
    <3> QED BY <3>2, <3>3
  <2>3. CASE BtcSynced \/ BtcBootstrapped
    <3>1. \A d \in Evm : states'[d] = states[d]
      BY <2>3 DEF BtcSynced, BtcBootstrapped, set_bootstrap_state
    <3>2. GateInv'
      BY <2>1, <3>1 DEF GateInv
    <3>3. Phases!PhasesNext
      BY <2>3 DEF BtcSynced, BtcBootstrapped, set_bootstrap_state, Phases!PhasesNext,
                  Phases!MoveChain
    <3> QED BY <3>2, <3>3
  <2> QED BY <1>2, <2>2, <2>3 DEF Managers
<1>3. CASE Emitter \/ EmitterError
  <2>1. UNCHANGED <<handler, poller, relayer>>
    BY <1>3 DEF Emitter, EmitterRun, EmitterReady, EmitterAsk, EmitterEscape,
                EmitterPoll, EmitterQuorum, EmitterRoundUp, EmitterError,
                handlerVars, socketVars
  <2>2. CASE EmitterEscape
    <3>1. \A c \in Evm : states[c] = BootstrapRoundUpPhase1
      BY <2>2 DEF EmitterEscape, GateInv
    <3>2. /\ \A c \in Evm : states'[c] = BootstrapRoundUpPhase2
          /\ emitter' = "live"
      BY <2>2 DEF EmitterEscape, SetAllEvm
    <3>3. GateInv'
      BY <2>1, <3>1, <3>2 DEF GateInv
    <3>4. Phases!PhasesNext
      BY <2>2, <3>1 DEF EmitterEscape, SetAllEvm, Phases!PhasesNext, Phases!MoveEvm,
                        Phases!AllEvmAt, Chains
    <3> QED BY <3>3, <3>4
  <2>3. CASE EmitterReady
    BY <2>1, <2>3 DEF EmitterReady, EmitterMayStart, GateInv
  <2>4. CASE ~EmitterEscape /\ ~EmitterReady
    <3>1. /\ states' = states
          /\ emitter' \in {"asking", "deciding", "polling"} =>
               emitter \in {"asking", "deciding", "polling"}
      BY <1>3, <2>4
      DEF Emitter, EmitterRun, EmitterAsk, EmitterPoll, EmitterQuorum, EmitterRoundUp,
          EmitterError
    <3> QED BY <2>1, <3>1 DEF GateInv
  <2> QED BY <2>2, <2>3, <2>4
<1>4. CASE Handler \/ HandlerError
  <2>1. UNCHANGED <<emitter, poller, relayer>>
    BY <1>4 DEF Handler, HandlerFetch, HandlerLog, HandlerSend, HandlerSent,
                HandlerReverted, HandlerSpawn, HandlerRelease, HandlerError,
                emitterVars, socketVars
  <2>2. CASE HandlerRelease
    <3>1. \A c \in Evm : states[c] = BootstrapRoundUpPhase2
      BY <2>2 DEF HandlerRelease, GateInv
    <3>2. /\ \A c \in Evm : states'[c] > BootstrapRoundUpPhase2
          /\ handler' = "live"
      BY <2>2 DEF HandlerRelease, SetAllEvm
    <3>3. GateInv'
      BY <2>1, <3>1, <3>2 DEF GateInv
    <3>4. Phases!PhasesNext
      BY <2>2, <3>1 DEF HandlerRelease, SetAllEvm, Phases!PhasesNext, Phases!MoveEvm,
                        Phases!AllEvmAt, Phases!AfterRoundUp, Chains
    <3> QED BY <3>3, <3>4
  <2>3. CASE HandlerFetch
    <3>1. states' = states /\ handler' = "logs" /\ states[Bifrost] = BootstrapRoundUpPhase2
      BY <2>3 DEF HandlerFetch
    <3> QED BY <2>1, <3>1 DEF GateInv
  <2>4. CASE ~HandlerRelease /\ ~HandlerFetch
    <3>1. /\ states' = states
          /\ handler' \in {"logs", "sending", "barrier"} =>
               handler \in {"logs", "sending", "barrier"}
          /\ handler' # "live"
      BY <1>4, <2>4
      DEF Handler, HandlerLog, HandlerSend, HandlerSent, HandlerReverted, HandlerSpawn,
          HandlerError
    <3> QED BY <2>1, <3>1 DEF GateInv
  <2> QED BY <2>2, <2>3, <2>4
<1>5. ASSUME NEW x \in External, Catcher(x) \/ CatcherPanic(x)
      PROVE  GateInv' /\ [Phases!PhasesNext]_states
  <2>1. UNCHANGED <<states, emitter, handler, poller, relayer>>
    BY <1>5 DEF Catcher, CatcherRead, CatcherCompare, CatcherPanic, emitterVars,
                socketVars
  <2> QED BY <2>1, GateStutter
<1>6. ASSUME NEW c \in Evm,
             Poller(c) \/ Relayer(c) \/ PollerError(c) \/ RelayerError(c)
      PROVE  GateInv' /\ [Phases!PhasesNext]_states
  <2>1. UNCHANGED <<emitter, handler>>
    BY <1>6 DEF Poller, PollerStart, PollerDone, PollerError, Relayer, RelayerStart,
                RelayerDone, RelayerError, notSocket, emitterVars, handlerVars
  <2>2. CASE PollerStart(c) \/ PollerError(c)
    BY <2>1, <2>2 DEF PollerStart, PollerError, GateInv
  <2>3. CASE RelayerStart(c) \/ RelayerError(c)
    BY <2>1, <2>3 DEF RelayerStart, RelayerError, GateInv
  <2>4. CASE PollerDone(c)
    <3>1. /\ states[c] = BootstrapSocketRelayQueue
          /\ states' = [states EXCEPT ![c] = BootstrapSocketRelay]
          /\ poller' = [poller EXCEPT ![c] = "live"]
          /\ relayer' = relayer
      BY <2>4 DEF PollerDone, set_bootstrap_state, GateInv
    <3>2. GateInv'
      BY <2>1, <3>1 DEF GateInv
    <3>3. Phases!PhasesNext
      BY <3>1, Zenon DEF Phases!PhasesNext, Phases!MoveChain
    <3> QED BY <3>2, <3>3
  <2>5. CASE RelayerDone(c)
    <3>1. /\ states[c] = BootstrapSocketRelay
          /\ states' = [states EXCEPT ![c] = NormalStart]
          /\ relayer' = [relayer EXCEPT ![c] = "live"]
          /\ poller' = poller
      BY <2>5 DEF RelayerDone, set_bootstrap_state, GateInv
    <3>2. GateInv'
      BY <2>1, <3>1 DEF GateInv
    <3>3. Phases!PhasesNext
      BY <3>1, Zenon DEF Phases!PhasesNext, Phases!MoveChain
    <3> QED BY <3>2, <3>3
  <2> QED BY <1>6, <2>2, <2>3, <2>4, <2>5 DEF Poller, Relayer
<1>7. CASE OnflightRecover \/ OnflightStopped \/ UNCHANGED vars
  <2>1. UNCHANGED <<states, emitter, handler, poller, relayer>>
    BY <1>7 DEF OnflightRecover, OnflightStopped, vars, notSocket, emitterVars,
                handlerVars, socketVars
  <2> QED BY <2>1, GateStutter
<1> QED
  BY <1>1, <1>2, <1>3, <1>4, <1>5, <1>6, <1>7 DEF Next, Failures

\* GateInv holds, whichever tasks fail and are run again.
LEMMA GatesHold == Spec => []GateInv
<1>1. Init => GateInv
  BY DEF Init, GateInv, Chains
<1> QED BY <1>1, StepGate, TypeCorrect, PTL DEF Spec

\* The bootstrap implements BootstrapPhases: whatever fails and is run again, no
\* task moves a chain back or lets one through a round-up gate before the others.
THEOREM ImplementsPhases == Spec => MovesInPhases
<1>1. Init => Phases!PhasesInit
  BY DEF Init, Phases!PhasesInit, Chains
<1> QED BY <1>1, StepGate, GatesHold, TypeCorrect, PTL
        DEF Spec, MovesInPhases, Phases!PhasesSpec

---------------------------------------------------------------------------
(* The round-up.  A catcher that has arrived saw the external chain at a   *)
(* round no smaller than Bifrost's, read later, and rounds never go back.  *)

RoundInv ==
    /\ gateRound <= latest
    /\ \A x \in External :
         /\ catcher[x] # "none" => handler \in {"barrier", "live"}
         /\ catcher[x] = "comparing" => seen[x] <= extRound[x]
         /\ catcher[x] = "arrived" => gateRound <= extRound[x]
    /\ SocketsAfterRoundUp

\* A step that leaves the chains, the handler and the catchers alone keeps the
\* argument.
LEMMA RoundStays ==
    ASSUME RoundInv, UNCHANGED <<states, roundVars, handlerVars, gateRound>>
    PROVE  RoundInv'
BY DEF RoundInv, SocketsAfterRoundUp, roundVars, handlerVars

\* A step during which no round falls and no phase or catcher changes.
LEMMA RoundGrows ==
    ASSUME TypeOK, TypeOK', RoundInv,
           latest <= latest',
           \A x \in External : extRound[x] <= extRound'[x],
           handler \in {"barrier", "live"} => handler' = handler,
           UNCHANGED <<states, catcher, seen, gateRound>>
    PROVE  RoundInv'
<1> USE DEF TypeOK, RoundInv
<1>1. gateRound' <= latest'
  OBVIOUS
<1>2. ASSUME NEW x \in External
      PROVE  /\ (catcher[x] # "none" => handler \in {"barrier", "live"})'
             /\ (catcher[x] = "comparing" => seen[x] <= extRound[x])'
             /\ (catcher[x] = "arrived" => gateRound <= extRound[x])'
  <2>1. extRound[x] \in Nat /\ extRound'[x] \in Nat /\ seen[x] \in Nat
        /\ extRound[x] <= extRound'[x]
    OBVIOUS
  <2> QED BY <2>1
<1>3. SocketsAfterRoundUp'
  <2> SUFFICES ASSUME NEW c \in Evm, states'[c] > BootstrapRoundUpPhase2,
                      NEW x \in External
               PROVE  extRound'[x] >= gateRound'
    BY DEF SocketsAfterRoundUp
  <2>1. extRound[x] >= gateRound
    BY DEF SocketsAfterRoundUp
  <2>2. extRound[x] \in Nat /\ extRound'[x] \in Nat /\ extRound[x] <= extRound'[x]
    OBVIOUS
  <2> QED BY <2>1, <2>2
<1> QED BY <1>1, <1>2, <1>3

\* Every step keeps RoundInv.
LEMMA StepRound == TypeOK /\ TypeOK' /\ GateInv /\ RoundInv /\ [Next]_vars => RoundInv'
<1> SUFFICES ASSUME TypeOK, TypeOK', GateInv, RoundInv, [Next]_vars PROVE RoundInv'
  OBVIOUS
<1> USE DEF TypeOK
<1> Bifrost \in Evm /\ Evm \subseteq Chains /\ Btc \in Chains /\ Btc \notin Evm
  BY ConstantsAssumption DEF Evm, Chains
<1>1. CASE World
  <2>1. UNCHANGED <<states, handler, catcher, seen, gateRound>>
    BY <1>1 DEF World, NewRound, Commit, RelayedByOthers, handlerVars
  <2>2. latest <= latest' /\ \A x \in External : extRound[x] <= extRound'[x]
    BY <1>1 DEF World, NewRound, Commit, RelayedByOthers
  <2> QED BY <2>1, <2>2, RoundGrows
<1>2. ASSUME NEW c \in Chains, NEW s \in Nat,
             set_bootstrap_state(c, s),
             c = Btc \/ s <= BootstrapRoundUpPhase2 \/ states[c] > BootstrapRoundUpPhase2,
             UNCHANGED <<roundVars, handlerVars, gateRound>>
      PROVE  RoundInv'
  <2>1. \A d \in Evm : states'[d] > BootstrapRoundUpPhase2 =>
                         states[d] > BootstrapRoundUpPhase2
    BY <1>2 DEF set_bootstrap_state
  <2> QED
    BY <1>2, <2>1 DEF RoundInv, SocketsAfterRoundUp, roundVars, handlerVars
<1>3. CASE Managers
  BY <1>2, <1>3 DEF Managers, NodeSynced, Flushed, BtcSynced, BtcBootstrapped
<1>4. CASE EmitterEscape
  <2>1. handler = "waiting"
    BY <1>4 DEF EmitterEscape, GateInv
  <2>2. \A x \in External : catcher[x] = "none"
    BY <2>1 DEF RoundInv
  <2>3. /\ \A c \in Evm : states'[c] = BootstrapRoundUpPhase2
        /\ gateRound' = latest' /\ catcher' = catcher
    BY <1>4 DEF EmitterEscape, SetAllEvm, roundVars, handlerVars
  <2> QED BY <2>2, <2>3 DEF RoundInv, SocketsAfterRoundUp
<1>5. CASE (Emitter /\ ~EmitterEscape) \/ EmitterError
  <2>1. UNCHANGED <<states, roundVars, handlerVars, gateRound>>
    BY <1>5 DEF Emitter, EmitterRun, EmitterReady, EmitterAsk, EmitterPoll,
                EmitterQuorum, EmitterRoundUp, EmitterError
  <2> QED BY <2>1, RoundStays, Zenon
<1>6. CASE HandlerRelease
  <2>1. \A x \in External : gateRound <= extRound[x]
    BY <1>6 DEF HandlerRelease, BarrierComplete, RoundInv
  <2>2. UNCHANGED <<roundVars, catcher, seen, gateRound>> /\ handler' = "live"
    BY <1>6 DEF HandlerRelease
  <2> QED BY <2>1, <2>2 DEF RoundInv, SocketsAfterRoundUp, roundVars
<1>7. CASE HandlerSpawn
  <2>1. /\ catcher' = [x \in External |-> "reading"] /\ handler' = "barrier"
        /\ UNCHANGED <<states, roundVars, seen, gateRound>>
    BY <1>7 DEF HandlerSpawn
  <2> QED BY <2>1 DEF RoundInv, SocketsAfterRoundUp, roundVars
<1>8. CASE (Handler /\ ~HandlerRelease /\ ~HandlerSpawn) \/ HandlerError
  <2>1. /\ UNCHANGED <<states, latest, catcher, seen, gateRound>>
        /\ handler \notin {"barrier", "live"}
    BY <1>8 DEF Handler, HandlerFetch, HandlerLog, HandlerSend, HandlerSent,
                HandlerReverted, HandlerError, roundVars
  <2>2. \A x \in External : extRound[x] <= extRound'[x]
    <3>1. CASE HandlerSend
      <4>1. PICK y \in External :
              \/ extRound' = extRound
              \/ extRound' = [extRound EXCEPT ![y] = extRound[y] + 1]
        BY <3>1 DEF HandlerSend
      <4> QED BY <4>1
    <3>2. CASE ~HandlerSend
      <4>1. extRound' = extRound
        BY <1>8, <3>2 DEF Handler, HandlerFetch, HandlerLog, HandlerSent,
                          HandlerReverted, HandlerError, roundVars
      <4> QED BY <4>1
    <3> QED BY <3>1, <3>2
  <2> QED BY <2>1, <2>2, RoundGrows
<1>9. ASSUME NEW x \in External, Catcher(x) \/ CatcherPanic(x) PROVE RoundInv'
  <2>1. UNCHANGED <<states, roundVars, handler, gateRound>>
    BY <1>9 DEF Catcher, CatcherRead, CatcherCompare, CatcherPanic
  <2>2. SocketsAfterRoundUp'
    BY <2>1 DEF RoundInv, SocketsAfterRoundUp, roundVars
  <2>3. CASE CatcherRead(x)
    BY <2>1, <2>2, <2>3 DEF CatcherRead, RoundInv, roundVars
  <2>4. CASE CatcherCompare(x)
    <3>1. seen[x] <= extRound[x] /\ gateRound <= latest
      BY <2>4 DEF CatcherCompare, RoundInv
    <3>2. ~(seen[x] < latest) => gateRound <= extRound[x]
      BY <3>1
    <3> QED BY <2>1, <2>2, <2>4, <3>2 DEF CatcherCompare, RoundInv, roundVars
  <2>5. CASE CatcherPanic(x)
    BY <2>1, <2>2, <2>5 DEF CatcherPanic, RoundInv, roundVars
  <2> QED BY <1>9, <2>3, <2>4, <2>5 DEF Catcher
<1>10. ASSUME NEW c \in Evm,
              Poller(c) \/ Relayer(c) \/ PollerError(c) \/ RelayerError(c)
       PROVE  RoundInv'
  <2>1. CASE PollerDone(c)
    BY <1>2, <2>1 DEF PollerDone, GateInv, notSocket
  <2>2. CASE RelayerDone(c)
    BY <1>2, <2>2 DEF RelayerDone, GateInv, notSocket
  <2>3. CASE ~PollerDone(c) /\ ~RelayerDone(c)
    <3>1. UNCHANGED <<states, roundVars, handlerVars, gateRound>>
      BY <1>10, <2>3 DEF Poller, PollerStart, PollerError, Relayer, RelayerStart,
                         RelayerError, notSocket
    <3> QED BY <3>1, RoundStays, Zenon
  <2> QED BY <2>1, <2>2, <2>3
<1>11. CASE OnflightRecover \/ OnflightStopped \/ UNCHANGED vars
  <2>1. UNCHANGED <<states, roundVars, handlerVars, gateRound>>
    BY <1>11 DEF OnflightRecover, OnflightStopped, vars, notSocket
  <2> QED BY <2>1, RoundStays, Zenon
<1> QED
  BY <1>1, <1>3, <1>4, <1>5, <1>6, <1>7, <1>8, <1>9, <1>10, <1>11
  DEF Next, Failures, Emitter, Handler

\* No chain enters the socket phases before every external chain has the round
\* that was Bifrost's latest when phase 1-2 began.
THEOREM RoundUpFirst == Spec => []SocketsAfterRoundUp
<1>1. Init => RoundInv
  BY ConstantsAssumption DEF Init, RoundInv, SocketsAfterRoundUp, Chains
<1>2. RoundInv => SocketsAfterRoundUp
  BY DEF RoundInv
<1> QED BY <1>1, <1>2, StepRound, GatesHold, TypeCorrect, PTL DEF Spec

HIDE DEF NodeSyncing, FlushingStalledTransactions, BootstrapRoundUpPhase1,
         BootstrapRoundUpPhase2, BootstrapSocketRelayQueue, BootstrapSocketRelay,
         NormalStart,
         Phases!NodeSyncing, Phases!FlushingStalledTransactions,
         Phases!BootstrapRoundUpPhase1, Phases!BootstrapRoundUpPhase2,
         Phases!BootstrapSocketRelayQueue, Phases!BootstrapSocketRelay,
         Phases!NormalStart

---------------------------------------------------------------------------
(* Induction on the natural numbers and on the size of finite sets, in     *)
(* terms of sets: the library's rules take an operator as a parameter.     *)

\* A set of numbers that has 0 and, with a number, the next is all of them.
LEMMA NumbersByInduction ==
    ASSUME NEW T \in SUBSET Nat, 0 \in T, \A n \in T : n + 1 \in T
    PROVE  T = Nat
<1> DEFINE U == Nat \ T
<1>1. SUFFICES ASSUME U # {} PROVE FALSE
    BY Zenon
<1>2. PICK m \in U : \A y \in U : <<y, m>> \notin OpToRel(<, Nat)
    BY <1>1, WFMin, NatLessThanWellFounded, Zenon
<1>3. \A y \in U : ~(y < m)
    BY <1>2, Zenon DEF OpToRel
<1>4. m # 0 /\ m - 1 \in Nat /\ m - 1 < m
    OBVIOUS
<1>5. m - 1 \in T
    BY <1>3, <1>4
<1> QED  BY <1>4, <1>5

\* The element that a sum over s takes first, and what it leaves.
Pick(s) == CHOOSE x \in s : TRUE
Rest(s) == s \ {Pick(s)}

LEMMA PickIsIn == \A s : s # {} => Pick(s) \in s
    BY Zenon DEF Pick

\* The subsets of S with at most n elements.
Upto(S, n) == {s \in SUBSET S : Cardinality(s) =< n}

LEMMA RestIsSmaller ==
    ASSUME NEW S, IsFiniteSet(S), NEW n \in Nat, NEW s \in Upto(S, n + 1), s # {}
    PROVE  Rest(s) \in Upto(S, n)
<1>1. s \in SUBSET S /\ Cardinality(s) =< n + 1
    BY Zenon DEF Upto
<1>2. IsFiniteSet(s) /\ Cardinality(s) \in Nat
    BY <1>1, FS_Subset, FS_CardinalityType
<1>3. Pick(s) \in s
    BY PickIsIn
<1>4. Cardinality(Rest(s)) = Cardinality(s) - 1
    BY <1>2, <1>3, FS_RemoveElement, Zenon DEF Rest
<1> QED  BY <1>1, <1>2, <1>4 DEF Rest, Upto

LEMMA UptoGrows ==
    ASSUME NEW S, IsFiniteSet(S), NEW n \in Nat
    PROVE  /\ Upto(S, 0) = {{}}
           /\ Upto(S, n) \subseteq Upto(S, n + 1)
           /\ Upto(S, Cardinality(S)) = SUBSET S
<1>1. \A s \in SUBSET S : /\ IsFiniteSet(s) /\ Cardinality(s) \in Nat
                          /\ Cardinality(s) =< Cardinality(S)
    BY FS_Subset, FS_CardinalityType
<1>2. Upto(S, 0) = {{}}
    BY <1>1, FS_EmptySet DEF Upto
<1> QED  BY <1>1, <1>2 DEF Upto

\* Subsets of S: a property of the empty set and, with the rest of a set, of the
\* set, is one of S.
LEMMA SubsetsByInduction ==
    ASSUME NEW S, IsFiniteSet(S), NEW G \in SUBSET SUBSET S, {} \in G,
           \A s \in SUBSET S : s # {} /\ Rest(s) \in G => s \in G
    PROVE  S \in G
<1> DEFINE T == {n \in Nat : Upto(S, n) \subseteq G}
<1>1. 0 \in T
    BY UptoGrows
<1>2. ASSUME NEW n \in T PROVE n + 1 \in T
  <2>1. n \in Nat /\ n + 1 \in Nat /\ Upto(S, n) \subseteq G
      OBVIOUS
  <2>2. ASSUME NEW s \in Upto(S, n + 1) PROVE s \in G
    <3>1. s \in SUBSET S
        BY Zenon DEF Upto
    <3>2. s # {} => Rest(s) \in G
        BY <2>1, RestIsSmaller
    <3> QED  BY <3>1, <3>2, Zenon
  <2> QED  BY <2>1, <2>2, Zenon
<1>3. T = Nat
  <2>1. T \in SUBSET Nat
      OBVIOUS
  <2> HIDE DEF T
  <2> QED  BY <1>1, <1>2, <2>1, NumbersByInduction
<1>4. Cardinality(S) \in T
    BY <1>3, FS_CardinalityType
<1> QED  BY <1>4, UptoGrows, FS_CardinalityType

---------------------------------------------------------------------------
(* The oracle's prices.                                                    *)

\* What a sum over S is defined by: the sums over its subsets.
SumStep(v, s, g) == IF s = {} THEN 0 ELSE v[Pick(s)] + g[Rest(s)]
AreSums(v, D, g) == g = [s \in D |-> SumStep(v, s, g)]
Sums(v, S) == CHOOSE g : AreSums(v, SUBSET S, g)

LEMMA SumIsOfSums == \A v, S : SumFunctionOnSet(v, S) = Sums(v, S)[S]
    BY Zenon DEF SumFunctionOnSet, FoldFunctionOnSet, MapThenFoldSet,
                 Sums, AreSums, SumStep, Pick, Rest

\* Sums over the sets of at most n elements give those of one more.
LEMMA SumsExtend ==
    ASSUME NEW v, NEW S, IsFiniteSet(S), NEW n \in Nat,
           NEW g, AreSums(v, Upto(S, n), g)
    PROVE  \E h : AreSums(v, Upto(S, n + 1), h)
<1> DEFINE h == [s \in Upto(S, n + 1) |-> SumStep(v, s, g)]
<1>1. ASSUME NEW s \in Upto(S, n) PROVE h[s] = g[s]
  <2>1. s \in Upto(S, n + 1)
      BY UptoGrows
  <2>2. g[s] = SumStep(v, s, g)
      BY Zenon DEF AreSums
  <2>3. h[s] = SumStep(v, s, g)
      BY Zenon, <2>1
  <2> QED  BY <2>2, <2>3, Zenon
<1> HIDE DEF h
<1>2. ASSUME NEW s \in Upto(S, n + 1) PROVE SumStep(v, s, g) = SumStep(v, s, h)
  <2>1. s # {} => Rest(s) \in Upto(S, n)
      BY RestIsSmaller
  <2> QED  BY <1>1, <2>1, Zenon DEF SumStep
<1>3. AreSums(v, Upto(S, n + 1), h)
    BY <1>2, Zenon DEF h, AreSums
<1> QED  BY <1>3, Zenon

\* So there are sums over all subsets of a finite set: the recursion of
\* MapThenFoldSet is well-founded.
LEMMA SumsExist ==
    ASSUME NEW v, NEW S, IsFiniteSet(S)
    PROVE  \A s \in SUBSET S : Sums(v, S)[s] = SumStep(v, s, Sums(v, S))
<1> DEFINE T == {n \in Nat : \E g : AreSums(v, Upto(S, n), g)}
<1>1. 0 \in T
  <2> DEFINE g == [s \in {{}} |-> 0]
  <2>1. AreSums(v, {{}}, g)
      BY Zenon DEF SumStep, AreSums
  <2>2. Upto(S, 0) = {{}}
      BY UptoGrows
  <2>3. AreSums(v, Upto(S, 0), g)
      BY <2>1, <2>2, Zenon
  <2> QED  BY <2>3, Zenon
<1>2. ASSUME NEW n \in T PROVE n + 1 \in T
  <2>1. n \in Nat /\ n + 1 \in Nat
      OBVIOUS
  <2>2. PICK g : AreSums(v, Upto(S, n), g)
      BY Zenon
  <2>3. \E h : AreSums(v, Upto(S, n + 1), h)
      BY <2>1, <2>2, SumsExtend, Zenon
  <2> QED  BY <2>1, <2>3, Zenon
<1>3. T = Nat
  <2>1. T \in SUBSET Nat
      BY Zenon
  <2> HIDE DEF T
  <2> QED  BY <1>1, <1>2, <2>1, NumbersByInduction
<1>4. Cardinality(S) \in T /\ Upto(S, Cardinality(S)) = SUBSET S
  <2>1. Cardinality(S) \in Nat
      BY FS_CardinalityType
  <2>2. Upto(S, Cardinality(S)) = SUBSET S
      BY <2>1, UptoGrows
  <2> QED  BY <1>3, <2>1, <2>2, Zenon
<1>5. \E g : AreSums(v, SUBSET S, g)
    BY <1>4, Zenon
<1>6. AreSums(v, SUBSET S, Sums(v, S))
    BY <1>5, Zenon DEF Sums
<1> QED  BY <1>6, Zenon DEF AreSums

\* Bounds on two pairs of numbers are bounds on their sums.
LEMMA BoundsAdd ==
    ASSUME NEW a \in Nat \ {0}, NEW b \in Nat, NEW c \in Nat, NEW d \in Nat,
           NEW lo \in Nat, NEW hi \in Nat,
           lo * a =< b, b =< hi * a, lo * c =< d, d =< hi * c
    PROVE  /\ a + c \in Nat \ {0} /\ b + d \in Nat
           /\ lo * (a + c) =< b + d /\ b + d =< hi * (a + c)
<1>1. lo * (a + c) = lo * a + lo * c /\ hi * (a + c) = hi * a + hi * c
    OBVIOUS
<1>2. lo * a \in Nat /\ lo * c \in Nat /\ hi * a \in Nat /\ hi * c \in Nat
    OBVIOUS
<1> QED  BY <1>1, <1>2

\* If every w[x] is between lo and hi times v[x], so are the sums.
LEMMA SumsCompare ==
    ASSUME NEW S, IsFiniteSet(S), S # {}, NEW v, NEW w, NEW lo \in Nat, NEW hi \in Nat,
           \A x \in S : /\ v[x] \in Nat \ {0} /\ w[x] \in Nat
                        /\ lo * v[x] =< w[x] /\ w[x] =< hi * v[x]
    PROVE  /\ SumFunctionOnSet(v, S) \in Nat \ {0}
           /\ SumFunctionOnSet(w, S) \in Nat
           /\ lo * SumFunctionOnSet(v, S) =< SumFunctionOnSet(w, S)
           /\ SumFunctionOnSet(w, S) =< hi * SumFunctionOnSet(v, S)
<1> DEFINE V == Sums(v, S)
           W == Sums(w, S)
           Good(s) == /\ V[s] \in Nat /\ W[s] \in Nat
                      /\ lo * V[s] =< W[s] /\ W[s] =< hi * V[s]
                      /\ s # {} => V[s] # 0
           G == {s \in SUBSET S : Good(s)}
<1>1. Good({})
  <2>1. V[{}] = 0 /\ W[{}] = 0
      BY SumsExist, Zenon DEF SumStep
  <2>2. lo * 0 = 0 /\ hi * 0 = 0 /\ 0 \in Nat /\ 0 =< 0
      OBVIOUS
  <2> QED  BY <2>1, <2>2, Zenon
<1>2. ASSUME NEW s \in SUBSET S, s # {}, Good(Rest(s)) PROVE Good(s)
  <2> DEFINE x == Pick(s)
             r == Rest(s)
  <2>1. x \in S
      BY <1>2, PickIsIn
  <2>2. V[s] = SumStep(v, s, V) /\ W[s] = SumStep(w, s, W)
      BY SumsExist, Zenon
  <2>3. V[s] = v[x] + V[r] /\ W[s] = w[x] + W[r]
      BY <1>2, <2>2, Zenon DEF SumStep
  <2>4. /\ V[r] \in Nat /\ W[r] \in Nat
        /\ lo * V[r] =< W[r] /\ W[r] =< hi * V[r]
      BY <1>2, Zenon
  <2> HIDE DEF x, r, V, W
  <2>5. /\ v[x] \in Nat \ {0} /\ w[x] \in Nat
        /\ lo * v[x] =< w[x] /\ w[x] =< hi * v[x]
      BY <2>1
  <2>6. /\ v[x] + V[r] \in Nat \ {0} /\ w[x] + W[r] \in Nat
        /\ lo * (v[x] + V[r]) =< w[x] + W[r] /\ w[x] + W[r] =< hi * (v[x] + V[r])
      BY <2>4, <2>5, BoundsAdd
  <2>7. V[s] \in Nat \ {0}
      BY <2>3, <2>6, Zenon
  <2> QED  BY <2>3, <2>6, <2>7, Zenon
<1> HIDE DEF Good
<1>3. {} \in G /\ \A s \in SUBSET S : s # {} /\ Rest(s) \in G => s \in G
    BY <1>1, <1>2, Zenon
<1>4. S \in G
  <2>1. G \in SUBSET SUBSET S
      BY Zenon
  <2> HIDE DEF G
  <2> QED  BY <1>3, <2>1, SubsetsByInduction
<1>5. Good(S)
    BY <1>4, Zenon
<1>6. /\ SumFunctionOnSet(v, S) = V[S]
      /\ SumFunctionOnSet(w, S) = W[S]
    BY SumIsOfSums, Zenon
<1> HIDE DEF V, W
<1> QED  BY <1>5, <1>6 DEF Good

LEMMA Quotient ==
    ASSUME NEW a \in Nat, NEW b \in Nat \ {0}, NEW lo \in Nat, NEW hi \in Nat,
           lo * b =< a, a =< hi * b
    PROVE  a \div b \in lo .. hi
    OBVIOUS

LEMMA Weighted ==
    ASSUME NEW c \in Nat \ {0}, NEW q \in Nat, NEW v \in Nat \ {0}, NEW lo \in Nat, NEW hi \in Nat,
           lo =< q, q =< hi
    PROVE  /\ c * v \in Nat \ {0} /\ c * q * v \in Nat
           /\ lo * (c * v) =< c * q * v /\ c * q * v =< hi * (c * v)
    OBVIOUS

\* The average lies between the quotes it is made of, however often the sources
\* are counted.
LEMMA VwapIsBetween ==
    ASSUME NEW q, NEW c \in Nat \ {0},
           NEW fs \in SUBSET Market, fs # {}, NEW lo \in Nat, NEW hi \in Nat,
           \A f \in fs : q[f] \in lo .. hi /\ Volume[f] # 0
    PROVE  Vwap(q, c, fs) \in lo .. hi
<1> DEFINE v == [f \in fs |-> c * Volume[f]]
           w == [f \in fs |-> c * q[f] * Volume[f]]
<1>1. IsFiniteSet(fs)
    BY FS_Subset, FeedsAssumption
<1>2. ASSUME NEW f \in fs
      PROVE  /\ v[f] \in Nat \ {0} /\ w[f] \in Nat
             /\ lo * v[f] =< w[f] /\ w[f] =< hi * v[f]
  <2>1. Volume[f] \in Nat \ {0} /\ q[f] \in Nat /\ lo =< q[f] /\ q[f] =< hi
      BY FeedsAssumption
  <2>2. v[f] = c * Volume[f] /\ w[f] = c * q[f] * Volume[f]
      BY Zenon
  <2> HIDE DEF v, w
  <2>3. /\ c * Volume[f] \in Nat \ {0} /\ c * q[f] * Volume[f] \in Nat
        /\ lo * (c * Volume[f]) =< c * q[f] * Volume[f]
        /\ c * q[f] * Volume[f] =< hi * (c * Volume[f])
      BY <2>1, Weighted
  <2> QED  BY <2>2, <2>3, Zenon
<1>3. TotalVolume(c, fs) = SumFunctionOnSet(v, fs) /\ WeightedSum(q, c, fs) = SumFunctionOnSet(w, fs)
    BY Zenon DEF TotalVolume, WeightedSum
<1> HIDE DEF v, w
<1>4. /\ TotalVolume(c, fs) \in Nat \ {0} /\ WeightedSum(q, c, fs) \in Nat
      /\ lo * TotalVolume(c, fs) =< WeightedSum(q, c, fs)
      /\ WeightedSum(q, c, fs) =< hi * TotalVolume(c, fs)
    BY <1>1, <1>2, <1>3, SumsCompare, Zenon
<1>5. Vwap(q, c, fs) = WeightedSum(q, c, fs) \div TotalVolume(c, fs)
    BY Zenon DEF Vwap
<1>6. WeightedSum(q, c, fs) \div TotalVolume(c, fs) \in lo .. hi
    BY <1>4, Quotient
<1> QED  BY <1>5, <1>6, Zenon

\* Quotes that have a least and a greatest one.
Ranged(Q) ==
    /\ Q \in SUBSET Nat
    /\ \E lo \in Q : \A x \in Q : lo =< x
    /\ \E hi \in Q : \A x \in Q : x =< hi

LEMMA RangedEnds ==
    ASSUME NEW Q, Ranged(Q)
    PROVE  /\ Min(Q) \in Nat /\ Max(Q) \in Nat /\ Min(Q) \in Q /\ Max(Q) \in Q
           /\ \A x \in Q : Min(Q) =< x /\ x =< Max(Q)
<1>1. Min(Q) \in Q /\ \A x \in Q : Min(Q) =< x
    BY Zenon DEF Min, Ranged
<1>2. Max(Q) \in Q /\ \A x \in Q : Max(Q) >= x
  <2>1. \E hi \in Q : \A x \in Q : hi >= x
      BY DEF Ranged
  <2> QED  BY <2>1, Zenon DEF Max
<1> QED  BY <1>1, <1>2, Zenon DEF Ranged

LEMMA RangedGrows ==
    ASSUME NEW Q, Ranged(Q), NEW q \in Nat
    PROVE  Ranged(Q \cup {q})
<1>1. PICK lo \in Q : \A x \in Q : lo =< x
    BY Zenon DEF Ranged
<1>2. PICK hi \in Q : \A x \in Q : x =< hi
    BY Zenon DEF Ranged
<1>3. Q \in SUBSET Nat /\ lo \in Nat /\ hi \in Nat
    BY DEF Ranged
<1>4. \E l \in Q \cup {q} : \A x \in Q \cup {q} : l =< x
  <2>1. CASE lo =< q
      BY <1>1, <2>1
  <2>2. CASE q =< lo
      BY <1>1, <1>3, <2>2
  <2> QED  BY <1>3, <2>1, <2>2
<1>5. \E h \in Q \cup {q} : \A x \in Q \cup {q} : x =< h
  <2>1. CASE q =< hi
      BY <1>2, <2>1
  <2>2. CASE hi =< q
      BY <1>2, <1>3, <2>2
  <2> QED  BY <1>3, <2>1, <2>2
<1> QED  BY <1>3, <1>4, <1>5 DEF Ranged

\* Band and DefaultBand, for given quotes.
Span(Q) == Min(Q) .. Max(Q)
Allowed(Q, s) == Span(Q) \cup (IF s \in Stable THEN {One} ELSE {})
Priced(p, Q, s) == p \in Nat /\ (p # 0 => p \in Allowed(Q, s))

LEMMA PricesStayAllowed ==
    ASSUME NEW Q, Ranged(Q), NEW R, Ranged(R), Q \subseteq R, NEW s
    PROVE  /\ Span(Q) \subseteq Span(R)
           /\ Allowed(Q, s) \subseteq Allowed(R, s)
           /\ \A p : Priced(p, Q, s) => Priced(p, R, s)
<1>1. /\ Min(Q) \in Nat /\ Max(Q) \in Nat /\ Min(R) \in Nat /\ Max(R) \in Nat
      /\ Min(R) =< Min(Q) /\ Max(Q) =< Max(R)
    BY RangedEnds
<1>2. Span(Q) \subseteq Span(R)
    BY <1>1 DEF Span
<1>3. Allowed(Q, s) \subseteq Allowed(R, s)
    BY <1>2, Zenon DEF Allowed
<1> QED  BY <1>2, <1>3, Zenon DEF Priced

\* What the sources have said.
Quoted(q, S) ==
    /\ DOMAIN S = Symbols /\ \A s \in Symbols : Ranged(S[s])
    /\ q \in [Feeds -> Nat]
    /\ \A f \in Feeds : q[f] # 0 => q[f] \in S[SymbolOf[f]]

LEMMA QuotesAreInRange ==
    ASSUME NEW q, NEW S, Quoted(q, S), NEW f \in Feeds, q[f] # 0
    PROVE  SymbolOf[f] \in Symbols /\ q[f] \in Nat /\ q[f] \in Span(S[SymbolOf[f]])
<1>1. SymbolOf[f] \in Symbols
    BY Zenon, FeedsAssumption
<1>2. Ranged(S[SymbolOf[f]]) /\ q[f] \in S[SymbolOf[f]] /\ q[f] \in Nat
    BY <1>1, Zenon DEF Quoted
<1>3. \A Q : Ranged(Q) /\ q[f] \in Q => q[f] \in Span(Q)
    BY <1>2, RangedEnds DEF Span
<1> QED  BY <1>1, <1>2, <1>3

LEMMA FetchedIsPriced ==
    ASSUME NEW q, NEW S, Quoted(q, S), NEW c \in Nat \ {0},
           NEW mode, NEW s \in Symbols
    PROVE  LET p == fetch_vwap_prices(q, c, mode, s)
           IN  p \in Nat /\ (p # 0 => p \in Span(S[s])) /\ Priced(p, S[s], s)
<1> DEFINE p == fetch_vwap_prices(q, c, mode, s)
           fs == Answering(q, mode, s)
<1>1. ASSUME NEW f \in fs
      PROVE  f \in Market /\ q[f] # 0 /\ SymbolOf[f] = s /\ Volume[f] # 0
    BY Zenon DEF Answering, get_tickers
<1>2. fs \in SUBSET Market
    BY <1>1, Zenon
<1>3. p = IF fs = {} THEN 0 ELSE Vwap(q, c, fs)
    BY <1>2, Zenon DEF fetch_vwap_prices
<1>4. Min(S[s]) \in Nat /\ Max(S[s]) \in Nat
    BY RangedEnds DEF Quoted
<1> HIDE DEF fs, p
<1>5. ASSUME NEW f \in fs PROVE q[f] \in Min(S[s]) .. Max(S[s])
  <2>1. f \in Feeds
      BY <1>1, Zenon DEF Feeds
  <2> QED  BY <1>1, <2>1, QuotesAreInRange, Zenon DEF Span
<1>6. fs # {} => p \in Min(S[s]) .. Max(S[s])
  <2> SUFFICES ASSUME fs # {} PROVE Vwap(q, c, fs) \in Min(S[s]) .. Max(S[s])
      BY <1>3, Zenon
  <2> QED  BY <1>1, <1>2, <1>4, <1>5, VwapIsBetween
<1>7. p \in Nat /\ (p # 0 => p \in Span(S[s]))
    BY <1>3, <1>4, <1>6 DEF Span
<1>8. Priced(p, S[s], s)
    BY <1>7, Zenon DEF Priced, Allowed
<1> QED  BY <1>7, <1>8, Zenon DEF p

LEMMA DedicatedIsPriced ==
    ASSUME NEW q, NEW S, Quoted(q, S), NEW c \in Nat \ {0}, NEW s \in Symbols
    PROVE  Priced(DedicatedPrice(q, c, s), S[s], s)
<1>1. CASE q[Dedicated] = 0
    BY <1>1, FetchedIsPriced, Zenon DEF DedicatedPrice
<1>2. CASE q[Dedicated] # 0 /\ s = SymbolOf[Dedicated]
  <2>1. Dedicated \in Feeds
      BY Zenon DEF Feeds
  <2> QED  BY <1>2, <2>1, QuotesAreInRange, Zenon DEF DedicatedPrice, Priced, Allowed
<1>3. CASE q[Dedicated] # 0 /\ s # SymbolOf[Dedicated]
    BY <1>3 DEF DedicatedPrice, Priced
<1> QED  BY <1>1, <1>2, <1>3, Zenon

\* The prices of the feeder and of the checker.
LEMMA PricesAreAllowed ==
    ASSUME NEW q, NEW S, Quoted(q, S), NEW c \in Nat \ {0}, NEW s \in Symbols
    PROVE  /\ Priced(FedPrices(q, c)[s], S[s], s)
           /\ Priced(CheckedPrices(q, c)[s], S[s], s)
<1>1. Priced(StandardPrice(q, c, s), S[s], s)
  <2>1. s \in Stable => Priced(One, S[s], s)
      BY DEF Priced, Allowed, One
  <2> QED  BY <2>1, FetchedIsPriced, Zenon DEF StandardPrice
<1>2. Priced(fetch_vwap_prices(q, c, "Standard", s), S[s], s)
    BY FetchedIsPriced, Zenon
<1>3. Priced(DedicatedPrice(q, c, s), S[s], s)
    BY DedicatedIsPriced
<1>4. Priced(0, S[s], s)
    BY DEF Priced
<1>5. Priced(FedPrices(q, c)[s], S[s], s)
    BY <1>1, <1>3, Zenon DEF FedPrices, Extend
<1>6. Priced(CheckedPrices(q, c)[s], S[s], s)
    BY <1>2, <1>3, <1>4, Zenon DEF CheckedPrices, Extend, NoPrices
<1> QED  BY <1>5, <1>6

\* A hook's transaction as FeeIsFair wants it.
Fair(tx, S) ==
    /\ tx.fee \in 1 .. tx.shape.max_tx_fee /\ tx.fee =< tx.shape.amount
    /\ \E p \in Span(S[Dnc]), q \in Allowed(S[Asset], Asset) :
          tx.fee = FeeInBridgedAsset(tx.cost, p, q)

AllPriced(prices, S) ==
    prices \in [Symbols -> Nat] /\ \A s \in Symbols : Priced(prices[s], S[s], s)

Sound(tx, S) ==
    /\ tx.call = "oracle_aggregate_feeding" => AllPriced(tx.prices, S)
    /\ tx.call = "latest_oracle_data" => tx.symbol \in Symbols
    /\ tx.call = "execute" => Fair(tx, S)

Working ==
    /\ feeder \in [copies : Nat \ {0}]
    /\ checker \in [copies : Nat \ {0}, resolved : BOOLEAN, at : {"idle", "sending"},
                    symbols : SUBSET Symbols]
Shaped == hook.at = "estimate" => hook.shape \in Shapes

\* The inductive invariant: what is not mined yet is as sound as what is.
OracleInv ==
    /\ Working
    /\ Quoted(quote, quoted)
    /\ \A tx \in txs : Sound(tx, quoted)
    /\ AllPriced(fed, quoted)
    /\ AllPriced(last, quoted)
    /\ Shaped
    /\ \A tx \in charged : Fair(tx, quoted)

LEMMA OracleInvInit ==
    ASSUME OracleInit
    PROVE  OracleInv
<1>1. One \in Nat /\ One # 0
    BY DEF One
<1>2. Working
  <2>1. PICK resolved \in BOOLEAN :
            checker = [copies |-> 1, resolved |-> resolved, at |-> "idle", symbols |-> {}]
      BY Zenon DEF OracleInit
  <2>2. feeder = [copies |-> 1]
      BY Zenon DEF OracleInit
  <2> QED  BY <2>1, <2>2 DEF Working
<1>3. Ranged({One}) /\ Span({One}) = {One}
  <2>1. Ranged({One})
      BY <1>1 DEF Ranged
  <2>2. Min({One}) = One /\ Max({One}) = One
      BY <2>1, RangedEnds
  <2>3. One .. One = {One}
      BY <1>1
  <2> QED  BY <2>1, <2>2, <2>3, Zenon DEF Span
<1>4. \A s : Priced(0, {One}, s) /\ Priced(One, {One}, s)
    BY <1>1, <1>3 DEF Priced, Allowed
<1>5. \A s \in Symbols : quoted[s] = {One}
    BY Zenon DEF OracleInit
<1>6. Quoted(quote, quoted)
  <2>1. DOMAIN quoted = Symbols /\ \A s \in Symbols : Ranged(quoted[s])
      BY <1>3, <1>5, Zenon DEF OracleInit
  <2>2. quote \in [Feeds -> Nat]
      BY <1>1, Zenon DEF OracleInit
  <2>3. \A f \in Feeds : quote[f] = One /\ SymbolOf[f] \in Symbols
      BY Zenon, FeedsAssumption DEF OracleInit
  <2>4. \A f \in Feeds : quote[f] \in quoted[SymbolOf[f]]
      BY <1>5, <2>3, Zenon
  <2> QED  BY <2>1, <2>2, <2>4, Zenon DEF Quoted
<1>7. AllPriced(fed, quoted)
  <2>1. \A s \in Symbols : fed[s] = 0
      BY Zenon DEF OracleInit, NoPrices
  <2>2. fed \in [Symbols -> Nat]
      BY DEF OracleInit, NoPrices
  <2> QED  BY <1>4, <1>5, <2>1, <2>2, Zenon DEF AllPriced
<1>8. AllPriced(last, quoted)
  <2>1. \A s \in Symbols : last[s] \in {0, One}
      BY Zenon DEF OracleInit
  <2>2. last \in [Symbols -> Nat]
      BY <1>1 DEF OracleInit
  <2> QED  BY <1>4, <1>5, <2>1, <2>2, Zenon DEF AllPriced
<1>9. txs = {} /\ charged = {} /\ hook.at = "none"
    BY DEF OracleInit
<1> QED  BY <1>2, <1>6, <1>7, <1>8, <1>9 DEF OracleInv, Shaped

\* Prices and fees that are sound stay so as the sources say more.
LEMMA SoundnessStays ==
    ASSUME NEW S, NEW R, NEW q, NEW r,
           Quoted(q, S), Quoted(r, R), \A s \in Symbols : S[s] \subseteq R[s]
    PROVE  /\ \A prices : AllPriced(prices, S) => AllPriced(prices, R)
           /\ \A tx : Fair(tx, S) => Fair(tx, R)
           /\ \A tx : Sound(tx, S) => Sound(tx, R)
<1>1. \A s \in Symbols : /\ Span(S[s]) \subseteq Span(R[s])
                         /\ Allowed(S[s], s) \subseteq Allowed(R[s], s)
                         /\ \A p : Priced(p, S[s], s) => Priced(p, R[s], s)
    BY PricesStayAllowed, Zenon DEF Quoted
<1>2. Dnc \in Symbols /\ Asset \in Symbols
    BY FeedsAssumption, HooksAssumption
<1>3. \A prices : AllPriced(prices, S) => AllPriced(prices, R)
    BY <1>1, Zenon DEF AllPriced
<1>4. \A tx : Fair(tx, S) => Fair(tx, R)
    BY <1>1, <1>2, Zenon DEF Fair
<1> QED  BY <1>3, <1>4, Zenon DEF Sound

LEMMA MovePreserves ==
    ASSUME OracleInv,
           NEW f \in Feeds, NEW q \in Levels \cup {0}, Move(f, q)
    PROVE  OracleInv'
<1>1. UNCHANGED <<feeder, checker, txs, fed, last, fresh, hook, charged, faults>>
    BY Zenon DEF Move, workers, oracle, hooks
<1>2. q \in Nat /\ SymbolOf[f] \in Symbols
    BY FeedsAssumption, HooksAssumption
<1>3. /\ DOMAIN quoted' = Symbols
      /\ \A s \in Symbols : quoted'[s] = IF s = SymbolOf[f] THEN quoted[s] \cup ({q} \ {0}) ELSE quoted[s]
    BY <1>2, Zenon DEF Move, OracleInv, Quoted
<1>4. /\ quote' \in [Feeds -> Nat]
      /\ \A g \in Feeds : quote'[g] = IF g = f THEN q ELSE quote[g]
    BY <1>2 DEF Move, OracleInv, Quoted
<1>5. \A s \in Symbols : Ranged(quoted'[s]) /\ quoted[s] \subseteq quoted'[s]
  <2> SUFFICES ASSUME NEW s \in Symbols PROVE Ranged(quoted'[s]) /\ quoted[s] \subseteq quoted'[s]
      BY Zenon
  <2>1. Ranged(quoted[s])
      BY Zenon DEF OracleInv, Quoted
  <2>2. quoted'[s] = quoted[s] \/ quoted'[s] = quoted[s] \cup {q}
      BY <1>3
  <2>3. Ranged(quoted[s] \cup {q})
      BY <1>2, <2>1, RangedGrows
  <2> QED  BY <2>1, <2>2, <2>3, Zenon
<1>6. \A g \in Feeds : quote'[g] # 0 => quote'[g] \in quoted'[SymbolOf[g]]
  <2> SUFFICES ASSUME NEW g \in Feeds, quote'[g] # 0 PROVE quote'[g] \in quoted'[SymbolOf[g]]
      BY Zenon
  <2>1. SymbolOf[g] \in Symbols
      BY Zenon, FeedsAssumption
  <2>2. CASE g = f
      BY <1>3, <1>4, <2>1, <2>2
  <2>3. CASE g # f
      BY <1>4, <1>5, <2>1, <2>3, Zenon DEF OracleInv, Quoted
  <2> QED  BY <2>2, <2>3
<1>7. Quoted(quote', quoted')
    BY <1>3, <1>4, <1>5, <1>6, Zenon DEF Quoted
<1>8. /\ \A prices : AllPriced(prices, quoted) => AllPriced(prices, quoted')
      /\ \A tx : Fair(tx, quoted) => Fair(tx, quoted')
      /\ \A tx : Sound(tx, quoted) => Sound(tx, quoted')
    BY <1>5, <1>7, SoundnessStays, Zenon DEF OracleInv
<1> QED  BY <1>1, <1>7, <1>8, Zenon DEF OracleInv, Working, Shaped

\* Steps that leave the sources, the workers and the hook alone.
LEMMA MiningPreserves ==
    ASSUME OracleInv, NEW tx \in txs,
           MineFeed(tx) \/ MineFinalize(tx) \/ MineHook(tx) \/ Lose(tx)
    PROVE  OracleInv'
<1>1. quote' = quote /\ quoted' = quoted /\ feeder' = feeder /\ checker' = checker
    BY Zenon DEF MineFeed, MineFinalize, MineHook, Lose, sources, workers
<1>2. Working' /\ Quoted(quote, quoted)' /\ \A t \in txs' : Sound(t, quoted')
  <2>1. txs' = txs \ {tx}
      BY Zenon DEF MineFeed, MineFinalize, MineHook, Lose
  <2> QED  BY <1>1, <2>1, Zenon DEF OracleInv, Working
<1>3. AllPriced(fed, quoted) /\ AllPriced(last, quoted) /\ Sound(tx, quoted)
    BY Zenon DEF OracleInv
<1>4. AllPriced(fed', quoted')
  <2>1. CASE MineFeed(tx)
    <3>1. AllPriced(tx.prices, quoted)
        BY <1>3, <2>1, Zenon DEF MineFeed, Sound
    <3>2. fed' = [s \in Symbols |-> IF tx.prices[s] # 0 THEN tx.prices[s] ELSE fed[s]]
        BY <2>1, Zenon DEF MineFeed, Extend
    <3>3. ASSUME NEW s \in Symbols PROVE fed'[s] \in {tx.prices[s], fed[s]}
        BY <3>2
    <3>4. fed' \in [Symbols -> Nat]
        BY <1>3, <3>1, <3>2 DEF AllPriced
    <3> QED  BY <1>1, <1>3, <3>1, <3>3, <3>4, Zenon DEF AllPriced
  <2>2. CASE fed' = fed
      BY <1>1, <1>3, <2>2, Zenon
  <2> QED  BY <2>1, <2>2, Zenon DEF MineFinalize, MineHook, Lose, oracle
<1>5. AllPriced(last', quoted')
  <2>1. CASE MineFinalize(tx)
    <3>1. tx.symbol \in Symbols
        BY <1>3, <2>1, Zenon DEF MineFinalize, Sound
    <3>2. last' = [last EXCEPT ![tx.symbol] = fed[tx.symbol]]
        BY <2>1, Zenon DEF MineFinalize
    <3>3. last' \in [Symbols -> Nat] /\ \A s \in Symbols : last'[s] \in {last[s], fed[s]}
        BY <1>3, <3>1, <3>2 DEF AllPriced
    <3> QED  BY <1>1, <1>3, <3>3, Zenon DEF AllPriced
  <2>2. CASE last' = last
      BY <1>1, <1>3, <2>2, Zenon
  <2> QED  BY <2>1, <2>2, Zenon DEF MineFeed, MineHook, Lose, oracle
<1>6. Shaped' /\ \A t \in charged' : Fair(t, quoted')
  <2>1. CASE MineHook(tx)
    <3>1. hook'.at = "processed"
        BY <2>1 DEF MineHook
    <3>2. Shaped'
        BY <3>1 DEF Shaped
    <3>3. charged' = charged \/ (charged' = {tx} /\ Fair(tx, quoted))
        BY <1>3, <2>1, Zenon DEF MineHook, Sound
    <3> QED  BY <1>1, <3>2, <3>3, Zenon DEF OracleInv
  <2>2. CASE hook' = hook /\ charged' = charged
      BY <1>1, <2>2, Zenon DEF OracleInv, Shaped
  <2> QED  BY <2>1, <2>2, Zenon DEF MineFeed, MineFinalize, Lose, hooks
<1> QED  BY <1>2, <1>4, <1>5, <1>6, Zenon DEF OracleInv

\* A step of a worker or of a hook, which may send a transaction and changes no price.
LEMMA SendingPreserves ==
    ASSUME OracleInv, UNCHANGED <<quote, quoted, fed, last, charged>>, Working', Shaped',
           \A tx \in txs' \ txs : Sound(tx, quoted)
    PROVE  OracleInv'
    BY Zenon DEF OracleInv

LEMMA FeederPreserves ==
    ASSUME OracleInv, fetch_and_feed \/ FeederRestarts
    PROVE  OracleInv'
<1>1. UNCHANGED <<quote, quoted, fed, last, charged, checker, hook>>
    BY Zenon DEF fetch_and_feed, FeederRestarts, sources, workers, oracle, hooks
<1>2. Working'
  <2>1. feeder' = feeder \/ feeder' = [feeder EXCEPT !.copies = @ + 1]
      BY Zenon DEF fetch_and_feed, FeederRestarts, workers
  <2>2. feeder' \in [copies : Nat \ {0}]
      BY <2>1 DEF OracleInv, Working
  <2> QED  BY <1>1, <2>2, Zenon DEF OracleInv, Working
<1>3. ASSUME NEW tx \in txs' \ txs PROVE Sound(tx, quoted)
  <2> DEFINE prices == FedPrices(quote, feeder.copies)
  <2>1. tx = Feed("feeder", prices)
      BY Zenon DEF fetch_and_feed, FeederRestarts
  <2>2. feeder.copies \in Nat \ {0}
      BY DEF OracleInv, Working
  <2>3. \A s \in Symbols : Priced(prices[s], quoted[s], s)
      BY <2>2, PricesAreAllowed, Zenon DEF OracleInv
  <2>4. prices = [s \in Symbols |-> prices[s]]
      BY Zenon DEF FedPrices, Extend
  <2> HIDE DEF prices
  <2>5. AllPriced(prices, quoted)
    <3>1. \A s \in Symbols : prices[s] \in Nat
        BY <2>3, Zenon DEF Priced
    <3> QED  BY <2>3, <2>4, <3>1, Zenon DEF AllPriced
  <2>6. tx.call = "oracle_aggregate_feeding" /\ tx.prices = prices
      BY <2>1 DEF Feed
  <2> QED  BY <2>5, <2>6 DEF Sound
<1> QED  BY <1>1, <1>2, <1>3, SendingPreserves, Zenon DEF OracleInv, Shaped

LEMMA CheckerPreserves ==
    ASSUME OracleInv,
           check_and_feed \/ finalize_prices \/ CheckerRestarts
    PROVE  OracleInv'
<1>1. UNCHANGED <<quote, quoted, fed, last, charged, feeder, hook>>
    BY Zenon DEF check_and_feed, finalize_prices, CheckerRestarts, sources, oracle, hooks
<1>2. Working'
  <2> USE DEF OracleInv, Working
  <2>1. CASE check_and_feed
    <3>1. PICK symbols \in SUBSET Symbols :
              checker' = [checker EXCEPT !.at = "sending", !.symbols = symbols]
        BY <2>1, Zenon DEF check_and_feed, Deviated
    <3> QED  BY <1>1, <3>1, Zenon
  <2>2. CASE finalize_prices
    <3>1. checker' = [checker EXCEPT !.at = "idle", !.symbols = {}]
        BY <2>2, Zenon DEF finalize_prices
    <3> QED  BY <1>1, <3>1, Zenon
  <2>3. CASE CheckerRestarts
    <3>1. PICK resolved \in {TRUE, checker.resolved} :
              checker' = [checker EXCEPT !.copies = @ + 1, !.resolved = resolved]
        BY <2>3, Zenon DEF CheckerRestarts
    <3>2. resolved \in BOOLEAN
      <4>1. checker.resolved \in BOOLEAN
          BY Zenon
      <4> QED  BY <3>1, <4>1, Zenon
    <3>3. checker.copies + 1 \in Nat \ {0}
        OBVIOUS
    <3> QED  BY <1>1, <3>1, <3>2, <3>3, Zenon
  <2> QED  BY <2>1, <2>2, <2>3
<1>3. ASSUME NEW tx \in txs' \ txs PROVE Sound(tx, quoted)
  <2>1. CASE check_and_feed
    <3> DEFINE prices == CheckedPrices(quote, checker.copies)
    <3>0. PICK symbols :
              txs' = txs \cup
                     {Feed("checker", [s \in Symbols |-> IF s \in symbols THEN prices[s] ELSE 0])}
      <4>1. PICK p \in {prices} \ {NoPrices} : \E symbols \in {Deviated(p)} \ {{}} :
                txs' = txs \cup
                       {Feed("checker", [s \in Symbols |-> IF s \in symbols THEN p[s] ELSE 0])}
          BY <2>1, Zenon DEF check_and_feed
      <4>2. PICK symbols :
                txs' = txs \cup
                       {Feed("checker", [s \in Symbols |-> IF s \in symbols THEN p[s] ELSE 0])}
          BY <4>1, Zenon
      <4> HIDE DEF prices
      <4>3. p = prices
          BY <4>1, Zenon
      <4>4. txs' = txs \cup
                {Feed("checker", [s \in Symbols |-> IF s \in symbols THEN prices[s] ELSE 0])}
          BY <4>2, <4>3
      <4> QED  BY <4>4, Zenon
    <3>1. tx = Feed("checker", [s \in Symbols |-> IF s \in symbols THEN prices[s] ELSE 0])
        BY <3>0, Zenon
    <3>2. \A s \in Symbols : Priced(prices[s], quoted[s], s)
      <4>1. checker.copies \in Nat \ {0}
          BY DEF OracleInv, Working
      <4> QED  BY <4>1, PricesAreAllowed, Zenon DEF OracleInv
    <3> HIDE DEF prices
    <3> DEFINE some == [s \in Symbols |-> IF s \in symbols THEN prices[s] ELSE 0]
    <3>3. some \in [Symbols -> Nat] /\ \A s \in Symbols : Priced(some[s], quoted[s], s)
        BY <3>2 DEF Priced
    <3>4. tx.call = "oracle_aggregate_feeding" /\ tx.prices = some
        BY <3>1 DEF Feed
    <3> HIDE DEF some
    <3> QED  BY <3>3, <3>4 DEF Sound, AllPriced
  <2>2. CASE finalize_prices
    <3>1. tx.call = "latest_oracle_data" /\ tx.symbol \in Symbols
        BY <2>2 DEF finalize_prices, OracleInv, Working
    <3> QED  BY <3>1 DEF Sound
  <2>3. CASE CheckerRestarts
      BY <2>3, Zenon DEF CheckerRestarts
  <2> QED  BY <2>1, <2>2, <2>3
<1> QED  BY <1>1, <1>2, <1>3, SendingPreserves, Zenon DEF OracleInv, Shaped

\* What estimate_hook_gas lets through is fair, at prices that were sound.
LEMMA EstimateIsFair ==
    ASSUME OracleInv, hook.at = "estimate",
           NEW cost, NEW fee \in estimate_hook_gas(cost), NEW tx,
           tx.shape = hook.shape, tx.fee = fee, tx.cost = cost
    PROVE  Fair(tx, quoted)
<1> DEFINE shape == hook.shape
<1>1. /\ ~(shape.max_tx_fee > shape.amount)
      /\ DncPrice # 0 /\ BridgedPrice # 0
      /\ fee = FeeInBridgedAsset(cost, DncPrice, BridgedPrice)
      /\ fee \in 1 .. shape.max_tx_fee
    BY Zenon DEF estimate_hook_gas
<1>2. shape.max_tx_fee \in Nat /\ shape.amount \in Nat
  <2>1. shape \in Shapes
      BY Zenon DEF OracleInv, Shaped
  <2> QED  BY <2>1, HooksAssumption, Zenon
<1>3. Dnc \in Symbols /\ Dnc \notin Stable /\ AssetFeed \in Feeds
      /\ SymbolOf[AssetFeed] = Asset /\ Asset \in Symbols
  <2>1. Dnc \in Symbols /\ Dnc \notin Stable /\ AssetFeed \in Feeds
        /\ SymbolOf[AssetFeed] = Asset
      BY HooksAssumption, Zenon
  <2> QED  BY <2>1, FeedsAssumption
<1>4. \A s \in Symbols : last[s] # 0 => last[s] \in Allowed(quoted[s], s)
    BY Zenon DEF OracleInv, AllPriced, Priced
<1>5. DncPrice \in Span(quoted[Dnc])
  <2>1. DncPrice = last[Dnc]
      BY <1>1, Zenon DEF DncPrice
  <2>2. Allowed(quoted[Dnc], Dnc) = Span(quoted[Dnc])
      BY <1>3, Zenon DEF Allowed
  <2> QED  BY <1>1, <1>3, <1>4, <2>1, <2>2, Zenon
<1>6. BridgedPrice \in Allowed(quoted[Asset], Asset)
  <2>1. CASE BridgedPrice = quote[AssetFeed]
      BY <1>1, <1>3, <2>1, QuotesAreInRange, Zenon DEF OracleInv, Allowed
  <2>2. CASE BridgedPrice = last[Asset]
      BY <1>1, <1>3, <1>4, <2>2, Zenon
  <2> QED  BY <1>1, <2>1, <2>2, Zenon DEF BridgedPrice
<1>7. fee =< shape.amount
  <2> HIDE DEF shape
  <2>1. ~(shape.max_tx_fee > shape.amount) /\ fee \in 1 .. shape.max_tx_fee
      BY <1>1, Zenon
  <2> QED  BY <1>2, <2>1
<1> QED  BY <1>1, <1>5, <1>6, <1>7, Zenon DEF Fair

LEMMA HookPreserves ==
    ASSUME OracleInv,
           \/ \E shape \in Shapes : should_process_hook(shape)
           \/ rollback_hook
           \/ \E cost \in Costs : execute_hook(cost) \/ SkipHook(cost)
           \/ HookByOther
    PROVE  OracleInv'
<1> USE DEF sources, workers, oracle
<1>1. CASE \E shape \in Shapes : should_process_hook(shape)
  <2>1. PICK shape \in Shapes : should_process_hook(shape)
      BY <1>1, Zenon
  <2>2. UNCHANGED <<quote, quoted, fed, last, charged, feeder, checker, txs>>
      BY <2>1, Zenon DEF should_process_hook
  <2>3. hook'.shape = shape
      BY <2>1 DEF should_process_hook
  <2>4. Working' /\ Shaped'
      BY <2>2, <2>3, Zenon DEF OracleInv, Working, Shaped
  <2> QED  BY <2>2, <2>4, SendingPreserves, Zenon
<1>2. CASE rollback_hook
  <2>1. UNCHANGED <<quote, quoted, fed, last, charged, feeder, checker>>
      BY <1>2, Zenon DEF rollback_hook
  <2>2. hook'.at = "sent"
      BY <1>2 DEF rollback_hook
  <2>3. Working' /\ Shaped'
    <3>1. Shaped'
        BY <2>2 DEF Shaped
    <3> QED  BY <2>1, <3>1, Zenon DEF OracleInv, Working
  <2>4. ASSUME NEW tx \in txs' \ txs PROVE Sound(tx, quoted)
    <3>1. tx.call = "rollback"
        BY <1>2 DEF rollback_hook
    <3> QED  BY <3>1 DEF Sound
  <2> QED  BY <2>1, <2>3, <2>4, SendingPreserves, Zenon
<1>3. CASE \E cost \in Costs : execute_hook(cost)
  <2>1. PICK cost \in Costs : execute_hook(cost)
      BY <1>3, Zenon
  <2>2. UNCHANGED <<quote, quoted, fed, last, charged, feeder, checker>>
      BY <2>1, Zenon DEF execute_hook
  <2>3. hook'.at = "sent"
      BY <2>1 DEF execute_hook
  <2>4. Working' /\ Shaped'
    <3>1. Shaped'
        BY <2>3 DEF Shaped
    <3> QED  BY <2>2, <3>1, Zenon DEF OracleInv, Working
  <2>5. ASSUME NEW tx \in txs' \ txs PROVE Sound(tx, quoted)
    <3>1. PICK fee \in estimate_hook_gas(cost) :
              txs' = txs \cup {[call |-> "execute", shape |-> hook.shape, fee |-> fee, cost |-> cost]}
        BY <2>1, Zenon DEF execute_hook
    <3>2. tx = [call |-> "execute", shape |-> hook.shape, fee |-> fee, cost |-> cost]
        BY <3>1, Zenon
    <3>3. tx.call = "execute" /\ tx.shape = hook.shape /\ tx.fee = fee /\ tx.cost = cost
        BY <3>2
    <3>4. hook.at = "estimate"
        BY <2>1, Zenon DEF execute_hook
    <3>5. Fair(tx, quoted)
        BY <3>3, <3>4, EstimateIsFair, Zenon
    <3> QED  BY <3>3, <3>5, Zenon DEF Sound
  <2> QED  BY <2>2, <2>4, <2>5, SendingPreserves, Zenon
<1>4. CASE (\E cost \in Costs : SkipHook(cost)) \/ HookByOther
  <2>1. UNCHANGED <<quote, quoted, fed, last, charged, feeder, checker, txs>>
      BY <1>4, Zenon DEF SkipHook, HookByOther
  <2>2. hook'.at \in {"skipped", "processed"}
      BY <1>4 DEF SkipHook, HookByOther
  <2>3. Working' /\ Shaped'
    <3>1. Shaped'
        BY <2>2 DEF Shaped
    <3> QED  BY <2>1, <3>1, Zenon DEF OracleInv, Working
  <2> QED  BY <2>1, <2>3, SendingPreserves, Zenon
<1> QED  BY <1>1, <1>2, <1>3, <1>4, Zenon

LEMMA OracleStep ==
    ASSUME OracleInv, [OracleNext]_oracleVars
    PROVE  OracleInv'
<1>1. CASE \E f \in Feeds, q \in Levels \cup {0} : Move(f, q)
    BY <1>1, MovePreserves, Zenon
<1>2. CASE \E tx \in txs : MineFeed(tx) \/ MineFinalize(tx) \/ MineHook(tx) \/ Lose(tx)
    BY <1>2, MiningPreserves, Zenon
<1>3. CASE \E s \in Symbols : Age(s)
  <2>1. UNCHANGED <<quote, quoted, fed, last, charged, feeder, checker, txs, hook>>
      BY <1>3, Zenon DEF Age, sources, workers, hooks
  <2> QED  BY <2>1, SendingPreserves, Zenon DEF OracleInv, Working, Shaped
<1>4. CASE fetch_and_feed \/ FeederRestarts
    BY <1>4, FeederPreserves, Zenon
<1>5. CASE check_and_feed \/ finalize_prices \/ CheckerRestarts
    BY <1>5, CheckerPreserves, Zenon
<1>6. CASE \/ \E shape \in Shapes : should_process_hook(shape)
           \/ rollback_hook
           \/ \E cost \in Costs : execute_hook(cost) \/ SkipHook(cost)
           \/ HookByOther
    BY <1>6, HookPreserves, Zenon
<1>7. CASE UNCHANGED oracleVars
  <2>1. UNCHANGED <<quote, quoted, fed, last, charged, feeder, checker, txs, hook>>
      BY <1>7, Zenon DEF oracleVars, sources, workers, oracle, hooks
  <2> QED  BY <2>1, SendingPreserves, Zenon DEF OracleInv, Working, Shaped
<1> QED  BY <1>1, <1>2, <1>3, <1>4, <1>5, <1>6, <1>7, Zenon DEF OracleNext

LEMMA OracleHolds ==
    OracleSpec => []OracleInv
<1>1. OracleInit => OracleInv
    BY OracleInvInit
<1>2. OracleInv /\ [OracleNext]_oracleVars => OracleInv'
    BY OracleStep
<1> QED  BY <1>1, <1>2, PTL DEF OracleSpec

\* Every price that is fed, waits to be mined or is shown lies between quotes that
\* sources gave, or is the 1 of a stable symbol: for any sources, volumes and
\* symbols, however many failures, restarts (which count every source once more)
\* and transactions, mined in any order.
THEOREM PricesStayInBand ==
    OracleSpec => []InBand
<1>1. OracleInv => InBand
  <2> SUFFICES ASSUME OracleInv PROVE InBand
      OBVIOUS
  <2>1. \A s \in Symbols : DefaultBand(s) = Allowed(quoted[s], s)
      BY Zenon DEF DefaultBand, Band, Allowed, Span
  <2>2. \A prices : AllPriced(prices, quoted) =>
            \A s \in Symbols : prices[s] # 0 => prices[s] \in DefaultBand(s)
      BY <2>1, Zenon DEF AllPriced, Priced
  <2>3. AllPriced(fed, quoted) /\ AllPriced(last, quoted)
      BY Zenon DEF OracleInv
  <2>4. \A tx \in txs : tx.call = "oracle_aggregate_feeding" => AllPriced(tx.prices, quoted)
      BY Zenon DEF OracleInv, Sound
  <2>5. ASSUME NEW s \in Symbols PROVE {fed[s], last[s]} \ {0} \subseteq DefaultBand(s)
    <3>1. (fed[s] # 0 => fed[s] \in DefaultBand(s)) /\ (last[s] # 0 => last[s] \in DefaultBand(s))
        BY <2>2, <2>3, Zenon
    <3> QED  BY <3>1
  <2>6. ASSUME NEW s \in Symbols, NEW tx \in txs, tx.call = "oracle_aggregate_feeding"
        PROVE  {tx.prices[s]} \ {0} \subseteq DefaultBand(s)
    <3>1. tx.prices[s] # 0 => tx.prices[s] \in DefaultBand(s)
        BY <2>2, <2>4, <2>6, Zenon
    <3> QED  BY <3>1
  <2> QED  BY <2>5, <2>6, Zenon DEF InBand
<1> QED  BY <1>1, OracleHolds, PTL

\* A hook that is executed costs no more than max_tx_fee and the bridged amount,
\* and its cost at prices that sources gave: for any requests, costs and prices,
\* also when the prices move between the estimate and the transaction.
THEOREM HookFeesAreFair ==
    OracleSpec => []FeeIsFair
<1>1. OracleInv => FeeIsFair
  <2> SUFFICES ASSUME OracleInv PROVE FeeIsFair
      OBVIOUS
  <2>1. Band(Dnc) = Span(quoted[Dnc]) /\ DefaultBand(Asset) = Allowed(quoted[Asset], Asset)
      BY Zenon DEF DefaultBand, Band, Allowed, Span
  <2> QED  BY <2>1, Zenon DEF OracleInv, Fair, FeeIsFair
<1> QED  BY <1>1, OracleHolds, PTL
=============================================================================
