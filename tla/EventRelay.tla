---------------------------- MODULE EventRelay ----------------------------
(***************************************************************************)
(* The path of a socket event from one EVM chain to the relay logic:       *)
(*                                                                         *)
(*   chain (external, reorganises)                                         *)
(*     -> EventManager          (client/src/eth/events.rs)                 *)
(*     -> tokio broadcast channel                                          *)
(*     -> SocketRelayHandler    (client/src/eth/handlers/                  *)
(*                               socket_relay_handler.rs)                  *)
(*                                                                         *)
(* EventManager publishes the logs of every batch of new blocks at once.   *)
(* SocketRelayHandler keeps them in pending_events until they have         *)
(* block_confirmations on top, verifies them again with two RPC calls, and *)
(* only then relays them.  A process that starts relays the logs of the    *)
(* bootstrap range first.  What relaying an event does is another module's *)
(* business: here a call of process_confirmed_log is a history entry,      *)
(* whatever it returns (the handler logs its error and does not retry).    *)
(*                                                                         *)
(* An event is identified with the transaction that emits it; loc[e] is    *)
(* the block that holds it, 0 while it is in no block (the mempool).       *)
(***************************************************************************)
EXTENDS Naturals, Sequences, FiniteSets

CONSTANTS
    Events,                 \* the socket events that may ever be emitted
    Immediate,              \* those should_process_immediately accepts
    ConfiguredConfirmations,\* evm_provider.block_confirmations
    BatchSize,              \* get_logs_batch_size
    ChannelCapacity,        \* capacity of the broadcast channel (512)
    MAX_ABSENT_CHECKS,
    BootstrapEnabled,       \* bootstrap_config.is_enabled
    BootstrapOffset,        \* bootstrap_offset_height
    MaxReorgDepth,          \* deepest reorganisation of the chain
    MaxHeight, MaxReorgs, MaxErrors, MaxCrashes  \* bounds of the model

VARIABLES
    height,     \* chain: number of the latest block
    loc,        \* chain: block of each event, 0 if it is in none
    reorgs,     \* chain: reorganisations so far (bounds them)
    stage,      \* process: "down", "init", "fetched" or "live"
    waiting,    \* EventManager.waiting_block
    floor,      \* first block this run of the process has looked at
    bootLogs,   \* logs get_bootstrap_events returned, still to be processed
    channel,    \* broadcast channel: sequence of EventMessage
    lagged,     \* the receiver has fallen behind and must be told
    inbox,      \* the EventMessage the handler is iterating over
    pending,    \* SocketRelayHandler.pending_events
    latest,     \* latest_block read by the confirmation scan, 0 if none runs
    todo,       \* indices the scan has still to verify
    txBlock,    \* block get_transaction_by_hash gave for the current index
    removals,   \* indices_to_remove
    errors,     \* RPC errors so far (bounds them)
    crashes,    \* process crashes so far (bounds them)
    confirmed,  \* history: <<event, block>> relayed after confirmation
    unconfirmed,\* history: events relayed at once or by the bootstrap
    dropped,    \* history: events given up as reorged out
    lost,       \* history: events overwritten in the broadcast channel
    touched     \* history: events a reorganisation has moved

chainVars   == <<height, loc, reorgs, touched>>
scanVars    == <<latest, todo, txBlock, removals>>
streamVars  == <<waiting, channel, lagged, inbox, lost>>
bootVars    == <<stage, floor, bootLogs, crashes>>
relayVars   == <<confirmed, unconfirmed, dropped>>
vars == <<chainVars, scanVars, streamVars, bootVars, relayVars, pending, errors>>

ASSUME ConstantsAssumption ==
    /\ Immediate \subseteq Events
    /\ BootstrapEnabled \in BOOLEAN
    /\ ConfiguredConfirmations \in Nat
    /\ BatchSize \in Nat \ {0}
    /\ ChannelCapacity \in Nat \ {0}
    /\ MAX_ABSENT_CHECKS \in Nat \ {0}
    /\ BootstrapOffset \in Nat
    /\ MaxReorgDepth \in Nat
    /\ MaxHeight \in Nat
    /\ MaxReorgs \in Nat /\ MaxErrors \in Nat /\ MaxCrashes \in Nat

\* ProviderMetadata::new adds the batch size to the configured depth.
BlockConfirmations == ConfiguredConfirmations + BatchSize

\* The operator chose confirmations no reorganisation outlasts.
ASSUME DepthAssumption == MaxReorgDepth <= BlockConfirmations

---------------------------------------------------------------------------
(* The chain.                                                              *)

Message == [block : Nat, logs : SUBSET Events]
PendingEvent == [ev : Events, block : Nat, absent : Nat]
NoMessage == [block |-> 0, logs |-> {}]

\* A block is mined on top, with some of the events that are in no block.
Mine ==
    /\ height < MaxHeight
    /\ height' = height + 1
    /\ \E S \in SUBSET {e \in Events : loc[e] = 0} :
         loc' = [e \in Events |-> IF e \in S THEN height + 1 ELSE loc[e]]
    /\ UNCHANGED <<reorgs, touched, scanVars, streamVars, bootVars, relayVars,
                   pending, errors>>

\* The blocks above a fork are replaced by as many others.  Their events, and
\* those of the mempool, land anywhere above the fork, or in no block.
Reorg ==
    /\ reorgs < MaxReorgs
    /\ \E fork \in {f \in 0 .. height : f < height /\ height <= f + MaxReorgDepth} :
         \E l \in [Events -> {0} \cup fork + 1 .. height] :
           loc' = [e \in Events |->
                     IF loc[e] \in 1 .. fork THEN loc[e] ELSE l[e]]
    /\ reorgs' = reorgs + 1
    /\ touched' = touched \cup {e \in Events : loc'[e] # loc[e]}
    /\ UNCHANGED <<height, scanVars, streamVars, bootVars, relayVars, pending,
                   errors>>

---------------------------------------------------------------------------
(* EventManager.  Its loop reads the head once and then publishes every    *)
(* batch that head allows; as the head never recedes, publishing against   *)
(* the present head has the same outcomes.  A failing RPC leaves its state *)
(* as it was (run() returns and is called again).                          *)

BatchEnd == waiting + (BatchSize - 1)

is_batch_ready == waiting <= height /\ height >= BatchEnd

LogsOfBatch == {e \in Events : loc[e] \in waiting .. BatchEnd}

\* Sending to a full broadcast channel overwrites its oldest message.
Broadcast(msg) ==
    IF Len(channel) < ChannelCapacity
    THEN channel' = Append(channel, msg) /\ UNCHANGED <<lagged, lost>>
    ELSE /\ channel' = Append(Tail(channel), msg)
         /\ lagged' = TRUE
         /\ lost' = lost \cup Head(channel).logs

\* Seeded defect: the next batch begins with the last block of this one.
process_new_block_overlap ==
    /\ stage = "live"
    /\ is_batch_ready
    /\ IF LogsOfBatch # {}
       THEN Broadcast([block |-> waiting, logs |-> LogsOfBatch])
       ELSE UNCHANGED <<channel, lagged, lost>>
    /\ waiting' = BatchEnd
    /\ UNCHANGED <<inbox, chainVars, scanVars, bootVars, relayVars, pending,
                   errors>>

process_new_block ==
    /\ stage = "live"
    /\ is_batch_ready
    /\ IF LogsOfBatch # {}
       THEN Broadcast([block |-> waiting, logs |-> LogsOfBatch])
       ELSE UNCHANGED <<channel, lagged, lost>>
    /\ waiting' = BatchEnd + 1
    /\ UNCHANGED <<inbox, chainVars, scanVars, bootVars, relayVars, pending,
                   errors>>

---------------------------------------------------------------------------
(* SocketRelayHandler: the two arms of its select! loop that handle EVM    *)
(* events.  An arm runs to its end before the next one starts.             *)

Idle == stage = "live" /\ inbox.logs = {} /\ latest = 0

\* The stream reports the lag once; the handler logs it and goes on.
ReceiveLagged ==
    /\ Idle /\ lagged
    /\ lagged' = FALSE
    /\ UNCHANGED <<waiting, channel, inbox, lost, chainVars, scanVars, bootVars,
                   relayVars, pending, errors>>

Receive ==
    /\ Idle /\ ~lagged /\ channel # <<>>
    /\ inbox' = Head(channel)
    /\ channel' = Tail(channel)
    /\ UNCHANGED <<waiting, lagged, lost, chainVars, scanVars, bootVars,
                   relayVars, pending, errors>>

\* One iteration over msg.event_logs: relay at once, or push.
HandleLog ==
    \E e \in inbox.logs :
      /\ inbox' = [inbox EXCEPT !.logs = @ \ {e}]
      /\ IF e \in Immediate
         THEN unconfirmed' = unconfirmed \cup {e} /\ UNCHANGED pending
         ELSE /\ pending' = Append(pending, [ev |-> e, block |-> inbox.block,
                                             absent |-> 0])
              /\ UNCHANGED unconfirmed
      /\ UNCHANGED <<waiting, channel, lagged, lost, confirmed, dropped,
                     chainVars, scanVars, bootVars, errors>>

\* Seeded defect: one confirmation short.
HasConfirmations_short(entry) == height + 1 >= entry.block + BlockConfirmations

\* latest_block.saturating_sub(block_number) >= block_confirmations
HasConfirmations(entry) == height >= entry.block + BlockConfirmations

\* process_confirmed_pending_events, first part: pick the confirmed entries.
StartScan ==
    LET due == {i \in DOMAIN pending : HasConfirmations(pending[i])}
    IN  /\ Idle /\ due # {}
        /\ latest' = height
        /\ todo' = due
        /\ UNCHANGED <<txBlock, removals, chainVars, streamVars, bootVars,
                       relayVars, pending, errors>>

\* The entry the scan is at: the for loop goes through them in order.
AtIndex(i) == i \in todo /\ \A j \in todo : i <= j

\* Seeded defect: the counter has no limit.
Absent_forever(i) ==
    /\ pending' = [pending EXCEPT ![i].absent = 1]
    /\ UNCHANGED <<removals, dropped, confirmed>>

\* Ok(None): give the entry another chance, or drop it.  The counter is
\* written back at the end of the scan; nobody reads it before.
Absent(i) ==
    IF pending[i].absent + 1 >= MAX_ABSENT_CHECKS
    THEN /\ removals' = removals \cup {i}
         /\ dropped' = dropped \cup {pending[i].ev}
         /\ UNCHANGED <<pending, confirmed>>
    ELSE /\ pending' = [pending EXCEPT ![i].absent = @ + 1]
         /\ UNCHANGED <<removals, dropped, confirmed>>

\* Seeded defect: an entry found in another block counts as absent.
Found_absent(i, current_block) ==
    IF current_block = pending[i].block
    THEN /\ removals' = removals \cup {i}
         /\ confirmed' = confirmed \cup {<<pending[i].ev, current_block>>}
         /\ UNCHANGED <<pending, dropped>>
    ELSE Absent(i)

\* Ok(Some(current_block)): relay when the block is the one confirmations
\* were counted from, otherwise count again from the new block.
Found(i, current_block) ==
    IF current_block = pending[i].block
    THEN /\ removals' = removals \cup {i}
         /\ confirmed' = confirmed \cup {<<pending[i].ev, current_block>>}
         /\ UNCHANGED <<pending, dropped>>
    ELSE /\ pending' = [pending EXCEPT ![i].block = current_block, ![i].absent = 0]
         /\ UNCHANGED <<removals, confirmed, dropped>>

\* verify_event_on_chain, first RPC: the block of the transaction.
VerifyTransaction ==
    \E i \in todo :
      /\ AtIndex(i) /\ txBlock = 0
      /\ IF loc[pending[i].ev] # 0
         THEN /\ txBlock' = loc[pending[i].ev]
              /\ UNCHANGED <<todo, removals, pending, confirmed, dropped>>
         ELSE /\ Absent(i)
              /\ todo' = todo \ {i}
              /\ UNCHANGED txBlock
      /\ UNCHANGED <<latest, unconfirmed, chainVars, streamVars, bootVars, errors>>

\* verify_event_on_chain, second RPC: the logs of that block, which may have
\* been replaced since the first.
VerifyLogs ==
    \E i \in todo :
      /\ AtIndex(i) /\ txBlock # 0
      /\ IF loc[pending[i].ev] = txBlock THEN Found(i, txBlock) ELSE Absent(i)
      /\ todo' = todo \ {i}
      /\ txBlock' = 0
      /\ UNCHANGED <<latest, unconfirmed, chainVars, streamVars, bootVars, errors>>

\* Either RPC fails: the entry stays as it is.
VerifyError ==
    \E i \in todo :
      /\ AtIndex(i) /\ errors < MaxErrors
      /\ todo' = todo \ {i}
      /\ txBlock' = 0
      /\ errors' = errors + 1
      /\ UNCHANGED <<latest, removals, chainVars, streamVars, bootVars, relayVars,
                     pending>>

RemoveAt(s, i) == SubSeq(s, 1, i - 1) \o SubSeq(s, i + 1, Len(s))

\* indices_to_remove is sorted in descending order.
RemoveFirst(i) == \A j \in removals : j <= i

\* The removal loop at the end of the scan, one index at a time.
Remove ==
    /\ todo = {}
    /\ \E i \in removals :
         /\ RemoveFirst(i)
         /\ pending' = IF i <= Len(pending) THEN RemoveAt(pending, i) ELSE pending
         /\ removals' = removals \ {i}
    /\ UNCHANGED <<latest, todo, txBlock, chainVars, streamVars, bootVars,
                   relayVars, errors>>

EndScan ==
    /\ latest # 0 /\ todo = {} /\ removals = {}
    /\ latest' = 0
    /\ UNCHANGED <<todo, txBlock, removals, chainVars, streamVars, bootVars,
                   relayVars, pending, errors>>

---------------------------------------------------------------------------
(* Start of the process, and its death.                                    *)

\* EventManager::initialize, called before any bootstrap step.
Initialize ==
    /\ stage = "down"
    /\ waiting' = height + 1
    /\ floor' = height + 1
    /\ stage' = IF BootstrapEnabled THEN "init" ELSE "live"
    /\ UNCHANGED <<bootLogs, crashes, channel, lagged, inbox, lost, chainVars,
                   scanVars, relayVars, pending, errors>>

BootstrapFrom == IF height > BootstrapOffset THEN height - BootstrapOffset ELSE 0

\* Seeded defect: the range stops short of the block the process started at.
BootstrapRange_short == BootstrapFrom .. waiting - 2

BootstrapRange == BootstrapFrom .. height

\* get_bootstrap_events (or the cache the queue poller filled with the same
\* query): every log from the offset to the head.
FetchBootstrapLogs ==
    /\ stage = "init"
    /\ bootLogs' = {e \in Events : loc[e] # 0 /\ loc[e] \in BootstrapRange}
    /\ floor' = BootstrapFrom
    /\ stage' = "fetched"
    /\ UNCHANGED <<crashes, streamVars, chainVars, scanVars, relayVars, pending,
                   errors>>

ProcessBootstrapLog ==
    /\ stage = "fetched"
    /\ \E e \in bootLogs :
         /\ bootLogs' = bootLogs \ {e}
         /\ unconfirmed' = unconfirmed \cup {e}
    /\ UNCHANGED <<stage, floor, crashes, confirmed, dropped, streamVars,
                   chainVars, scanVars, pending, errors>>

\* process_confirmed_log fails: run() returns the error, is called again and
\* bootstraps again; the cache is gone, so the logs are fetched anew.
BootstrapError ==
    /\ stage = "fetched" /\ bootLogs # {} /\ errors < MaxErrors
    /\ errors' = errors + 1
    /\ stage' = "init"
    /\ bootLogs' = {}
    /\ UNCHANGED <<floor, crashes, streamVars, chainVars, scanVars, relayVars,
                   pending>>

\* NormalStart, once every log has been processed.
BootstrapDone ==
    /\ stage = "fetched" /\ bootLogs = {}
    /\ stage' = "live"
    /\ UNCHANGED <<floor, bootLogs, crashes, streamVars, chainVars, scanVars,
                   relayVars, pending, errors>>

\* The process dies; whatever it held in memory is gone.
Crash ==
    /\ stage # "down" /\ crashes < MaxCrashes
    /\ crashes' = crashes + 1
    /\ stage' = "down"
    /\ bootLogs' = {}
    /\ channel' = <<>> /\ lagged' = FALSE /\ inbox' = NoMessage
    /\ pending' = <<>>
    /\ latest' = 0 /\ todo' = {} /\ txBlock' = 0 /\ removals' = {}
    /\ UNCHANGED <<floor, waiting, lost, chainVars, relayVars, errors>>

---------------------------------------------------------------------------
Init ==
    /\ height = 0 /\ loc = [e \in Events |-> 0] /\ reorgs = 0
    /\ stage = "down" /\ floor = 0 /\ bootLogs = {} /\ crashes = 0
    /\ waiting = 0 /\ channel = <<>> /\ lagged = FALSE /\ inbox = NoMessage
    /\ pending = <<>>
    /\ latest = 0 /\ todo = {} /\ txBlock = 0 /\ removals = {}
    /\ errors = 0
    /\ confirmed = {} /\ unconfirmed = {} /\ dropped = {} /\ lost = {}
    /\ touched = {}

Chain == Mine \/ Reorg

Scan == StartScan \/ VerifyTransaction \/ VerifyLogs \/ VerifyError \/ Remove
        \/ EndScan

Stream == ReceiveLagged \/ Receive \/ HandleLog

Boot == Initialize \/ FetchBootstrapLogs \/ ProcessBootstrapLog
        \/ BootstrapError \/ BootstrapDone

Next == Chain \/ process_new_block \/ Stream \/ Scan \/ Boot \/ Crash

Spec == Init /\ [][Next]_vars

\* The tasks keep running and blocks keep coming.  select! polls its arms in
\* random order, so neither the stream nor the timer starves.
Fairness ==
    /\ WF_vars(Mine)
    /\ WF_vars(process_new_block)
    /\ WF_vars(Stream)
    /\ WF_vars(Scan)
    /\ WF_vars(Boot)

FairSpec == Spec /\ Fairness

---------------------------------------------------------------------------
(* Properties.                                                             *)

\* Every variable keeps its type; the indices the scan of
\* process_confirmed_pending_events holds stay valid positions of the list.
TypeOK ==
    /\ height \in Nat /\ loc \in [Events -> Nat] /\ reorgs \in Nat
    /\ stage \in {"down", "init", "fetched", "live"}
    /\ waiting \in Nat /\ floor \in Nat /\ bootLogs \subseteq Events
    /\ channel \in Seq(Message) /\ lagged \in BOOLEAN /\ inbox \in Message
    /\ pending \in Seq(PendingEvent)
    /\ latest \in Nat /\ todo \subseteq DOMAIN pending /\ txBlock \in Nat
    /\ removals \subseteq DOMAIN pending
    /\ errors \in Nat /\ crashes \in Nat
    /\ confirmed \subseteq Events \X Nat
    /\ unconfirmed \subseteq Events /\ dropped \subseteq Events
    /\ lost \subseteq Events /\ touched \subseteq Events

\* An event relayed from pending_events stays where it was when it was
\* relayed: no later reorganisation moves it or takes it off the chain, however
\* the reorganisations before it, the batches of the EventManager and the two
\* RPCs of verify_event_on_chain were interleaved
\* (process_confirmed_pending_events).
ConfirmedRelaysAreFinal ==
    \A r \in confirmed : loc[r[1]] = r[2]

PendingEvents == {pending[i].ev : i \in DOMAIN pending}

InFlight == (UNION {channel[i].logs : i \in DOMAIN channel}) \cup inbox.logs

\* No event falls between the bootstrap range and the live stream, or out of
\* the pending list: one that was mined in a block this run of the process has
\* covered, and that no reorganisation moved, is on its way, relayed, or was
\* overwritten in a full broadcast channel (initialize, get_bootstrap_events,
\* process_new_block and the removal by index in
\* process_confirmed_pending_events).
NothingMissed ==
    stage = "live" =>
      \A e \in Events \ touched :
        (loc[e] # 0 /\ loc[e] >= floor /\ loc[e] < waiting) =>
          \/ e \in InFlight \cup PendingEvents \cup unconfirmed \cup lost
          \/ <<e, loc[e]>> \in confirmed

Waiting(e) ==
    \/ e \in InFlight
    \/ \E i \in DOMAIN pending : pending[i].ev = e /\ i \notin removals

\* A relayed event that no reorganisation moved is not waiting to be relayed a
\* second time by this run of the process: the EventManager reads no block
\* twice and the scan removes exactly the entries it relayed.
RelayedOnce ==
    crashes = 0 =>
      \A e \in Events \ touched :
        <<e, loc[e]>> \in confirmed => ~Waiting(e)

\* An event is given up as "reorged out" only if a reorganisation did move it;
\* neither RPC errors nor the block number of a batch (that of its first block)
\* make the handler drop an event that never left its block.
DroppedOnlyIfReorged == dropped \subseteq touched

\* The pending list drains: again and again every entry left in it is one the
\* bounded chain grows no further confirmations for.
PendingDrains ==
    []<>(\A i \in DOMAIN pending : pending[i].block + BlockConfirmations > MaxHeight)
=============================================================================
