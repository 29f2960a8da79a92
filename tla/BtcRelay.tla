----------------------------- MODULE BtcRelay -----------------------------
(***************************************************************************)
(* A relayer's view of Bitcoin: BlockManager (client/src/btc/block.rs),    *)
(* which turns confirmed blocks into inbound and outbound messages, and    *)
(* the two handlers that consume them (client/src/btc/handlers):           *)
(* InboundHandler votes for deposits and submits vault outputs as UTXOs,   *)
(* OutboundHandler reports the payouts of the bridge as executed.  The     *)
(* process may die and start again, with or without the bootstrap range;   *)
(* the chain may lose blocks.                                              *)
(*                                                                         *)
(* A transaction has one output the bridge knows.  The contracts of        *)
(* Bifrost are modelled by the views the handlers read.                    *)
(***************************************************************************)
EXTENDS Integers, Sequences, FiniteSets, SequencesExt, FiniteSetsExt

CONSTANTS
    Deposits,           \* transactions to a user's vault
    Changes,            \* transactions to the system vault
    Payouts,            \* transactions of the bridge to refund addresses
    Confirmations, Offset,          \* block_confirmations, bootstrap_offset
    Genesis,                        \* height of the chain at the first start
    ReorgDepth, MaxHeight, MaxReorgs, MaxFaults     \* bounds of the model

Txs == Deposits \cup Changes \cup Payouts

VARIABLES
    chain,      \* the blocks, each a set of transactions
    up,         \* "down", "boot" (before the bootstrap), "wait" (for all chains), "run"
    start,      \* first waiting_block of this process
    waiting,    \* waiting_block
    inbox, outbox,      \* messages the handlers have not taken
    polls,      \* transactions of this relayer that have not landed
    voted,      \* transactions this relayer's poll has reached Bifrost for
    finished,   \* deposits that a majority voted for
    rolled,     \* deposits registered as rollback outputs
    utxos,      \* vault outputs this relayer submitted to blaze
    selected,   \* is_selected_relayer
    passed,     \* history: transactions published from a confirmed block
    handled,    \* history: transactions whose event a handler has processed
    blind,      \* history: an event of the chain may have been passed over
    reorgs, faults

bitcoin  == <<chain, reorgs>>
manager  == <<up, start, waiting, passed>>
channels == <<inbox, outbox, handled>>
bifrost  == <<polls, voted, finished, rolled, utxos, selected>>
vars == <<bitcoin, manager, channels, bifrost, blind, faults>>

ASSUME BtcRelayAssumption ==
    /\ Confirmations \in Nat /\ Offset \in Nat
    /\ ReorgDepth \in 0 .. Confirmations
    /\ MaxHeight \in Nat /\ MaxReorgs \in Nat /\ MaxFaults \in Nat
    /\ Genesis \in 0 .. MaxHeight
    \* An address belongs to a user's vault, to the system vault or to a refund.
    /\ Changes \cap (Deposits \cup Payouts) = {}

Fail == faults < MaxFaults /\ faults' = faults + 1

latest == Len(chain)
OnChain == UNION Range(chain)
Between(from, to) == UNION {chain[n] : n \in from .. to}

---------------------------------------------------------------------------
(* Bitcoin.                                                                *)

Mine ==
    /\ latest < MaxHeight
    /\ \E block \in SUBSET (Txs \ OnChain) :
         Cardinality(block) <= 1 /\ chain' = Append(chain, block)
    /\ UNCHANGED <<reorgs, manager, channels, bifrost, blind, faults>>

\* The last k blocks give way to a longer branch.  What they held may be in it.
Reorg(k) ==
    /\ k <= latest /\ latest < MaxHeight /\ reorgs < MaxReorgs
    /\ LET kept == SubSeq(chain, 1, latest - k)
           free == Txs \ UNION Range(kept)
       IN \E block \in SUBSET free :
            /\ chain' = kept \o <<block>> \o [i \in 1 .. k |-> {}]
            \* Blocks below start are not read again.
            /\ blind' = (blind \/ (latest - k + 1 < start /\ ~(block \subseteq handled)))
    /\ reorgs' = reorgs + 1
    /\ UNCHANGED <<manager, channels, bifrost, faults>>

---------------------------------------------------------------------------
(* BlockManager.                                                           *)

filter_inbound(txs) == txs \cap (Deposits \cup Changes)
filter_outbound(txs) == txs \cap Payouts

\* waiting_block starts after the best block.
initialize ==
    /\ up = "down"
    /\ up' = "boot"
    /\ waiting' = latest + 1 /\ start' = latest + 1
    \* The bootstrap range does not reach all that the last process has left.
    /\ blind' = (blind \/ ~(Between(1, latest - Offset - 1) \subseteq handled))
    /\ UNCHANGED <<bitcoin, passed, channels, bifrost, faults>>

\* bootstrap: one message for the whole range, up to the best block.
bootstrap ==
    /\ up = "boot"
    /\ LET to == waiting - 1
           txs == Between(Max({1, to - Offset}), to)
       IN /\ inbox' = Append(inbox, filter_inbound(txs))
          /\ outbox' = Append(outbox, filter_outbound(txs))
    /\ up' = "wait"
    /\ UNCHANGED <<bitcoin, start, waiting, passed, handled, bifrost, blind, faults>>

\* wait_for_all_chains_bootstrapped: the other chains are ready too.
AllBootstrapped ==
    /\ up = "wait"
    /\ up' = "run"
    /\ UNCHANGED <<bitcoin, start, waiting, passed, channels, bifrost, blind, faults>>

is_block_confirmed == latest >= waiting /\ latest - waiting >= Confirmations

\* Seeded defect: one confirmation too few.
ConfirmedBlock_early == latest - Confirmations + 1

ConfirmedBlock == latest - Confirmations

\* Seeded defect: a block is passed over.
increment_waiting_block_twice(to) == waiting' = to + 2

increment_waiting_block(to) == waiting' = to + 1

\* One message of each kind for every block that is confirmed now.
process_confirmed_block ==
    /\ up = "run" /\ is_block_confirmed
    /\ LET to == ConfirmedBlock
           blocks == [i \in 1 .. to - waiting + 1 |-> chain[waiting + i - 1]]
       IN /\ inbox' = inbox \o [i \in DOMAIN blocks |-> filter_inbound(blocks[i])]
          /\ outbox' = outbox \o [i \in DOMAIN blocks |-> filter_outbound(blocks[i])]
          /\ passed' = passed \cup UNION Range(blocks)
          /\ increment_waiting_block(to)
    /\ UNCHANGED <<bitcoin, up, start, handled, bifrost, blind, faults>>

---------------------------------------------------------------------------
(* The handlers.  They take messages once all chains are bootstrapped; an  *)
(* error ends the message it occurs in, and run is called again.           *)

is_vote_finished(d) == d \in finished \/ d \in voted

\* Seeded defect: the change to the system vault is polled for as a deposit.
PollsFor_system(d) == IF d \notin rolled /\ ~is_vote_finished(d) THEN {d} ELSE {}

PollsFor(d) ==
    IF d \in Deposits /\ d \notin rolled /\ ~is_vote_finished(d) THEN {d} ELSE {}

submit_utxo(d) == IF d \notin utxos THEN {d} ELSE {}

\* process_event of InboundHandler for the events it comes to.
HandleInbound(events) ==
    /\ inbox' = Tail(inbox)
    /\ polls' = polls \cup UNION {PollsFor(d) : d \in events}
    /\ utxos' = utxos \cup UNION {submit_utxo(d) : d \in events}
    /\ handled' = handled \cup events
    /\ UNCHANGED <<bitcoin, manager, outbox, voted, finished, rolled, selected>>

\* process_event of OutboundHandler: a poll of the status Executed for the
\* requests of the payout.
HandleOutbound(events) ==
    /\ outbox' = Tail(outbox)
    /\ polls' = polls \cup events
    /\ handled' = handled \cup events
    /\ UNCHANGED <<bitcoin, manager, inbox, utxos, voted, finished, rolled, selected>>

Ignored == IF selected THEN {} ELSE Txs

Inbound ==
    /\ up = "run" /\ inbox # <<>>
    /\ HandleInbound(Head(inbox) \ Ignored)
    /\ UNCHANGED <<blind, faults>>

InboundError ==
    /\ up = "run" /\ inbox # <<>> /\ selected /\ Fail
    /\ \E part \in SUBSET Head(inbox) : part # Head(inbox) /\ HandleInbound(part)
    /\ blind' = TRUE

Outbound ==
    /\ up = "run" /\ outbox # <<>>
    /\ HandleOutbound(Head(outbox) \ Ignored)
    /\ UNCHANGED <<blind, faults>>

OutboundError ==
    /\ up = "run" /\ outbox # <<>> /\ selected /\ Fail
    /\ \E part \in SUBSET Head(outbox) : part # Head(outbox) /\ HandleOutbound(part)
    /\ blind' = TRUE

\* A panic (RpcApi::call gives up, an unwrap fails) ends the process.
Crash ==
    /\ up # "down" /\ Fail
    /\ up' = "down"
    /\ inbox' = <<>> /\ outbox' = <<>>
    /\ UNCHANGED <<bitcoin, start, waiting, passed, handled, bifrost, blind>>

---------------------------------------------------------------------------
(* Bifrost.                                                                *)

Land(d) ==
    /\ d \in polls
    /\ polls' = polls \ {d}
    /\ voted' = voted \cup {d}
    /\ UNCHANGED <<bitcoin, manager, channels, finished, rolled, utxos, selected, blind, faults>>

\* The other relayers have finished the vote.
Finish(d) ==
    /\ d \in Deposits \cap OnChain /\ d \notin finished /\ Fail
    /\ finished' = finished \cup {d}
    /\ UNCHANGED <<bitcoin, manager, channels, polls, voted, rolled, utxos, selected, blind>>

\* A rollback is requested for the deposit.
RequestRollback(d) ==
    /\ d \in Deposits \cap OnChain /\ d \notin rolled /\ Fail
    /\ rolled' = rolled \cup {d}
    /\ UNCHANGED <<bitcoin, manager, channels, polls, voted, finished, utxos, selected, blind>>

\* A round starts in which the relayer is not selected.
Unselect ==
    /\ selected /\ Fail
    /\ selected' = FALSE
    /\ UNCHANGED <<bitcoin, manager, channels, polls, voted, finished, rolled, utxos, blind>>

---------------------------------------------------------------------------

Init ==
    /\ chain = [n \in 1 .. Genesis |-> {}]
    /\ up = "down" /\ start = 0 /\ waiting = 0
    /\ inbox = <<>> /\ outbox = <<>>
    /\ polls = {} /\ voted = {} /\ finished = {} /\ rolled = {} /\ utxos = {}
    /\ selected = TRUE
    /\ passed = {} /\ handled = {} /\ blind = FALSE
    /\ reorgs = 0 /\ faults = 0

Relayer ==
    \/ initialize \/ bootstrap \/ AllBootstrapped \/ process_confirmed_block
    \/ Inbound \/ Outbound

Failures ==
    \/ InboundError \/ OutboundError \/ Crash \/ Unselect
    \/ \E d \in Deposits : Finish(d) \/ RequestRollback(d)

Next ==
    \/ Mine \/ (\E k \in 1 .. ReorgDepth : Reorg(k))
    \/ Relayer \/ (\E d \in Txs : Land(d)) \/ Failures

Spec == Init /\ [][Next]_vars

\* The process is restarted and every loop of it goes on.
FairSpec ==
    /\ Spec
    /\ WF_vars(initialize) /\ WF_vars(bootstrap) /\ WF_vars(AllBootstrapped)
    /\ WF_vars(process_confirmed_block) /\ WF_vars(Inbound) /\ WF_vars(Outbound)
    /\ \A d \in Txs : WF_vars(Land(d))

---------------------------------------------------------------------------

\* Types.  The handlers only get the transactions that are theirs, and no vote is ever
\* for the change to the system vault (filter_inbound, filter_outbound, process_event).
TypeOK ==
    /\ chain \in Seq(SUBSET Txs) /\ latest <= MaxHeight
    /\ up \in {"down", "boot", "wait", "run"}
    /\ start \in Nat /\ waiting \in Nat /\ start <= waiting
    /\ inbox \in Seq(SUBSET (Deposits \cup Changes)) /\ outbox \in Seq(SUBSET Payouts)
    /\ polls \subseteq Txs \ Changes /\ voted \subseteq Txs \ Changes
    /\ finished \subseteq Deposits /\ rolled \subseteq Deposits
    /\ utxos \subseteq Deposits \cup Changes
    /\ selected \in BOOLEAN /\ blind \in BOOLEAN
    /\ passed \subseteq Txs /\ handled \subseteq Txs
    /\ reorgs \in 0 .. MaxReorgs /\ faults \in 0 .. MaxFaults

\* What a relayer has published from a confirmed block, and so voted for, no
\* reorganisation of at most block_confirmations blocks takes back
\* (is_block_confirmed, process_confirmed_block).
PassedIsFinal == passed \subseteq OnChain

Settled(d) ==
    IF d \in Changes THEN d \in utxos
    ELSE d \in voted \cup finished \cup rolled

Buried(d) == d \in Between(1, latest - Confirmations)

\* A transaction that is buried under block_confirmations blocks is voted for, reported or
\* submitted as a UTXO in the end, across restarts and reorganisations (waiting_block, the
\* bootstrap range), unless the relayer is not selected or one of the holes in
\* the code was hit: an error dropped the rest of a message, a block below the
\* start was replaced after the bootstrap, or the outage was longer than
\* bootstrap_offset.  Once buried, settled, blind or not selected is so for ever, and Txs
\* is finite: there is a time after which no transaction is owed.
AllSettled ==
    []<>(\A d \in Txs : Buried(d) => Settled(d) \/ ~selected \/ blind)
=============================================================================
