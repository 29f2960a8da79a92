-------------------------- MODULE SocketOnflight --------------------------
(***************************************************************************)
(* SocketOnflightHandler                                                   *)
(* (client/src/eth/handlers/socket_onflight_handler.rs): on every best     *)
(* block of the Bifrost Substrate chain it reads the OnFlightTransfers     *)
(* storage of the relay queue and hands each approved transfer over to     *)
(* SocketRelayHandler, a Fast one at once, a Standard one when its source  *)
(* transaction is deep enough and still where it was.                      *)
(*                                                                         *)
(* A transfer stands for its msg_hash, its socket message and its source   *)
(* transaction.  One source chain is modelled, as nothing is shared        *)
(* between the source chains; only the handler's own task takes the locks  *)
(* of pending_standard_transfers and processed_transfers.                  *)
(***************************************************************************)
EXTENDS Naturals, Sequences

CONSTANTS
    Fast, Standard,     \* the transfers, by TransferOption
    Conf,               \* block_confirmations of the source chain
    MaxDepth,           \* deepest reorganisation of the source chain
    MaxHeight, MaxReorgs, MaxQueue, MaxForks, MaxFaults    \* bounds of the model

Transfers == Fast \cup Standard

VARIABLES
    height, txBlock,    \* source chain: head, and block of each transaction (0: none)
    onflight,           \* OnFlightTransfers in the best block of Bifrost
    finalized,          \* FinalizedTransfers
    stream,             \* sub_block_stream: OnFlightTransfers of the blocks to come
    pc,                 \* what the handler is doing
    todo,               \* storage entries the loop has still to visit
    keys,               \* entries of the block at hand (current_storage_keys)
    pending,            \* pending_standard_transfers: <<transfer, src_block_number>>
    processed,          \* processed_transfers
    idx,                \* entry of pending being checked
    kept,               \* entries that stay, block numbers updated
    ready,              \* transfers_to_process: how often each one occurs
    unmark,             \* hashes_to_unmark
    handed,             \* hand-overs of each transfer by this process
    reorgs, forks,
    faults              \* RPC errors, second runs and crashes so far

chainVars   == <<height, txBlock, reorgs>>
storageVars == <<onflight, finalized, forks>>
checkVars   == <<idx, kept, ready, unmark>>
markVars    == <<pending, processed, handed>>
scanVars    == <<todo, keys>>
vars == <<chainVars, storageVars, stream, pc, scanVars, markVars, checkVars, faults>>

ASSUME TransfersAssumption == Fast \cap Standard = {}

\* Reorganisations do not reach below block_confirmations.
ASSUME DepthAssumption ==
    Conf \in Nat \ {0} /\ MaxDepth \in Nat /\ MaxDepth <= Conf

ASSUME BoundsAssumption ==
    /\ MaxHeight \in Nat /\ MaxReorgs \in Nat /\ MaxQueue \in Nat
    /\ MaxForks \in Nat /\ MaxFaults \in Nat

---------------------------------------------------------------------------
(* The chains.                                                             *)

\* The source chain grows; S are the transactions of the new block.
Mine(S) ==
    /\ height < MaxHeight
    /\ height' = height + 1
    /\ txBlock' = [t \in Transfers |-> IF t \in S /\ txBlock[t] = 0
                                       THEN height + 1 ELSE txBlock[t]]
    /\ UNCHANGED <<reorgs, storageVars, stream, pc, scanVars, markVars, checkVars, faults>>

Above(d) == {t \in Transfers : txBlock[t] + d > height}

\* The blocks above height - d are replaced by a longer fork, which has their
\* transactions in any of its blocks, or not at all.  The model leaves the chain
\* room to settle afterwards.
Reorg(d, place) ==
    /\ reorgs < MaxReorgs /\ height + Conf < MaxHeight /\ d <= height
    /\ reorgs' = reorgs + 1
    /\ height' = height + 1
    /\ txBlock' = [t \in Transfers |-> IF t \in Above(d) THEN place[t] ELSE txBlock[t]]
    /\ UNCHANGED <<storageVars, stream, pc, scanVars, markVars, checkVars, faults>>

\* A best block of Bifrost with these entries reaches the subscription.
Publish(entries) ==
    /\ Len(stream) < MaxQueue
    /\ onflight' = entries
    /\ stream' = IF pc \in {"stopped", "recover"} THEN stream ELSE Append(stream, entries)

\* The relayers' on-flight votes for a transaction they saw reach the quorum.
Approve(t) ==
    /\ t \notin onflight \cup finalized /\ txBlock[t] # 0
    /\ Publish(onflight \cup {t})
    /\ UNCHANGED <<chainVars, finalized, forks, pc, scanVars, markVars, checkVars, faults>>

\* The finalize votes do.
Finalize(t) ==
    /\ t \in onflight
    /\ Publish(onflight \ {t})
    /\ finalized' = finalized \cup {t}
    /\ UNCHANGED <<chainVars, forks, pc, scanVars, markVars, checkVars, faults>>

\* Best blocks are not final: the block with the approval is abandoned.
Fork(t) ==
    /\ t \in onflight /\ forks < MaxForks
    /\ Publish(onflight \ {t})
    /\ forks' = forks + 1
    /\ UNCHANGED <<chainVars, finalized, pc, scanVars, markVars, checkVars, faults>>

EmptyBlock ==
    /\ stream = <<>> /\ pc = "idle"
    /\ Publish(onflight)
    /\ UNCHANGED <<chainVars, finalized, forks, pc, scanVars, markVars, checkVars, faults>>

---------------------------------------------------------------------------
(* The handler.                                                            *)

Fail == faults < MaxFaults /\ faults' = faults + 1

\* The block in the receipt of the source transaction; 0 if there is no receipt.
Receipt(t) == txBlock[t]

\* send_to_socket_relay_handler for each of these, so many times: the channel is
\* unbounded and its receiver lives as long as the process.
HandOver(times) ==
    handed' = [t \in Transfers |-> IF t \in DOMAIN times THEN handed[t] + times[t]
                                                        ELSE handed[t]]

\* The receipt is found: the transfer waits and is marked.
Push(t) ==
    /\ pending' = Append(pending, <<t, Receipt(t)>>)
    /\ processed' = processed \cup {t}

\* run starts with recover_pending_standard_transfers.
StartRecovery ==
    /\ pc = "stopped"
    /\ pc' = "recover" /\ todo' = onflight \cap Standard
    /\ UNCHANGED <<chainVars, storageVars, stream, keys, markVars, checkVars, faults>>

Recover(t) ==
    /\ pc = "recover" /\ t \in todo
    /\ todo' = todo \ {t}
    /\ IF Receipt(t) # 0 THEN Push(t) ELSE UNCHANGED <<pending, processed>>
    /\ UNCHANGED <<chainVars, storageVars, stream, pc, keys, handed, checkVars, faults>>

\* The receipt cannot be read: this entry is skipped (rest = the others).  The
\* storage cannot: all that are left are (rest = {}).
RecoverError(rest) ==
    /\ pc = "recover" /\ todo # {}
    /\ Fail
    /\ todo' = rest
    /\ UNCHANGED <<chainVars, storageVars, stream, pc, keys, markVars, checkVars>>

\* stream_best_blocks: the first item is the current best block.
Subscribe ==
    /\ pc = "recover" /\ todo = {}
    /\ pc' = "idle" /\ stream' = <<onflight>>
    /\ UNCHANGED <<chainVars, storageVars, scanVars, markVars, checkVars, faults>>

\* The subscription fails or ends: run returns and is called again, on the same
\* handler.  With bootstrap enabled that run does not get past the wait for its
\* phase, which has passed; this is the setting without.
Rerun ==
    /\ Fail
    /\ pc = "idle" \/ (pc = "recover" /\ todo = {})
    /\ pc' = "stopped" /\ stream' = <<>>
    /\ UNCHANGED <<chainVars, storageVars, scanVars, markVars, checkVars>>

\* The local variables of a pass over the pending transfers.
Unchecked ==
    /\ idx' = 1 /\ kept' = <<>> /\ unmark' = {}
    /\ ready' = [t \in Standard |-> 0]

\* process_substrate_block begins with the transfers that wait, if any.
TakeBlock ==
    /\ pc = "idle" /\ stream # <<>>
    /\ keys' = Head(stream) /\ stream' = Tail(stream)
    /\ pc' = "check"
    /\ UNCHANGED <<chainVars, storageVars, todo, markVars, checkVars, faults>>

\* Seeded defect: one confirmation too few is enough.
DeepEnough_early(b) == height >= b /\ height - b >= Conf - 1

DeepEnough(b) == height >= b /\ height - b >= Conf

\* The head of the source chain is read; the entry waits if it is not deep enough.
CheckHead ==
    /\ pc = "check" /\ idx <= Len(pending)
    /\ IF DeepEnough(pending[idx][2])
       THEN pc' = "verify" /\ UNCHANGED checkVars
       ELSE /\ kept' = Append(kept, pending[idx]) /\ idx' = idx + 1
            /\ UNCHANGED <<pc, ready, unmark>>
    /\ UNCHANGED <<chainVars, storageVars, stream, scanVars, markVars, faults>>

\* Seeded defect: an entry that has moved keeps the block it was in.
CheckReceipt_stale ==
    /\ pc = "verify" /\ idx <= Len(pending)
    /\ pc' = "check" /\ idx' = idx + 1
    /\ LET t == pending[idx][1] IN
       \/ /\ Receipt(t) # 0 /\ Receipt(t) = pending[idx][2]
          /\ ready' = [ready EXCEPT ![t] = @ + 1] /\ UNCHANGED <<kept, unmark>>
       \/ /\ Receipt(t) # 0 /\ Receipt(t) # pending[idx][2]
          /\ kept' = Append(kept, pending[idx]) /\ UNCHANGED <<ready, unmark>>
       \/ /\ Receipt(t) = 0
          /\ unmark' = unmark \cup {t} /\ UNCHANGED <<kept, ready>>
    /\ UNCHANGED <<chainVars, storageVars, stream, scanVars, markVars, faults>>

\* verify_src_transaction: the receipt is where it was, has moved, or is gone.
CheckReceipt ==
    /\ pc = "verify" /\ idx <= Len(pending)
    /\ pc' = "check" /\ idx' = idx + 1
    /\ LET t == pending[idx][1] IN
       \/ /\ Receipt(t) # 0 /\ Receipt(t) = pending[idx][2]
          /\ ready' = [ready EXCEPT ![t] = @ + 1] /\ UNCHANGED <<kept, unmark>>
       \/ /\ Receipt(t) # 0 /\ Receipt(t) # pending[idx][2]
          /\ kept' = Append(kept, <<t, Receipt(t)>>) /\ UNCHANGED <<ready, unmark>>
       \/ /\ Receipt(t) = 0
          /\ unmark' = unmark \cup {t} /\ UNCHANGED <<kept, ready>>
    /\ UNCHANGED <<chainVars, storageVars, stream, scanVars, markVars, faults>>

\* Either RPC fails: the entry is kept for the next block.
CheckError ==
    /\ pc \in {"check", "verify"} /\ idx <= Len(pending)
    /\ Fail
    /\ kept' = Append(kept, pending[idx]) /\ idx' = idx + 1
    /\ pc' = "check"
    /\ UNCHANGED <<chainVars, storageVars, stream, scanVars, markVars, ready, unmark>>

\* Seeded defect: what was reorganised out stays marked.
EndCheck_marked ==
    /\ pc = "check" /\ idx > Len(pending)
    /\ pending' = kept
    /\ HandOver(ready)
    /\ pc' = "scan" /\ todo' = keys /\ Unchecked
    /\ UNCHANGED <<chainVars, storageVars, stream, processed, keys, faults>>

\* The updates, removals and unmarkings are applied, the confirmed transfers
\* are handed over, and the loop over the entries of the block begins.
EndCheck ==
    /\ pc = "check" /\ idx > Len(pending)
    /\ pending' = kept
    /\ processed' = processed \ unmark
    /\ HandOver(ready)
    /\ pc' = "scan" /\ todo' = keys /\ Unchecked
    /\ UNCHANGED <<chainVars, storageVars, stream, keys, faults>>

\* One iteration of the loop of process_substrate_block.
Scan(t) ==
    /\ pc = "scan" /\ t \in todo
    /\ todo' = todo \ {t}
    /\ \/ /\ t \in processed \/ (t \in Standard /\ Receipt(t) = 0)
          /\ UNCHANGED markVars
       \/ /\ t \notin processed /\ t \in Fast
          /\ HandOver([x \in {t} |-> 1]) /\ processed' = processed \cup {t}
          /\ UNCHANGED pending
       \/ /\ t \notin processed /\ t \in Standard /\ Receipt(t) # 0
          /\ Push(t) /\ UNCHANGED handed
    /\ UNCHANGED <<chainVars, storageVars, stream, pc, keys, checkVars, faults>>

\* The receipt of a Standard transfer cannot be read: it is skipped.
ScanSkip(t) ==
    /\ pc = "scan" /\ t \in (todo \cap Standard) \ processed
    /\ Fail
    /\ todo' = todo \ {t}
    /\ UNCHANGED <<chainVars, storageVars, stream, pc, keys, markVars, checkVars>>

\* The storage cannot be read: the block is given up, without the cleanup.
ScanError ==
    /\ pc = "scan"
    /\ Fail
    /\ pc' = "idle" /\ todo' = {} /\ keys' = {}
    /\ UNCHANGED <<chainVars, storageVars, stream, markVars, checkVars>>

\* Seeded defect: the marks are cleared with every block.
Cleanup_all ==
    /\ pc = "scan" /\ todo = {}
    /\ processed' = {}
    /\ pc' = "idle" /\ keys' = {}
    /\ UNCHANGED <<chainVars, storageVars, stream, todo, pending, handed, checkVars, faults>>

Cleanup ==
    /\ pc = "scan" /\ todo = {}
    /\ processed' = processed \cap keys
    /\ pc' = "idle" /\ keys' = {}
    /\ UNCHANGED <<chainVars, storageVars, stream, todo, pending, handed, checkVars, faults>>

\* The process stops and is started again: its memory is gone.
Crash ==
    /\ Fail
    /\ pc' = "stopped" /\ stream' = <<>> /\ todo' = {} /\ keys' = {}
    /\ pending' = <<>> /\ processed' = {} /\ handed' = [t \in Transfers |-> 0]
    /\ Unchecked
    /\ UNCHANGED <<chainVars, storageVars>>

---------------------------------------------------------------------------
Init ==
    /\ height = 0 /\ txBlock = [t \in Transfers |-> 0]
    /\ onflight = {} /\ finalized = {}
    /\ stream = <<>> /\ pc = "stopped" /\ todo = {} /\ keys = {}
    /\ pending = <<>> /\ processed = {} /\ handed = [t \in Transfers |-> 0]
    /\ idx = 1 /\ kept = <<>> /\ ready = [t \in Standard |-> 0] /\ unmark = {}
    /\ reorgs = 0 /\ forks = 0 /\ faults = 0

Handler ==
    \/ StartRecovery \/ Subscribe \/ TakeBlock
    \/ CheckHead \/ CheckReceipt \/ EndCheck \/ Cleanup
    \/ \E t \in todo : Recover(t) \/ Scan(t)

Mining == \E S \in SUBSET Transfers : Mine(S)

Source ==
    \/ Mining
    \/ \E d \in 1 .. MaxDepth :
         \E place \in [Above(d) -> {0} \cup (height - d) + 1 .. height + 1] : Reorg(d, place)

Next ==
    \/ Handler \/ Source \/ EmptyBlock
    \/ \E t \in Transfers : Approve(t) \/ Finalize(t) \/ Fork(t)
    \/ \E rest \in SUBSET todo : RecoverError(rest)
    \/ CheckError \/ ScanError \/ \E t \in todo : ScanSkip(t)
    \/ Rerun \/ Crash

Spec == Init /\ [][Next]_vars

\* The handler's task runs, and the two chains go on making blocks.
FairSpec == Spec /\ WF_vars(Handler) /\ WF_vars(EmptyBlock) /\ WF_vars(Mining)

---------------------------------------------------------------------------
(* Properties.                                                             *)

\* Every variable keeps its type.
TypeOK ==
    /\ height \in Nat /\ txBlock \in [Transfers -> Nat]
    /\ onflight \subseteq Transfers /\ finalized \subseteq Transfers
    /\ stream \in Seq(SUBSET Transfers)
    /\ pc \in {"stopped", "recover", "idle", "check", "verify", "scan"}
    /\ todo \subseteq (IF pc = "recover" THEN Standard ELSE Transfers)
    /\ keys \subseteq Transfers
    /\ pending \in Seq(Standard \X Nat) /\ processed \subseteq Transfers
    /\ handed \in [Transfers -> Nat]
    /\ idx \in Nat \ {0} /\ kept \in Seq(Standard \X Nat)
    /\ ready \in [Standard -> Nat] /\ unmark \subseteq Standard
    /\ reorgs \in Nat /\ forks \in Nat /\ faults \in Nat

Listed(s, t) == \E i \in 1 .. Len(s) : s[i][1] = t

Settled(t) == txBlock[t] # 0 /\ txBlock[t] + Conf <= height

\* A Standard transfer is handed over only when no reorganisation can take its
\* source transaction away, although the head, the receipt and the block number
\* the two are compared with are read at three different times
\* (process_pending_standard_transfers).
HandedOverIsSettled == \A t \in Standard : handed[t] > 0 => Settled(t)

\* A mark in processed_transfers never hides a transfer that is neither waiting
\* nor handed over: it would not be looked at again (process_substrate_block).
MarkedIsTracked == \A t \in processed : handed[t] > 0 \/ Listed(pending, t)

\* What processed_transfers is for, "to avoid duplicate processing": a transfer is
\* not handed over a second time, however its source transaction is reorganised,
\* unless its approval is abandoned and comes again, or a second run on the same
\* handler recovers what the first one has listed.
HandedOverOnce == faults = 0 /\ forks = 0 => \A t \in Transfers : handed[t] <= 1

\* A transfer that stays approved, and whose source transaction stays settled,
\* is handed over by the process that is running in the end, whatever was
\* reorganised, skipped or interrupted before.
SettledIsHandedOver ==
    \A t \in Transfers :
      <>[](t \in onflight /\ Settled(t)) => <>[](handed[t] > 0)
=============================================================================
