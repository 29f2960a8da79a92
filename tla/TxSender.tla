----------------------------- MODULE TxSender -----------------------------
(***************************************************************************)
(* How an EthClient gets transactions onto its chain                       *)
(* (client/src/eth/mod.rs): the task that send_transaction spawns for each *)
(* request, sync_send_transaction, and flush_stalled_transactions, which   *)
(* either of them enters when its transaction is not mined in time; and    *)
(* HeartbeatSender (periodic/src/heartbeat_sender.rs), a worker that sends *)
(* again until its transaction has had its effect.                         *)
(*                                                                         *)
(* One account of the chain is modelled, with a transaction pool that      *)
(* holds one transaction per nonce.  The provider numbers transactions by  *)
(* a counter of its own (with_cached_nonce_management); a flush numbers    *)
(* them itself.                                                            *)
(***************************************************************************)
EXTENDS Integers, Sequences, FiniteSets

CONSTANTS
    Beats,          \* requests of send_transaction: the heartbeats of one session,
                    \* in the order of their ticks
    Syncs,          \* requests of sync_send_transaction
    None,
    MaxNonce, MaxFaults     \* bounds of the model

Pulse == {Beats[i] : i \in DOMAIN Beats}
Tasks == Syncs \cup Pulse
Nonces == 0 .. MaxNonce
Free == [req |-> None, copy |-> FALSE]

VARIABLES
    count,          \* get_transaction_count: nonce of the next transaction to be mined
    pool,           \* the txpool: what each nonce holds
    landed,         \* how often each request was mined
    seen,           \* requests whose own transaction was mined
    cached,         \* next nonce of the provider
    sent,           \* nonce of a transaction that the retry layer sends again
    pc,             \* where each task is
    again,          \* tasks that call send_transaction again after their flush
    lock,           \* holder of martial_law
    list,           \* transactions of the flush: <<request, nonce>>
    raced,          \* history: a flush found its first transaction mined already
    faults

accountVars == <<count, pool, landed, seen>>
senderVars  == <<sent, pc, again>>
flushVars == <<lock, list, raced>>
txVars == <<accountVars, cached, senderVars, flushVars, faults>>

ASSUME TxBounds == MaxNonce \in Nat /\ MaxFaults \in Nat /\ None \notin Tasks

TxFail == faults < MaxFaults /\ faults' = faults + 1

Go(t, step) == pc' = [pc EXCEPT ![t] = step]

---------------------------------------------------------------------------
(* The chain.                                                              *)

\* The transaction at the account's nonce is mined.
Mine ==
    /\ pool[count] # Free
    /\ count < MaxNonce
    /\ count' = count + 1
    /\ pool' = [pool EXCEPT ![count] = Free]
    /\ landed' = [landed EXCEPT ![pool[count].req] = @ + 1]
    /\ seen' = IF pool[count].copy THEN seen ELSE seen \cup {pool[count].req}
    /\ UNCHANGED <<cached, senderVars, flushVars, faults>>

---------------------------------------------------------------------------
(* The tasks.                                                              *)

Pulsed == \E b \in Pulse : landed[b] > 0

\* Before a heartbeat of the sequence come those of the earlier ticks.
Due(b) == \A i \in DOMAIN Beats : Beats[i] = b => \A j \in 1 .. i - 1 : pc[Beats[j]] # "idle"

\* Seeded defect: a heartbeat that was not recorded is not sent again.
Called_once(t) ==
    \/ pc[t] = "again"
    \/ pc[t] = "idle" /\ (t \in Pulse => t = Beats[1])

\* A handler or a periodic worker calls send_transaction; the heartbeat sender
\* does at every tick at which its heartbeat is not recorded.
Called(t) ==
    \/ pc[t] = "again"
    \/ pc[t] = "idle" /\ (t \in Pulse => ~Pulsed /\ Due(t))

fill_gas(t) ==
    /\ Called(t)
    /\ Go(t, "send")
    /\ UNCHANGED <<sent, accountVars, cached, again, flushVars, faults>>

\* The gas cannot be estimated: the request is dropped.
FillError(t) ==
    /\ Called(t) /\ TxFail
    /\ Go(t, "dropped")
    /\ UNCHANGED <<sent, accountVars, cached, again, flushVars>>

\* The nonce the provider takes is spent, whatever the node answers.
TakeNonce == cached < MaxNonce /\ cached' = cached + 1

SendAccepted(t) ==
    /\ pc[t] = "send" /\ cached >= count /\ pool[cached] = Free
    /\ TakeNonce
    /\ pool' = [pool EXCEPT ![cached] = [req |-> t, copy |-> FALSE]]
    /\ Go(t, "watch")
    /\ UNCHANGED <<sent, count, landed, seen, again, flushVars, faults>>

\* "nonce too low": flush, then send again; sync_send_transaction gives up.
NonceTooLow(t) ==
    /\ Go(t, IF t \in Syncs THEN "dropped" ELSE "lock")
    /\ again' = again \cup ({t} \ Syncs)

SendTooLow(t) ==
    /\ pc[t] = "send" /\ cached < count
    /\ TakeNonce /\ NonceTooLow(t)
    /\ UNCHANGED <<accountVars, sent, flushVars, faults>>

\* The nonce holds another transaction, and this one does not pay more.
SendUnderpriced(t) ==
    /\ pc[t] = "send" /\ cached >= count /\ pool[cached] # Free
    /\ TakeNonce
    /\ Go(t, "dropped")
    /\ UNCHANGED <<sent, accountVars, again, flushVars, faults>>

\* The node cannot be reached, as often as the retry layer tries.
SendError(t) ==
    /\ pc[t] = "send" /\ TxFail
    /\ TakeNonce
    /\ Go(t, "dropped")
    /\ UNCHANGED <<sent, accountVars, again, flushVars>>

\* The node takes the transaction and the answer is lost: the retry layer sends
\* the same transaction, nonce and all, again.
SendLost(t) ==
    /\ pc[t] = "send" /\ cached >= count /\ pool[cached] = Free /\ TxFail
    /\ TakeNonce
    /\ pool' = [pool EXCEPT ![cached] = [req |-> t, copy |-> FALSE]]
    /\ sent' = [sent EXCEPT ![t] = cached]
    /\ Go(t, "retry")
    /\ UNCHANGED <<count, landed, seen, again, flushVars>>

\* By then its nonce is spent, or the node says "already known" or "underpriced".
RetryAnswered(t) ==
    /\ pc[t] = "retry"
    /\ IF sent[t] < count THEN NonceTooLow(t) ELSE Go(t, "dropped") /\ again' = again
    /\ sent' = [sent EXCEPT ![t] = 0]
    /\ UNCHANGED <<accountVars, cached, flushVars, faults>>

Confirmed(t) ==
    /\ pc[t] = "watch" /\ t \in seen
    /\ Go(t, "done")
    /\ UNCHANGED <<sent, accountVars, cached, again, flushVars, faults>>

\* DEFAULT_TX_TIMEOUT_MS passes.
TimedOut(t) ==
    /\ pc[t] = "watch" /\ t \notin seen
    /\ Go(t, "lock")
    /\ UNCHANGED <<sent, accountVars, cached, again, flushVars, faults>>

---------------------------------------------------------------------------
(* flush_stalled_transactions.                                             *)

\* Seeded defect: a flush does not wait for the one under way.
Acquire_open(t) ==
    /\ pc[t] = "lock"
    /\ lock' = t
    /\ Go(t, "content")
    /\ UNCHANGED <<sent, accountVars, cached, again, list, raced, faults>>

Acquire(t) ==
    /\ pc[t] = "lock" /\ lock = None
    /\ lock' = t
    /\ Go(t, "content")
    /\ UNCHANGED <<sent, accountVars, cached, again, list, raced, faults>>

\* It returns Ok: the lock is dropped, and the request is sent again if it has
\* not been taken yet.
Leave(t) ==
    /\ lock' = None /\ list' = <<>> /\ raced' = raced
    /\ Go(t, IF t \in again THEN "again" ELSE "done")
    /\ again' = again \ {t}

\* It returns an error, on which the spawned task panics: the lock is dropped
\* too, and the request is not sent again.
LeaveByError(t) ==
    /\ lock' = None /\ list' = <<>> /\ raced' = raced
    /\ Go(t, IF t \in again THEN "dropped" ELSE "done")
    /\ again' = again \ {t}

\* txpool_status fails: there is nothing a flush can do.
FlushSkipped(t) ==
    /\ pc[t] = "content" /\ TxFail
    /\ Leave(t)
    /\ UNCHANGED <<sent, accountVars, cached>>

Holding == {n \in Nonces : pool[n] # Free}

\* Different numbers, in order, lie as far apart as their places at least.
Ascending(s) == \A i, j \in DOMAIN s : i <= j => s[i] + (j - i) <= s[j]

\* Pending and queued transactions, by nonce.
IsPoolContent(txs) ==
    \E nonces \in [1 .. Cardinality(Holding) -> Holding] :
      /\ Ascending(nonces) /\ Holding = {nonces[i] : i \in DOMAIN nonces}
      /\ txs = [i \in DOMAIN nonces |-> <<pool[nonces[i]].req, nonces[i]>>]

FlushContent(t) ==
    /\ pc[t] = "content"
    /\ IF Holding = {}
       THEN Leave(t)
       ELSE IsPoolContent(list') /\ Go(t, "count") /\ UNCHANGED <<lock, again, raced>>
    /\ UNCHANGED <<sent, accountVars, cached, faults>>

\* Seeded defect: the numbers start one too high.
Renumbered_ahead == [i \in DOMAIN list |-> <<list[i][1], count + i>>]

\* The first nonce is not the account's: all are numbered from there.
Renumbered ==
    IF list[1][2] = count THEN list
    ELSE [i \in DOMAIN list |-> <<list[i][1], count + i - 1>>]

FlushCount(t) ==
    /\ pc[t] = "count"
    /\ list' = Renumbered
    /\ raced' = (raced \/ list[1][2] < count)
    /\ Go(t, "resend")
    /\ UNCHANGED <<sent, accountVars, cached, again, lock, faults>>

\* The next transaction replaces what its nonce holds, as it pays more.
FlushSend(t) ==
    /\ pc[t] = "resend" /\ list[1][2] >= count /\ list[1][2] <= MaxNonce
    /\ pool' = [pool EXCEPT ![list[1][2]] = [req |-> list[1][1], copy |-> TRUE]]
    /\ Go(t, "flushing")
    /\ UNCHANGED <<sent, count, landed, seen, cached, again, flushVars, faults>>

\* Seeded defect: the flush goes on at a nonce that is too low.
FlushTooLow_again(t) ==
    /\ pc[t] = "resend" /\ list[1][2] < count
    /\ UNCHANGED txVars

FlushTooLow(t) ==
    /\ pc[t] = "resend" /\ list[1][2] < count
    /\ LeaveByError(t)
    /\ UNCHANGED <<sent, accountVars, cached, faults>>

\* An RPC of the flush fails.
FlushError(t) ==
    /\ pc[t] \in {"content", "count", "resend"} /\ TxFail
    /\ LeaveByError(t)
    /\ UNCHANGED <<sent, accountVars, cached>>

FlushConfirmed(t) ==
    /\ pc[t] = "flushing" /\ count > list[1][2]
    /\ IF Len(list) = 1 THEN Leave(t)
       ELSE list' = Tail(list) /\ Go(t, "resend") /\ UNCHANGED <<lock, again, raced>>
    /\ UNCHANGED <<sent, accountVars, cached, faults>>

\* It is not mined in time: push_front, and once more.
FlushTimedOut(t) ==
    /\ pc[t] = "flushing" /\ count <= list[1][2]
    /\ Go(t, "resend")
    /\ UNCHANGED <<sent, accountVars, cached, again, flushVars, faults>>

---------------------------------------------------------------------------

TxInit ==
    /\ count = 0 /\ cached = 0
    /\ pool = [n \in Nonces |-> Free]
    /\ landed = [t \in Tasks |-> 0] /\ seen = {}
    /\ sent = [t \in Tasks |-> 0] /\ pc = [t \in Tasks |-> "idle"] /\ again = {}
    /\ lock = None /\ list = <<>> /\ raced = FALSE
    /\ faults = 0

Send(t) == SendAccepted(t) \/ SendTooLow(t) \/ SendUnderpriced(t) \/ RetryAnswered(t)

Flush(t) ==
    \/ Acquire(t) \/ FlushContent(t) \/ FlushCount(t)
    \/ FlushSend(t) \/ FlushTooLow(t) \/ FlushConfirmed(t) \/ FlushTimedOut(t)

Step(t) == fill_gas(t) \/ Send(t) \/ Confirmed(t) \/ TimedOut(t) \/ Flush(t)

Failures == \E t \in Tasks : FillError(t) \/ SendError(t) \/ SendLost(t)
                             \/ FlushSkipped(t) \/ FlushError(t)

TxNext == Mine \/ (\E t \in Tasks : Step(t)) \/ Failures

TxSpec == TxInit /\ [][TxNext]_txVars

\* The chain mines what it can, and no task stalls; whether an RPC fails is
\* nobody's duty.
TxFairSpec ==
    /\ TxSpec
    /\ WF_txVars(Mine)
    /\ \A t \in Tasks : WF_txVars(Step(t))

---------------------------------------------------------------------------

Steps == {"idle", "again", "send", "retry", "watch", "lock", "content", "count", "resend",
          "flushing", "done", "dropped"}

InFlush == {t \in Tasks : pc[t] \in {"content", "count", "resend", "flushing"}}

\* The types, and martial_law: flush_stalled_transactions runs in the task that
\* holds the lock and in no other.
TxTypeOK ==
    /\ count \in Nonces /\ cached \in Nonces
    /\ pool \in [Nonces -> [req : Tasks, copy : BOOLEAN] \cup {Free}]
    /\ landed \in [Tasks -> Nat] /\ seen \subseteq Tasks
    /\ sent \in [Tasks -> Nonces] /\ pc \in [Tasks -> Steps] /\ again \subseteq Tasks
    /\ list \in Seq(Tasks \X Nat)
    /\ InFlush = {lock} \ {None}
    /\ raced \in BOOLEAN /\ faults \in 0 .. MaxFaults

InPool(t) == \E n \in Nonces : pool[n].req = t

\* The request was taken by the node when it was sent.
Accepted(t) == pc[t] \in Steps \ {"idle", "again", "send", "retry", "dropped"} /\ t \notin again

\* What the node has taken is mined or waits in the pool: a replacement (the RBF of
\* flush_stalled_transactions) never pushes a request out, not even until the flush
\* comes to it, so that a flush may fail at any transaction; unless it takes one that
\* was mined between its txpool_content_from and its get_transaction_count for a
\* stalled one and gives it a nonce in use.
NothingLost == raced \/ \A t \in Tasks : Accepted(t) => (landed[t] > 0 \/ InPool(t))

\* No nonce is missing between two transactions of the pool.
NoHole == \A m, n \in Holding : m .. n \subseteq Holding

\* A task that holds martial_law gives it back, whether its flush ends, fails or
\* panics, as long as the pool has no hole: flush_stalled_transactions sends a
\* transaction until it is mined.
Released == []NoHole => ((lock # None) ~> (lock = None))

\* The heartbeat is recorded in the end, with one tick more than there are
\* failures to spend and one more for the request a raced flush may push out:
\* HeartbeatSender::run sends again while is_heartbeat_pulsed is false.
Pulses == [](NoHole /\ faults + 2 <= Len(Beats)) => <>Pulsed
=============================================================================
