-------------------------- MODULE SocketProtocol --------------------------
(***************************************************************************)
(* The relay of requests between the chains by several relayers, each of   *)
(* which runs                                                              *)
(*                                                                         *)
(*   SocketRelayHandler     client/src/eth/handlers/socket_relay_handler.rs*)
(*   SocketQueuePoller      client/src/eth/handlers/socket_queue_poller.rs *)
(*   SocketOnflightHandler  (its hand-over only: see SocketOnflight)       *)
(*   OutboundHandler        client/src/btc/handlers/outbound.rs            *)
(*   SocketRollbackEmitter  periodic/src/socket_rollback_emitter.rs        *)
(*                                                                         *)
(* in relay-queue mode (cccp_relay_queue_enabled).  The sockets and the    *)
(* pallets CCCPRelayQueue and Blaze are external: they are what the        *)
(* relayer relies on, and as weak as it allows.  The socket of Bifrost     *)
(* counts polls and, at a quorum, takes the status that was polled or      *)
(* signed; it cannot see the other chain.  A socket elsewhere takes the    *)
(* status of a poll that carries a quorum of signatures.  What the relay   *)
(* handler does for hooks is in Oracle.                                    *)
(*                                                                         *)
(* Logs reach the relayer as EventRelay shows: late and in any order.      *)
(***************************************************************************)
EXTENDS Naturals, SocketMessages

CONSTANTS
    Relayers,
    Selected,       \* those selected in the round of the requests
    Quorums,
    Requests,
    Shapes,         \* [kind, oversized] of the requests considered
    Sequence,       \* req_id.sequence: requests of one chain differ in it
    MaxFaults       \* bound of the model

VARIABLES
    shape,          \* what each request is
    src, dst,       \* status of each request on its two chains
    logs,           \* Socket events: <<request, side, status>>
    votes,          \* polls counted on Bifrost: <<relayer, request, ballot>>
    queue,          \* CCCPRelayQueue: where each transfer is
    txs,            \* transactions and extrinsics on their way
    done,           \* logs each relay handler has processed
    polled,         \* logs each queue poller has
    handed,         \* transfers each onflight handler has handed over
    rollback,       \* each request in the SocketRollbackEmitter
    panicked,       \* a relay handler met a status it does not know
    faults, crashes

chainVars == <<shape, src, dst, logs, votes, queue>>
boundVars == <<faults, crashes>>
vars == <<chainVars, txs, done, polled, handed, rollback, panicked, boundVars>>

ASSUME ConstantsAssumption ==
    /\ Selected \subseteq Relayers
    /\ Quorums \subseteq (SUBSET Relayers) \ {{}}
    /\ Shapes \subseteq [kind : Kinds, oversized : BOOLEAN]
    /\ MaxFaults \in Nat

IsQuorum(S) == \E Q \in Quorums : Q \subseteq S

Kind(q) == shape[q].kind
StatusAt(q, side) == IF side = "src" THEN src[q] ELSE dst[q]
Voters(q, ballot) == {r \in Relayers : <<r, q, ballot>> \in votes}

Tx(r, q, to, status) == [from |-> r, req |-> q, to |-> to, status |-> status]

Payloads == Statuses \cup {"OnFlight", "Outbound"}

Fail == faults + crashes < MaxFaults /\ faults' = faults + 1 /\ crashes' = crashes
Crash == faults + crashes < MaxFaults /\ crashes' = crashes + 1 /\ faults' = faults

---------------------------------------------------------------------------
(* The chains.                                                             *)

\* The request is in a settled block.  A Bitcoin deposit is one when the
\* BitcoinSocket on Bifrost says so.
Request(q) ==
    /\ src[q] = "None" /\ <<q, "dst", "Requested">> \notin logs
    /\ IF Kind(q) = "btcInbound"
       THEN src' = src /\ logs' = logs \cup {<<q, "dst", "Requested">>}
       ELSE /\ src' = [src EXCEPT ![q] = "Requested"]
            /\ logs' = logs \cup {<<q, "src", "Requested">>}
    /\ UNCHANGED <<shape, dst, votes, queue, txs, done, polled, handed,
                   rollback, panicked, boundVars>>

\* The sockets that take status s for request q at this end.
Records(q, side, s) ==
    /\ logs' = logs \cup {<<q, side, s>>}
    /\ IF side = "src" THEN src' = [src EXCEPT ![q] = s] /\ dst' = dst
                       ELSE dst' = [dst EXCEPT ![q] = s] /\ src' = src

Ignores == UNCHANGED <<src, dst, logs>>

\* What a quorum for a ballot makes of the request on Bifrost.
Counted(q, ballot) ==
    IF is_inbound_sequence(Kind(q))
    THEN CASE ballot = "Requested" /\ dst[q] = "None" -> {"Executed", "Reverted"}
           [] ballot = "Failed" /\ dst[q] = "None" -> {"Reverted"}
           [] ballot \in {"Accepted", "Rejected"} /\ dst[q] \in {"Executed", "Reverted"}
                -> {ballot}
           [] OTHER -> {}
    ELSE CASE ballot = "Accepted" /\ src[q] = "Requested" -> {"Accepted"}
           [] ballot = "Executed" /\ src[q] = "Accepted" -> {"Committed"}
           [] ballot = "Reverted" /\ src[q] = "Accepted" -> {"Rollbacked"}
           [] OTHER -> {}

\* What a poll with a quorum of signatures makes of it elsewhere.
Relayed(q, status) ==
    IF is_inbound_sequence(Kind(q))
    THEN CASE status = "Accepted" /\ src[q] = "Requested" -> {"Committed"}
           [] status = "Rejected" /\ src[q] = "Requested" -> {"Rollbacked"}
           [] OTHER -> {}
    ELSE CASE status = "Accepted" /\ dst[q] = "None" -> {"Executed", "Reverted"}
           [] status = "Rejected" /\ dst[q] = "None" -> {"Reverted"}
           [] OTHER -> {}

\* A poll on Bifrost is counted, and acted on if its ballot has a quorum now.
BifrostPoll(tx) ==
    LET q == tx.req
        ballot == Ballot(Kind(q), tx.status)
        new == Counted(q, ballot) IN
    /\ tx.status \in Statuses /\ tx.to = BifrostSide(Kind(q))
    /\ txs' = txs \ {tx}
    /\ votes' = votes \cup {<<tx.from, q, ballot>>}
    /\ \/ /\ IsQuorum(Voters(q, ballot) \cup {tx.from})
          /\ \E s \in new : Records(q, BifrostSide(Kind(q)), s)
       \/ (~IsQuorum(Voters(q, ballot) \cup {tx.from}) \/ new = {}) /\ Ignores
    /\ UNCHANGED <<shape, queue, done, polled, handed, rollback, panicked, boundVars>>

\* get_signatures of a request that rolls back gives those for Accepted.
Signers(q, status) ==
    Voters(q, IF is_inbound_sequence(Kind(q)) THEN status ELSE "Accepted")

ExternalPoll(tx) ==
    LET q == tx.req new == Relayed(q, tx.status) IN
    /\ tx.status \in Statuses /\ tx.to \in {"src", "dst"} \ {BifrostSide(Kind(q))}
    /\ txs' = txs \ {tx}
    /\ \/ /\ IsQuorum(Signers(q, tx.status))
          /\ \E s \in new : Records(q, tx.to, s)
       \/ (~IsQuorum(Signers(q, tx.status)) \/ new = {}) /\ Ignores
    /\ UNCHANGED <<shape, votes, queue, done, polled, handed, rollback, panicked,
                   boundVars>>

\* CCCPRelayQueue: a quorum of on_flight_poll approves a transfer, a quorum of
\* finalize_poll with one outcome finalizes it.
QueueCall(tx) ==
    LET q == tx.req
        quorum == IsQuorum(Voters(q, tx.status) \cup {tx.from})
        expected == queue[q] = IF tx.status = "OnFlight" THEN "none" ELSE "OnFlight" IN
    /\ tx.to = "queue"
    /\ txs' = txs \ {tx}
    /\ votes' = IF expected THEN votes \cup {<<tx.from, q, tx.status>>} ELSE votes
    /\ queue' = IF expected /\ quorum THEN [queue EXCEPT ![q] = tx.status] ELSE queue
    /\ UNCHANGED <<shape, src, dst, logs, done, polled, handed, rollback,
                   panicked, boundVars>>

\* The pallet Blaze has the payment made on Bitcoin once a quorum submitted the
\* request (its PSBT is signed, see VaultKeys, and broadcast, see PsbtQueue).
BlazeCall(tx) ==
    LET q == tx.req IN
    /\ tx.to = "blaze"
    /\ txs' = txs \ {tx}
    /\ votes' = votes \cup {<<tx.from, q, "Outbound">>}
    /\ IF IsQuorum(Voters(q, "Outbound") \cup {tx.from}) /\ dst[q] = "None"
       THEN Records(q, "dst", "Executed") ELSE Ignores
    /\ UNCHANGED <<shape, queue, done, polled, handed, rollback, panicked, boundVars>>

---------------------------------------------------------------------------
(* SocketRelayHandler.                                                     *)

\* Seeded defect: a request that was rolled back has not ended.
is_sequence_ended_committed(q, status) ==
    IF Kind(q) = "btcInbound" THEN status = "Accepted" ELSE src[q] = "Committed"

is_sequence_ended(q, status) ==
    IF Kind(q) = "btcInbound" THEN status = "Accepted"
                              ELSE src[q] \in {"Committed", "Rollbacked"}

\* send_socket_message: an unknown chain is passed over; an executable relay is
\* first sent to the rollback emitter of its chain.
RelayTxs(r, q, status) ==
    LET to == RelayTxChain(Kind(q), status) IN
    IF HasClient(Kind(q), to) THEN {Tx(r, q, to, status)} ELSE {}

send_rollbackable_request(r, q, status) ==
    rollback' = IF RelayTxs(r, q, status) # {} /\ is_executable(Kind(q), status)
                   /\ rollback[r][q] = "no"
                THEN [rollback EXCEPT ![r][q] = "queued"] ELSE rollback

\* submit_brp_outbound_request
BrpOutbound(r, q, status) ==
    IF Kind(q) = "btcOutbound" /\ status = "Accepted"
    THEN {Tx(r, q, "blaze", "Outbound")} ELSE {}

Done(r, e) == done' = [done EXCEPT ![r] = @ \cup {e}]

\* process_confirmed_log returns early for a message that is too large, for a
\* request (it is the onflight handler's), and if the relayer was not selected.
Handles(r, e) ==
    /\ e \in logs \ done[r] /\ HasClient(Kind(e[1]), e[2])
    /\ ~shape[e[1]].oversized /\ e[3] # "Requested" /\ r \in Selected

\* It relays the log, unless the sequence has ended.
HandleLog(r, e) ==
    LET q == e[1] status == e[3] IN
    /\ Handles(r, e) /\ ~is_sequence_ended(q, status)
    /\ Done(r, e)
    /\ IF status \in Relayable(Kind(q))
       THEN /\ txs' = txs \cup BrpOutbound(r, q, status) \cup RelayTxs(r, q, status)
            /\ send_rollbackable_request(r, q, status)
            /\ panicked' = panicked
       ELSE panicked' = TRUE /\ UNCHANGED <<txs, rollback>>
    /\ UNCHANGED <<chainVars, polled, handed, boundVars>>

\* An RPC of it fails: the error is logged and the log is not looked at again.
HandleError(r, e) ==
    /\ Handles(r, e) /\ Fail
    /\ Done(r, e)
    /\ UNCHANGED <<chainVars, txs, polled, handed, rollback, panicked>>

\* process_onflight_message, for a transfer handed over by SocketOnflightHandler.
HandOver(r, q) ==
    /\ queue[q] = "OnFlight" /\ q \notin handed[r]
    /\ handed' = [handed EXCEPT ![r] = @ \cup {q}]
    /\ IF r \notin Selected \/ is_sequence_ended(q, "Requested")
       THEN UNCHANGED <<txs, rollback>>
       ELSE /\ txs' = txs \cup RelayTxs(r, q, "Requested")
            /\ send_rollbackable_request(r, q, "Requested")
    /\ UNCHANGED <<chainVars, done, polled, panicked, boundVars>>

\* OutboundHandler: the Bitcoin payment of a request is in a confirmed block.
BtcOutbound(r, q) ==
    LET e == <<q, "dst", "Executed">> IN
    /\ Kind(q) = "btcOutbound" /\ e \in logs \ done[r]
    /\ Done(r, e)
    /\ txs' = IF r \in Selected THEN txs \cup {Tx(r, q, "src", "Executed")} ELSE txs
    /\ UNCHANGED <<chainVars, polled, handed, rollback, panicked, boundVars>>

---------------------------------------------------------------------------
(* SocketQueuePoller.                                                      *)

should_skip_on_flight_poll(r, q) ==
    queue[q] # "none" \/ <<r, q, "OnFlight">> \in votes

should_skip_finalize_poll(r, q) ==
    \/ queue[q] \in {"Committed", "Rollbacked"}
    \/ queue[q] = "OnFlight" /\ \E s \in {"Committed", "Rollbacked"} : <<r, q, s>> \in votes

\* process_finalized, with the outcome it polls for.
process_finalized(r, q, outcome) ==
    IF should_skip_finalize_poll(r, q) THEN {} ELSE {Tx(r, q, "queue", outcome)}

\* Seeded defect: a rollback is finalized as a commit.
IsCommitted_rollbacked(status) == status \in {"Committed", "Accepted", "Rollbacked"}

IsCommitted(status) == status \in {"Committed", "Accepted"}

Finalizes(q, status) ==
    status \in {"Committed", "Rollbacked"} \/ (status = "Accepted" /\ Kind(q) = "btcInbound")

\* The extrinsic a log is answered with, if any.
PollFor(r, e) ==
    LET q == e[1] status == e[3] IN
    IF shape[q].oversized THEN {} ELSE
    CASE status = "Requested" ->
           IF should_skip_on_flight_poll(r, q) THEN {} ELSE {Tx(r, q, "queue", "OnFlight")}
      [] Finalizes(q, status) ->
           process_finalized(r, q, IF IsCommitted(status) THEN "Committed" ELSE "Rollbacked")
      [] OTHER -> {}

Polled(r, e) ==
    /\ e \in logs \ polled[r] /\ HasClient(Kind(e[1]), e[2]) /\ PollFor(r, e) # {}
    /\ polled' = [polled EXCEPT ![r] = @ \cup {e}]

PollLog(r, e) ==
    /\ Polled(r, e)
    /\ txs' = txs \cup PollFor(r, e)
    /\ UNCHANGED <<chainVars, done, handed, rollback, panicked, boundVars>>

\* An RPC of it fails: run is called again, with the next message.
PollError(r, e) ==
    /\ Polled(r, e) /\ Fail
    /\ UNCHANGED <<chainVars, txs, done, handed, rollback, panicked>>

---------------------------------------------------------------------------
(* SocketRollbackEmitter.                                                  *)

SetRollback(r, q, state) == rollback' = [rollback EXCEPT ![r][q] = state]

\* rollback_msgs is keyed by the sequence number; each chain has its own map.
SameEntry(q, p) ==
    is_inbound_sequence(Kind(q)) = is_inbound_sequence(Kind(p)) /\ Sequence[q] = Sequence[p]

receive(r, q) ==
    /\ rollback[r][q] = "queued"
    /\ SetRollback(r, q, IF \/ Bitcoin(Kind(q))
                            \/ \E p \in Requests \ {q} : SameEntry(q, p)
                                 /\ rollback[r][p] \in {"stored", "rolling"}
                         THEN "no" ELSE "stored")
    /\ UNCHANGED <<chainVars, txs, done, polled, handed, panicked, boundVars>>

is_request_executed(q) ==
    \/ src[q] \in {"Committed", "Rollbacked"}
    \/ dst[q] \in {"Executed", "Reverted"}
    \/ is_inbound_sequence(Kind(q)) /\ dst[q] \in {"Accepted", "Rejected"}

\* The statuses are read; the entry is dropped, or (it has waited for
\* ROLLBACK_CHECK_MINIMUM_INTERVAL) a rollback is due.
CheckEntry(r, q) ==
    /\ rollback[r][q] = "stored"
    /\ SetRollback(r, q, IF is_request_executed(q) THEN "no" ELSE "rolling")
    /\ UNCHANGED <<chainVars, txs, done, polled, handed, panicked, boundVars>>

RollbackTx(r, q) ==
    LET status == RollbackStatus(Kind(q)) IN
    Tx(r, q, RelayTxChain(Kind(q), status), status)

try_rollback(r, q) ==
    /\ rollback[r][q] = "rolling"
    /\ txs' = txs \cup {RollbackTx(r, q)}
    /\ SetRollback(r, q, "no")
    /\ UNCHANGED <<chainVars, done, polled, handed, panicked, boundVars>>

\* An RPC of run fails, before or after the rollback was sent: run is called again
\* and the entry is still there, as handled_req_ids is lost.
EmitterError(r, q) ==
    /\ rollback[r][q] = "rolling" /\ Fail
    /\ \E sent \in {{}, {RollbackTx(r, q)}} : txs' = txs \cup sent
    /\ SetRollback(r, q, "stored")
    /\ UNCHANGED <<chainVars, done, polled, handed, panicked>>

---------------------------------------------------------------------------

\* send_transaction gives up on a transaction: its gas cannot be estimated, the
\* node refuses it, or the retries of the extrinsic are used up.
LoseTx(tx) ==
    /\ Fail
    /\ txs' = txs \ {tx}
    /\ UNCHANGED <<chainVars, done, polled, handed, rollback, panicked>>

\* The process of a relayer dies and starts again: it bootstraps over the logs of
\* the last rounds and recovers the transfers on flight.
Restart(r) ==
    /\ Crash
    /\ \E lost \in SUBSET {tx \in txs : tx.from = r} : txs' = txs \ lost
    /\ done' = [done EXCEPT ![r] = {}]
    /\ polled' = [polled EXCEPT ![r] = {}]
    /\ handed' = [handed EXCEPT ![r] = {}]
    /\ rollback' = [rollback EXCEPT ![r] = [q \in Requests |-> "no"]]
    /\ UNCHANGED <<chainVars, panicked>>

Init ==
    /\ shape \in [Requests -> Shapes]
    /\ src = [q \in Requests |-> "None"] /\ dst = [q \in Requests |-> "None"]
    /\ logs = {} /\ votes = {} /\ txs = {}
    /\ queue = [q \in Requests |-> "none"]
    /\ done = [r \in Relayers |-> {}] /\ polled = [r \in Relayers |-> {}]
    /\ handed = [r \in Relayers |-> {}]
    /\ rollback = [r \in Relayers |-> [q \in Requests |-> "no"]]
    /\ panicked = FALSE /\ faults = 0 /\ crashes = 0

Arrive(tx) ==
    BifrostPoll(tx) \/ ExternalPoll(tx) \/ QueueCall(tx) \/ BlazeCall(tx)

Relay(r) ==
    \/ \E e \in logs : HandleLog(r, e) \/ PollLog(r, e)
    \/ \E q \in Requests : HandOver(r, q) \/ BtcOutbound(r, q)

Emitter(r) ==
    \E q \in Requests : receive(r, q) \/ CheckEntry(r, q) \/ try_rollback(r, q)

Failures ==
    \/ \E r \in Relayers, e \in logs : HandleError(r, e) \/ PollError(r, e)
    \/ \E r \in Relayers, q \in Requests : EmitterError(r, q)
    \/ \E tx \in txs : LoseTx(tx)
    \/ \E r \in Relayers : Restart(r)

Next ==
    \/ \E q \in Requests : Request(q)
    \/ \E tx \in txs : Arrive(tx)
    \/ \E r \in Relayers : Relay(r) \/ Emitter(r)
    \/ Failures

Spec == Init /\ [][Next]_vars

\* Every task is scheduled, and what is sent and not given up on arrives.
FairSpec ==
    /\ Spec
    /\ WF_vars(\E tx \in txs : Arrive(tx))
    /\ \A r \in Relayers : WF_vars(Relay(r)) /\ WF_vars(Emitter(r))

---------------------------------------------------------------------------
(* Properties.                                                             *)

\* Every variable keeps its type.
TypeOK ==
    /\ shape \in [Requests -> Shapes]
    /\ src \in [Requests -> Statuses] /\ dst \in [Requests -> Statuses]
    /\ logs \subseteq Requests \X {"src", "dst"} \X Statuses
    /\ votes \subseteq Relayers \X Requests \X Payloads
    /\ queue \in [Requests -> {"none", "OnFlight", "Committed", "Rollbacked"}]
    /\ txs \subseteq [from : Relayers, req : Requests,
                      to : {"src", "dst", "queue", "blaze"}, status : Payloads]
    /\ done \in [Relayers -> SUBSET logs] /\ polled \in [Relayers -> SUBSET logs]
    /\ handed \in [Relayers -> SUBSET Requests]
    /\ rollback \in [Relayers -> [Requests -> {"no", "queued", "stored", "rolling"}]]
    /\ panicked \in BOOLEAN /\ faults \in 0 .. MaxFaults /\ crashes \in 0 .. MaxFaults

Outcome(q) ==
    IF src[q] = "Committed" THEN "committed"
    ELSE IF src[q] = "Rollbacked" THEN "rollbacked"
    ELSE IF dst[q] \in {"Executed", "Accepted"} THEN "executed"
    ELSE IF dst[q] \in {"Reverted", "Rejected"} THEN "reverted"
    ELSE IF src[q] # "None" \/ <<q, "dst", "Requested">> \in logs THEN "requested"
    ELSE "none"

Ended(q) ==
    \/ src[q] \in {"Committed", "Rollbacked"} /\ queue[q] = src[q]
    \/ Kind(q) = "btcInbound" /\ dst[q] = "Rejected"
    \/ Kind(q) = "btcInbound" /\ dst[q] = "Accepted" /\ queue[q] = "Committed"

T == INSTANCE Transfer WITH outcome <- [q \in Requests |-> Outcome(q)]

\* The relayers' statuses, signatures and routes keep the promise of the bridge:
\* a request is executed or reverted once, and the chain it came from records what
\* happened, although polls for its execution and for its rollback race each other,
\* are lost, and are repeated by relayers that restart.
ImplementsTransfer == T!TransferSpec

\* process_confirmed_log never meets a status it does not know ("Unknown socket
\* event status received"): it reads that the sequence has ended from the source
\* chain, before every log whose status no relay answers.
NeverPanics == ~panicked

\* What the relayers finalize in the queue is what the source chain recorded; a
\* Bitcoin deposit, which has no such chain, is committed when it was accepted.
FinalizedAsEnded ==
    \A q \in Requests :
        queue[q] \in {"Committed", "Rollbacked"} =>
            IF Kind(q) = "btcInbound" THEN queue[q] = "Committed" /\ dst[q] = "Accepted"
                                      ELSE queue[q] = src[q]

\* Every request that is relayed at all ends, in the queue too, if nothing the
\* relayers send is lost: executed or rolled back by the emitters' polls, which
\* time out at any moment, even if a relayer crashes, loses the transactions it
\* had in hand and everything it remembered, and bootstraps again.
Ends ==
    \A q \in Requests :
        [](faults = 0 /\ ~shape[q].oversized) => (Outcome(q) = "requested" ~> Ended(q))

\* send_rollbackable_request: "The received message will be handled when the
\* interval has been reached": an inbound request handed to the emitter is executed
\* in time or the emitter polls for its rollback.
RollbackHandled ==
    \A r \in Relayers, q \in Requests :
        (rollback[r][q] = "queued" /\ Kind(q) = "inbound")
            ~> (is_request_executed(q) \/ <<r, q, "Failed">> \in votes)
=============================================================================
