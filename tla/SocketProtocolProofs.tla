----------------------- MODULE SocketProtocolProofs ------------------------
(***************************************************************************)
(* Proofs about SocketProtocol, for any relayers, selection, quorums,      *)
(* requests and faults: it implements Transfer, the relay queue records    *)
(* what the source chain did, and no status makes a relay handler panic.   *)
(*                                                                         *)
(* The argument: what a relayer sends follows a log, a log tells what the  *)
(* chain did, and what a chain did is not undone.  So whatever is on its   *)
(* way, however late, is still true when it arrives.                       *)
(***************************************************************************)
EXTENDS SocketProtocol, TLAPS

Sides == {"src", "dst"}

\* What may have happened to a request; each stays true.
Started(q) == src[q] # "None" \/ <<q, "dst", "Requested">> \in logs
WasExecuted(q) == dst[q] \in {"Executed", "Accepted"}
WasReverted(q) == dst[q] \in {"Reverted", "Rejected"}

Final(q, s) ==
    s \in {"Committed", "Rollbacked"} =>
        IF Kind(q) = "btcInbound" THEN s = "Committed" /\ dst[q] = "Accepted"
                                  ELSE s = src[q]

\* What the log of a status tells.
LogOK(q, side, s) ==
    /\ Started(q)
    /\ side = "src" =>
         /\ s \in {"Requested", "Accepted", "Committed", "Rollbacked"}
         /\ s = "Accepted" => ~is_inbound_sequence(Kind(q))
         /\ s \in {"Committed", "Rollbacked"} => src[q] = s
    /\ side = "dst" =>
         /\ s \in {"Requested", "Executed", "Reverted", "Accepted", "Rejected"}
         /\ s = "Executed" => WasExecuted(q)
         /\ s = "Reverted" => WasReverted(q)
         /\ s \in {"Accepted", "Rejected"} => dst[q] = s

\* What a transaction under way tells.
TxOK(tx) ==
    /\ Started(tx.req)
    /\ tx.status = "Executed" => WasExecuted(tx.req)
    /\ tx.status = "Reverted" => WasReverted(tx.req)
    /\ is_inbound_sequence(Kind(tx.req)) =>
         /\ tx.status = "Accepted" => WasExecuted(tx.req)
         /\ tx.status = "Rejected" => WasReverted(tx.req)
    /\ tx.to = "queue" => /\ tx.status \in {"OnFlight", "Committed", "Rollbacked"}
                          /\ Final(tx.req, tx.status)

\* The two chains of a request, the queue and the rollback emitters agree about it.
RequestOK(q) ==
    /\ dst[q] # "None" => Started(q)
    /\ src[q] = "Committed" => WasExecuted(q)
    /\ src[q] = "Rollbacked" => WasReverted(q)
    /\ queue[q] # "none" => Started(q)
    /\ \A r \in Relayers : rollback[r][q] # "no" => Started(q)

LogInv == \A q \in Requests, side \in Sides, s \in Statuses :
            <<q, side, s>> \in logs => LogOK(q, side, s)
TxInv == \A tx \in txs : TxOK(tx)
RequestInv == \A q \in Requests : RequestOK(q)

IInv == TypeOK /\ LogInv /\ TxInv /\ RequestInv /\ FinalizedAsEnded /\ NeverPanics

---------------------------------------------------------------------------
(* What is true stays true.                                                *)

Kept ==
    /\ UNCHANGED shape
    /\ \A q \in Requests :
         /\ Started(q) => Started(q)'
         /\ WasExecuted(q) => WasExecuted(q)'
         /\ WasReverted(q) => WasReverted(q)'
         /\ src[q] \in {"Committed", "Rollbacked"} => src'[q] = src[q]
         /\ dst[q] \in {"Accepted", "Rejected"} => dst'[q] = dst[q]

\* A step that leaves the chains alone.
LEMMA StillKept == ASSUME UNCHANGED <<shape, src, dst, logs>> PROVE Kept
BY DEF Kept, Started, WasExecuted, WasReverted

\* The outcome of a transfer stays final.
LEMMA FinalKept ==
    ASSUME Kept, NEW q \in Requests, NEW s, Final(q, s)
    PROVE  Final(q, s)'
BY DEF Kept, Final, Kind

\* A log stays true.
LEMMA LogKept ==
    ASSUME Kept, NEW q \in Requests, NEW side, NEW s, LogOK(q, side, s)
    PROVE  LogOK(q, side, s)'
<1>1. Kind(q)' = Kind(q)
  BY DEF Kept, Kind
<1> QED BY <1>1 DEF Kept, LogOK

\* So does a transaction.
LEMMA TxKept ==
    ASSUME Kept, NEW tx, tx.req \in Requests, TxOK(tx)
    PROVE  TxOK(tx)'
<1>1. Kind(tx.req)' = Kind(tx.req)
  BY DEF Kept, Kind
<1>2. tx.to = "queue" => Final(tx.req, tx.status)'
  BY FinalKept DEF TxOK
<1> QED BY <1>1, <1>2 DEF Kept, TxOK

---------------------------------------------------------------------------
(* What the sockets record.                                                *)

\* The changes of a request that the relayers bring about.
Legal(q, side, s) ==
    /\ Started(q)
    /\ \/ side = "dst" /\ dst[q] = "None" /\ s \in {"Executed", "Reverted"}
       \/ side = "dst" /\ dst[q] = "Executed" /\ s = "Accepted"
       \/ side = "dst" /\ dst[q] = "Reverted" /\ s = "Rejected"
       \/ /\ side = "src" /\ src[q] = "Requested" /\ s = "Accepted"
          /\ ~is_inbound_sequence(Kind(q))
       \/ side = "src" /\ src[q] \in {"Requested", "Accepted"}
          /\ \/ s = "Committed" /\ WasExecuted(q)
             \/ s = "Rollbacked" /\ WasReverted(q)

\* They undo nothing.
LEMMA LegalKept ==
    ASSUME TypeOK, RequestInv, UNCHANGED shape,
           NEW q \in Requests, NEW side \in Sides, NEW s \in Statuses,
           Legal(q, side, s), Records(q, side, s)
    PROVE  Kept
<1>1. src \in [Requests -> Statuses] /\ dst \in [Requests -> Statuses]
  BY DEF TypeOK
<1>2. logs \subseteq logs'
  BY DEF Records
<1> SUFFICES ASSUME NEW p \in Requests
             PROVE  /\ Started(p) => Started(p)'
                    /\ WasExecuted(p) => WasExecuted(p)'
                    /\ WasReverted(p) => WasReverted(p)'
                    /\ src[p] \in {"Committed", "Rollbacked"} => src'[p] = src[p]
                    /\ dst[p] \in {"Accepted", "Rejected"} => dst'[p] = dst[p]
  BY DEF Kept
<1>3. CASE side = "src"
  <2>1. src' = [src EXCEPT ![q] = s] /\ dst' = dst
    BY <1>3 DEF Records
  <2>2. s \in {"Accepted", "Committed", "Rollbacked"} /\ src[q] \in {"Requested", "Accepted"}
    BY <1>3 DEF Legal
  <2> QED BY <1>1, <1>2, <2>1, <2>2 DEF Started, WasExecuted, WasReverted
<1>4. CASE side = "dst"
  <2>1. dst' = [dst EXCEPT ![q] = s] /\ src' = src
    BY <1>4 DEF Records
  <2>2. \/ dst[q] = "None"
        \/ dst[q] = "Executed" /\ s = "Accepted"
        \/ dst[q] = "Reverted" /\ s = "Rejected"
    BY <1>4 DEF Legal
  <2> QED BY <1>1, <1>2, <2>1, <2>2 DEF Started, WasExecuted, WasReverted
<1> QED BY <1>3, <1>4 DEF Sides

\* The log they leave tells what happened.
LEMMA LegalLog ==
    ASSUME TypeOK, RequestInv, UNCHANGED shape,
           NEW q \in Requests, NEW side \in Sides, NEW s \in Statuses,
           Legal(q, side, s), Records(q, side, s)
    PROVE  LogOK(q, side, s)' /\ (src[q] = "Committed" => WasExecuted(q))'
           /\ (src[q] = "Rollbacked" => WasReverted(q))' /\ Started(q)'
<1>1. src \in [Requests -> Statuses] /\ dst \in [Requests -> Statuses]
  BY DEF TypeOK
<1>2. Kept
  BY LegalKept
<1>3. Started(q)' /\ Kind(q)' = Kind(q)
  BY <1>2 DEF Kept, Legal, Kind
<1>4. CASE side = "src"
  <2>1. src' = [src EXCEPT ![q] = s] /\ dst' = dst
    BY <1>4 DEF Records
  <2> QED BY <1>1, <1>3, <1>4, <2>1 DEF Legal, LogOK, WasExecuted, WasReverted
<1>5. CASE side = "dst"
  <2>1. dst' = [dst EXCEPT ![q] = s] /\ src' = src
    BY <1>5 DEF Records
  <2>2. RequestOK(q)
    BY DEF RequestInv
  <2>3. src[q] = "Committed" => dst[q] = "Executed" /\ s = "Accepted"
    BY <1>5, <2>2 DEF Legal, RequestOK, WasExecuted
  <2>4. src[q] = "Rollbacked" => dst[q] = "Reverted" /\ s = "Rejected"
    BY <1>5, <2>2 DEF Legal, RequestOK, WasReverted
  <2> QED BY <1>1, <1>3, <1>5, <2>1, <2>3, <2>4 DEF Legal, LogOK, WasExecuted, WasReverted
<1> QED BY <1>4, <1>5 DEF Sides

\* What a transaction or extrinsic does to the two chains when it arrives.
Arrived(tx) ==
    \/ Ignores
    \/ \E side \in Sides, s \in Statuses :
         Legal(tx.req, side, s) /\ Records(tx.req, side, s)

TxType == [from : Relayers, req : Requests, to : Sides \cup {"queue", "blaze"},
           status : Payloads]

\* What is under way is from a relayer and about a request.
LEMMA TxTyped == ASSUME TypeOK, NEW tx \in txs PROVE tx \in TxType /\ tx.req \in Requests
BY DEF TypeOK, TxType, Sides

\* A poll on Bifrost is for something that happened on the other chain.
LEMMA BifrostArrives ==
    ASSUME IInv, NEW tx \in txs, BifrostPoll(tx)
    PROVE  Arrived(tx)
<1> DEFINE q == tx.req
           k == Kind(q)
           ballot == Ballot(k, tx.status)
           new == Counted(q, ballot)
<1>1. q \in Requests /\ TxOK(tx) /\ RequestOK(q)
  BY TxTyped DEF IInv, TxInv, RequestInv
<1>2. Ignores \/ \E s \in new : Records(q, BifrostSide(k), s)
  BY DEF BifrostPoll
<1>3. ASSUME NEW s \in new PROVE s \in Statuses /\ Legal(q, BifrostSide(k), s)
  <2>1. Started(q)
    BY <1>1 DEF TxOK
  <2>2. CASE is_inbound_sequence(k)
    <3>1. BifrostSide(k) = "dst" /\ ballot = build_inbound_signatures(tx.status)
      BY <2>2 DEF BifrostSide, Ballot
    <3>2. /\ ballot = "Accepted" => WasExecuted(q)
          /\ ballot = "Rejected" => WasReverted(q)
      BY <1>1, <2>2, <3>1 DEF build_inbound_signatures, TxOK
    <3>3. \/ dst[q] = "None" /\ s \in {"Executed", "Reverted"}
          \/ /\ dst[q] \in {"Executed", "Reverted"} /\ s = ballot
             /\ ballot \in {"Accepted", "Rejected"}
      <4> HIDE DEF q, ballot
      <4> QED BY <1>3, <2>2 DEF Counted
    <3> HIDE DEF ballot, new, q
    <3> QED BY <2>1, <3>1, <3>2, <3>3 DEF Legal, WasExecuted, WasReverted, Statuses
  <2>3. CASE ~is_inbound_sequence(k)
    <3>1. BifrostSide(k) = "src" /\ ballot = build_outbound_signatures(tx.status)
      BY <2>3 DEF BifrostSide, Ballot
    <3>2. /\ ballot = "Executed" => WasExecuted(q)
          /\ ballot = "Reverted" => WasReverted(q)
      BY <1>1, <2>3, <3>1 DEF build_outbound_signatures, TxOK
    <3>3. \/ ballot = "Accepted" /\ src[q] = "Requested" /\ s = "Accepted"
          \/ ballot = "Executed" /\ src[q] = "Accepted" /\ s = "Committed"
          \/ ballot = "Reverted" /\ src[q] = "Accepted" /\ s = "Rollbacked"
      <4> HIDE DEF q, ballot
      <4> QED BY <1>3, <2>3 DEF Counted
    <3> HIDE DEF ballot, new, q
    <3> QED BY <2>1, <2>3, <3>1, <3>2, <3>3 DEF Legal, Statuses
  <2> QED BY <2>2, <2>3
<1>4. BifrostSide(k) \in Sides
  BY DEF BifrostSide, Sides
<1> QED
  <2> HIDE DEF new
  <2> QED BY <1>2, <1>3, <1>4 DEF Arrived

\* So is a poll elsewhere, whoever signed it.
LEMMA ExternalArrives ==
    ASSUME IInv, NEW tx \in txs, ExternalPoll(tx)
    PROVE  Arrived(tx)
<1> DEFINE q == tx.req
           new == Relayed(q, tx.status)
<1>1. q \in Requests /\ TxOK(tx)
  BY TxTyped DEF IInv, TxInv
<1>2. Ignores \/ \E s \in new : Records(q, tx.to, s)
  BY DEF ExternalPoll
<1>3. tx.to \in Sides /\ tx.to # BifrostSide(Kind(q))
  BY DEF ExternalPoll, Sides
<1>4. ASSUME NEW s \in new PROVE s \in Statuses /\ Legal(q, tx.to, s)
  <2>1. CASE is_inbound_sequence(Kind(q))
    <3>1. tx.to = "src"
      BY <1>3, <2>1 DEF BifrostSide, Sides
    <3>2. \/ tx.status = "Accepted" /\ src[q] = "Requested" /\ s = "Committed"
          \/ tx.status = "Rejected" /\ src[q] = "Requested" /\ s = "Rollbacked"
      BY <1>4, <2>1 DEF Relayed
    <3> QED BY <1>1, <2>1, <3>1, <3>2 DEF Legal, TxOK, Statuses
  <2>2. CASE ~is_inbound_sequence(Kind(q))
    <3>1. tx.to = "dst"
      BY <1>3, <2>2 DEF BifrostSide, Sides
    <3>2. dst[q] = "None" /\ s \in {"Executed", "Reverted"}
      BY <1>4, <2>2 DEF Relayed
    <3> QED BY <1>1, <3>1, <3>2 DEF Legal, TxOK, Statuses
  <2> QED BY <2>1, <2>2
<1> QED
  <2> HIDE DEF new
  <2> QED BY <1>2, <1>3, <1>4 DEF Arrived

\* Blaze pays a request once.
LEMMA BlazeArrives ==
    ASSUME IInv, NEW tx \in txs, BlazeCall(tx)
    PROVE  Arrived(tx)
<1>1. TxOK(tx)
  BY DEF IInv, TxInv
<1>2. Ignores \/ (dst[tx.req] = "None" /\ Records(tx.req, "dst", "Executed"))
  BY DEF BlazeCall
<1>3. dst[tx.req] = "None" => Legal(tx.req, "dst", "Executed")
  BY <1>1 DEF Legal, TxOK
<1> QED BY <1>2, <1>3 DEF Arrived, Sides, Statuses

\* A vote in the relay queue touches no chain.
LEMMA QueueArrives ==
    ASSUME NEW tx \in txs, QueueCall(tx)
    PROVE  Arrived(tx)
BY DEF QueueCall, Arrived, Ignores

\* Whatever arrives undoes nothing.
LEMMA ArrivesKept ==
    ASSUME IInv, NEW tx \in txs, Arrived(tx), UNCHANGED shape
    PROVE  Kept
<1>1. tx.req \in Requests
  BY TxTyped DEF IInv
<1>2. CASE Ignores
  BY <1>2, StillKept DEF Ignores
<1>3. ASSUME NEW side \in Sides, NEW s \in Statuses,
             Legal(tx.req, side, s), Records(tx.req, side, s)
      PROVE  Kept
  BY <1>1, <1>3, LegalKept DEF IInv
<1> QED BY <1>2, <1>3 DEF Arrived

\* What arrives leaves true logs, and two chains that agree.
LEMMA ArrivesLogs ==
    ASSUME IInv, NEW tx \in txs, Arrived(tx), UNCHANGED <<shape, rollback>>,
           \A q \in Requests : queue'[q] # "none" => Started(q)
    PROVE  LogInv' /\ RequestInv'
<1>1. tx.req \in Requests /\ Kept
  BY TxTyped, ArrivesKept DEF IInv
<1>2. CASE Ignores
  <2>1. LogInv'
    BY <1>1, <1>2, LogKept DEF IInv, LogInv, Ignores
  <2>2. RequestInv'
    BY <1>1, <1>2, Zenon DEF IInv, RequestInv, RequestOK, Ignores, Started, WasExecuted, WasReverted
  <2> QED BY <2>1, <2>2
<1>3. ASSUME NEW side \in Sides, NEW s \in Statuses,
             Legal(tx.req, side, s), Records(tx.req, side, s)
      PROVE  LogInv' /\ RequestInv'
  <2>1. /\ LogOK(tx.req, side, s)' /\ Started(tx.req)'
        /\ (src[tx.req] = "Committed" => WasExecuted(tx.req))'
        /\ (src[tx.req] = "Rollbacked" => WasReverted(tx.req))'
    BY <1>1, <1>3, LegalLog DEF IInv
  <2>2. logs' = logs \cup {<<tx.req, side, s>>}
    BY <1>3 DEF Records
  <2>3. LogInv'
    <3> SUFFICES ASSUME NEW p \in Requests, NEW e \in Sides, NEW t \in Statuses,
                        <<p, e, t>> \in logs'
                 PROVE  LogOK(p, e, t)'
      BY DEF LogInv
    <3>1. CASE <<p, e, t>> \in logs
      BY <1>1, <3>1, LogKept DEF IInv, LogInv
    <3>2. CASE <<p, e, t>> = <<tx.req, side, s>>
      <4>1. p = tx.req /\ e = side /\ t = s
        BY <3>2
      <4> QED BY <2>1, <4>1
    <3> QED BY <2>2, <3>1, <3>2
  <2>4. RequestInv'
    <3> SUFFICES ASSUME NEW p \in Requests PROVE RequestOK(p)'
      BY DEF RequestInv
    <3>1. RequestOK(p) /\ (Started(p) => Started(p)')
      BY <1>1 DEF IInv, RequestInv, Kept
    <3>2. CASE p = tx.req
      BY <2>1, <3>2 DEF RequestOK
    <3>3. CASE p # tx.req
      <4>1. src'[p] = src[p] /\ dst'[p] = dst[p]
        BY <1>3, <3>3 DEF Records, Sides, IInv, TypeOK
      <4> QED BY <3>1, <4>1 DEF RequestOK, WasExecuted, WasReverted
    <3> QED BY <3>2, <3>3
  <2> QED BY <2>3, <2>4
<1> QED BY <1>2, <1>3 DEF Arrived

---------------------------------------------------------------------------
(* What the relayers send.                                                 *)

\* The relay of a status, and the payment it may ask Blaze for.
LEMMA RelayTyped ==
    ASSUME NEW r \in Relayers, NEW q \in Requests, NEW s \in Statuses
    PROVE  RelayTxs(r, q, s) \subseteq TxType /\ BrpOutbound(r, q, s) \subseteq TxType
<1>1. RelayTxChain(Kind(q), s) \in Sides
  BY DEF RelayTxChain, get_inbound_relay_tx_chain_id, get_outbound_relay_tx_chain_id, Sides
<1> QED BY <1>1 DEF RelayTxs, BrpOutbound, Tx, TxType, Payloads, Sides

\* The vote in the relay queue that answers a log.
LEMMA PollTyped ==
    ASSUME TypeOK, NEW r \in Relayers, NEW e \in logs
    PROVE  PollFor(r, e) \subseteq TxType
<1>1. e[1] \in Requests
  BY DEF TypeOK
<1> QED BY <1>1 DEF PollFor, process_finalized, Tx, TxType, Payloads, Statuses

\* A log, taken apart.
LEMMA LogTyped ==
    ASSUME TypeOK, LogInv, NEW e \in logs
    PROVE  /\ e[1] \in Requests /\ e[2] \in Sides /\ e[3] \in Statuses
           /\ LogOK(e[1], e[2], e[3])
<1>1. e[1] \in Requests /\ e[2] \in Sides /\ e[3] \in Statuses /\ e = <<e[1], e[2], e[3]>>
  BY DEF TypeOK, Sides
<1> QED BY <1>1 DEF LogInv

\* The relay of a log is true if the log is.
LEMMA RelayTrue ==
    ASSUME NEW r \in Relayers, NEW q \in Requests, NEW side \in Sides, NEW s \in Statuses,
           LogOK(q, side, s) \/ (s = "Requested" /\ Started(q)),
           NEW tx \in RelayTxs(r, q, s) \cup BrpOutbound(r, q, s)
    PROVE  TxOK(tx)
<1>1. CASE tx \in RelayTxs(r, q, s)
  <2>1. tx = Tx(r, q, RelayTxChain(Kind(q), s), s)
    BY <1>1 DEF RelayTxs
  <2>2. RelayTxChain(Kind(q), s) \in Sides
    BY DEF RelayTxChain, get_inbound_relay_tx_chain_id, get_outbound_relay_tx_chain_id, Sides
  <2>3. tx.req = q /\ tx.status = s /\ tx.to \in Sides
    BY <2>1, <2>2 DEF Tx
  <2>4. CASE s = "Requested" /\ Started(q)
    BY <2>3, <2>4 DEF TxOK, Sides
  <2>5. CASE LogOK(q, side, s) /\ side = "src"
    BY <2>3, <2>5 DEF TxOK, Sides, LogOK
  <2>6. CASE LogOK(q, side, s) /\ side = "dst"
    BY <2>3, <2>6 DEF TxOK, Sides, LogOK, WasExecuted, WasReverted
  <2> QED BY <2>4, <2>5, <2>6 DEF Sides
<1>2. CASE tx \in BrpOutbound(r, q, s)
  <2>1. tx = Tx(r, q, "blaze", "Outbound")
    BY <1>2 DEF BrpOutbound
  <2>2. tx.req = q /\ tx.status = "Outbound" /\ tx.to = "blaze"
    BY <2>1 DEF Tx
  <2> QED BY <2>2 DEF TxOK, LogOK
<1> QED BY <1>1, <1>2

\* A vote to finalize follows the log that ends the sequence.
LEMMA PollTrue ==
    ASSUME TypeOK, LogInv, NEW r \in Relayers, NEW e \in logs, HasClient(Kind(e[1]), e[2]),
           NEW tx \in PollFor(r, e)
    PROVE  TxOK(tx)
<1> DEFINE q == e[1]
           s == e[3]
           result == IF IsCommitted(s) THEN "Committed" ELSE "Rollbacked"
<1>1. q \in Requests /\ e[2] \in Sides /\ s \in Statuses /\ LogOK(q, e[2], s)
  BY LogTyped
<1>2. \/ tx = Tx(r, q, "queue", "OnFlight")
      \/ Finalizes(q, s) /\ tx = Tx(r, q, "queue", result)
  BY DEF PollFor, process_finalized
<1>3. CASE tx = Tx(r, q, "queue", "OnFlight")
  <2>1. tx.req = q /\ tx.status = "OnFlight"
    BY <1>3 DEF Tx
  <2> QED BY <1>1, <2>1 DEF TxOK, LogOK, Final
<1>4. CASE Finalizes(q, s) /\ tx = Tx(r, q, "queue", result)
  <2>1. tx.req = q /\ tx.status = result /\ tx.to = "queue"
    BY <1>4 DEF Tx
  <2>2. Kind(q) = "btcInbound" => e[2] = "dst"
    BY <1>1 DEF HasClient, Bitcoin, BifrostSide, is_inbound_sequence, Sides
  <2>3. Final(q, result)
    <3>1. CASE Kind(q) = "btcInbound"
      BY <1>1, <1>4, <2>2, <3>1 DEF Final, LogOK, Finalizes, IsCommitted
    <3>2. CASE Kind(q) # "btcInbound"
      BY <1>1, <1>4, <3>2 DEF Final, LogOK, Finalizes, IsCommitted, Sides
    <3> QED BY <3>1, <3>2
  <2>4. result \in {"Committed", "Rollbacked"}
    OBVIOUS
  <2> HIDE DEF result
  <2> QED BY <1>1, <2>1, <2>3, <2>4 DEF TxOK, LogOK
<1> QED BY <1>2, <1>3, <1>4

\* A rollback tells nothing but that the request exists.
LEMMA RollbackTrue ==
    ASSUME NEW r \in Relayers, NEW q \in Requests, Started(q)
    PROVE  TxOK(RollbackTx(r, q)) /\ RollbackTx(r, q) \in TxType
<1> DEFINE tx == RollbackTx(r, q)
           status == RollbackStatus(Kind(q))
           chain == RelayTxChain(Kind(q), status)
<1>1. chain \in Sides
  BY DEF RelayTxChain, get_inbound_relay_tx_chain_id, get_outbound_relay_tx_chain_id, Sides
<1>2. tx = Tx(r, q, chain, status)
  BY DEF RollbackTx
<1>3. status \in Statuses /\ (is_inbound_sequence(Kind(q)) => status = "Failed")
      /\ status \in {"Failed", "Rejected"}
  BY DEF RollbackStatus, Statuses
<1> HIDE DEF status, chain, tx
<1>4. tx.req = q /\ tx.to \in Sides /\ tx.status = status
  BY <1>1, <1>2 DEF Tx
<1>5. tx \in TxType
  BY <1>1, <1>2, <1>3 DEF Tx, TxType, Payloads
<1>6. TxOK(tx)
  BY <1>3, <1>4 DEF TxOK, Sides
<1> QED BY <1>5, <1>6 DEF tx

---------------------------------------------------------------------------
(* The steps.                                                              *)

\* The types of what the relayers hold, when the chains stay as they are.
HandlerType ==
    /\ txs \subseteq TxType
    /\ done \in [Relayers -> SUBSET logs] /\ polled \in [Relayers -> SUBSET logs]
    /\ handed \in [Relayers -> SUBSET Requests]
    /\ rollback \in [Relayers -> [Requests -> {"no", "queued", "stored", "rolling"}]]
    /\ panicked \in BOOLEAN /\ faults \in 0 .. MaxFaults /\ crashes \in 0 .. MaxFaults

ChainType ==
    /\ shape \in [Requests -> Shapes]
    /\ src \in [Requests -> Statuses] /\ dst \in [Requests -> Statuses]
    /\ logs \subseteq Requests \X Sides \X Statuses
    /\ votes \subseteq Relayers \X Requests \X Payloads
    /\ queue \in [Requests -> {"none", "OnFlight", "Committed", "Rollbacked"}]

\* The types are those of the chains and those of the relayers.
LEMMA TypeParts == TypeOK <=> HandlerType /\ ChainType
<1>1. TxType = [from : Relayers, req : Requests,
                to : {"src", "dst", "queue", "blaze"}, status : Payloads]
  <2>1. Sides \cup {"queue", "blaze"} = {"src", "dst", "queue", "blaze"}
    BY DEF Sides
  <2> QED BY <2>1, Zenon DEF TxType
<1> QED BY <1>1 DEF TypeOK, HandlerType, ChainType, Sides

\* The same, after a step.
LEMMA TypePartsNext == TypeOK' <=> HandlerType' /\ ChainType'
BY TypeParts, PTL

\* A relayer does something: what it sends must be true.
LEMMA RelayerStep ==
    ASSUME IInv, UNCHANGED chainVars, HandlerType',
           \A tx \in txs' : tx \in txs \/ TxOK(tx),
           \A r \in Relayers, q \in Requests : rollback'[r][q] # "no" => Started(q),
           panicked' = FALSE
    PROVE  IInv'
<1>1. UNCHANGED <<shape, src, dst, logs, votes, queue>>
  BY DEF chainVars
<1>2. Kept
  BY <1>1, StillKept
<1>3. TypeOK'
  BY <1>1, TypeParts, TypePartsNext DEF IInv, ChainType
<1>4. LogInv'
  BY <1>1, <1>2, LogKept DEF IInv, LogInv
<1>5. TxInv'
  <2> SUFFICES ASSUME NEW tx \in txs' PROVE TxOK(tx)'
    BY DEF TxInv
  <2>1. TxOK(tx) /\ tx.req \in Requests
    BY TxTyped DEF IInv, TxInv, HandlerType, TxType
  <2> QED BY <1>2, <2>1, TxKept
<1>6. RequestInv'
  <2> SUFFICES ASSUME NEW q \in Requests PROVE RequestOK(q)'
    BY DEF RequestInv
  <2>1. RequestOK(q)
    BY DEF IInv, RequestInv
  <2> QED BY <1>1, <2>1 DEF RequestOK, Started, WasExecuted, WasReverted
<1>7. FinalizedAsEnded' /\ NeverPanics'
  BY <1>1 DEF IInv, FinalizedAsEnded, NeverPanics, Kind
<1> QED BY <1>3, <1>4, <1>5, <1>6, <1>7 DEF IInv

\* Something arrives: the queue takes what is true.
LEMMA ArriveStep ==
    ASSUME IInv, NEW tx \in txs, Arrived(tx), ChainType',
           UNCHANGED <<shape, done, polled, handed, rollback, panicked, boundVars>>,
           txs' \subseteq txs,
           \A q \in Requests : queue'[q] = queue[q] \/ (q = tx.req /\ Final(q, queue'[q]))
    PROVE  IInv'
<1>1. Kept
  BY ArrivesKept
<1>2. LogInv' /\ RequestInv'
  <2>1. \A q \in Requests : queue'[q] # "none" => Started(q)
    BY DEF IInv, RequestInv, RequestOK, TxInv, TxOK
  <2> QED BY <2>1, ArrivesLogs
<1>3. TxInv'
  <2> SUFFICES ASSUME NEW x \in txs' PROVE TxOK(x)'
    BY DEF TxInv
  <2>1. TxOK(x) /\ x.req \in Requests
    BY TxTyped DEF IInv, TxInv
  <2> QED BY <1>1, <2>1, TxKept
<1>4. TypeOK'
  <2>1. logs \subseteq logs'
    BY DEF Arrived, Ignores, Records
  <2>2. HandlerType'
    BY <2>1, TypeParts DEF IInv, HandlerType, boundVars
  <2> QED BY <2>2, TypePartsNext
<1>5. FinalizedAsEnded'
  <2> SUFFICES ASSUME NEW q \in Requests PROVE Final(q, queue[q])'
    BY DEF FinalizedAsEnded, Final
  <2>1. Final(q, queue'[q])
    BY DEF IInv, FinalizedAsEnded, Final
  <2>2. Kind(q)' = Kind(q)
    BY DEF Kind
  <2> QED BY <1>1, <2>1, <2>2 DEF Final, Kept
<1>6. NeverPanics'
  BY DEF IInv, NeverPanics
<1> QED BY <1>2, <1>3, <1>4, <1>5, <1>6 DEF IInv

\* A new request.
LEMMA RequestStep ==
    ASSUME IInv, NEW q \in Requests, Request(q)
    PROVE  IInv' /\ Kept
<1>1. /\ shape' = shape /\ dst' = dst /\ votes' = votes /\ queue' = queue /\ txs' = txs
      /\ done' = done /\ polled' = polled /\ handed' = handed /\ rollback' = rollback
      /\ panicked' = panicked /\ faults' = faults /\ crashes' = crashes
  BY DEF Request, boundVars
<1>2. src[q] = "None" /\ src \in [Requests -> Statuses]
  BY DEF Request, IInv, TypeOK
<1>3. PICK side \in Sides : logs' = logs \cup {<<q, side, "Requested">>}
  BY DEF Request, Sides
<1>4. src' = src \/ src' = [src EXCEPT ![q] = "Requested"]
  BY DEF Request
<1>5. Started(q)'
  BY <1>2 DEF Request, Started
<1>6. Kept
  <2> SUFFICES ASSUME NEW p \in Requests
               PROVE  /\ Started(p) => Started(p)'
                      /\ src[p] \in {"Committed", "Rollbacked"} => src'[p] = src[p]
    BY <1>1 DEF Kept, WasExecuted, WasReverted
  <2> QED BY <1>2, <1>3, <1>4 DEF Started
<1>7. TypeOK'
  <2>1. ChainType'
    <3>1. ChainType
      BY TypeParts DEF IInv
    <3>2. logs' \subseteq Requests \X Sides \X Statuses
      BY <1>3, <3>1 DEF ChainType, Statuses
    <3>3. src' \in [Requests -> Statuses]
      BY <1>2, <1>4 DEF Statuses
    <3> QED BY <1>1, <3>1, <3>2, <3>3 DEF ChainType
  <2>2. HandlerType'
    BY <1>1, <1>3, TypeParts DEF IInv, HandlerType
  <2> QED BY <2>1, <2>2, TypePartsNext
<1>8. LogInv'
  <2> SUFFICES ASSUME NEW p \in Requests, NEW e \in Sides, NEW t \in Statuses,
                      <<p, e, t>> \in logs'
               PROVE  LogOK(p, e, t)'
    BY DEF LogInv
  <2>1. CASE <<p, e, t>> \in logs
    BY <1>6, <2>1, LogKept DEF IInv, LogInv
  <2>2. CASE <<p, e, t>> = <<q, side, "Requested">>
    <3>1. p = q /\ t = "Requested"
      BY <2>2
    <3> QED BY <1>5, <3>1 DEF LogOK
  <2> QED BY <1>3, <2>1, <2>2
<1>9. TxInv'
  <2> SUFFICES ASSUME NEW x \in txs' PROVE TxOK(x)'
    BY DEF TxInv
  <2>1. TxOK(x) /\ x.req \in Requests
    BY <1>1, TxTyped DEF IInv, TxInv
  <2> QED BY <1>6, <2>1, TxKept
<1>10. RequestInv'
  <2> SUFFICES ASSUME NEW p \in Requests PROVE RequestOK(p)'
    BY DEF RequestInv
  <2>1. RequestOK(p) /\ (Started(p) => Started(p)')
    BY <1>6 DEF IInv, RequestInv, Kept
  <2>2. src'[p] = src[p] \/ src'[p] = "Requested"
    BY <1>2, <1>4
  <2> QED BY <1>1, <2>1, <2>2 DEF RequestOK, WasExecuted, WasReverted
<1>11. FinalizedAsEnded' /\ NeverPanics'
  <2> SUFFICES ASSUME NEW p \in Requests PROVE Final(p, queue[p])'
    BY <1>1 DEF FinalizedAsEnded, Final, IInv, NeverPanics
  <2>1. Final(p, queue'[p]) /\ Kind(p)' = Kind(p)
    BY <1>1 DEF IInv, FinalizedAsEnded, Final, Kind
  <2> QED BY <1>6, <2>1 DEF Final, Kept
<1> QED BY <1>6, <1>7, <1>8, <1>9, <1>10, <1>11 DEF IInv

\* The votes and the chains keep their types when something arrives.
LEMMA ArrivedType ==
    ASSUME IInv, NEW tx \in txs, Arrived(tx), UNCHANGED shape,
           votes' \subseteq Relayers \X Requests \X Payloads,
           queue' \in [Requests -> {"none", "OnFlight", "Committed", "Rollbacked"}]
    PROVE  ChainType'
<1>1. ChainType /\ tx.req \in Requests
  BY TypeParts, TxTyped DEF IInv
<1>2. CASE Ignores
  BY <1>1, <1>2 DEF ChainType, Ignores
<1>3. ASSUME NEW side \in Sides, NEW s \in Statuses, Records(tx.req, side, s)
      PROVE  ChainType'
  <2>1. logs' \subseteq Requests \X Sides \X Statuses
    BY <1>1, <1>3 DEF Records, ChainType
  <2>2. src' \in [Requests -> Statuses] /\ dst' \in [Requests -> Statuses]
    BY <1>1, <1>3 DEF Records, ChainType
  <2> QED BY <1>1, <2>1, <2>2 DEF ChainType
<1> QED BY <1>2, <1>3 DEF Arrived

\* Every arrival keeps the invariant.
LEMMA ArrivesStep ==
    ASSUME IInv, NEW tx \in txs, Arrive(tx)
    PROVE  IInv' /\ Arrived(tx) /\ UNCHANGED shape
<1>1. /\ tx.from \in Relayers /\ tx.req \in Requests /\ tx.status \in Payloads
      /\ TypeOK /\ TxOK(tx)
  BY TxTyped DEF IInv, TxType, TxInv
<1>2. CASE BifrostPoll(tx)
  <2>1. Arrived(tx)
    BY <1>2, BifrostArrives
  <2>2. Ballot(Kind(tx.req), tx.status) \in Payloads
    BY <1>1 DEF Ballot, build_inbound_signatures, build_outbound_signatures, Payloads, Statuses
  <2>3. votes' = votes \cup {<<tx.from, tx.req, Ballot(Kind(tx.req), tx.status)>>}
        /\ queue' = queue /\ txs' = txs \ {tx}
        /\ UNCHANGED <<shape, done, polled, handed, rollback, panicked, boundVars>>
    BY <1>2 DEF BifrostPoll
  <2>4. ChainType'
    <3>1. votes' \subseteq Relayers \X Requests \X Payloads
      BY <1>1, <2>2, <2>3 DEF TypeOK
    <3> QED BY <1>1, <2>1, <2>3, <3>1, ArrivedType DEF TypeOK
  <2> QED BY <2>1, <2>3, <2>4, ArriveStep
<1>3. CASE ExternalPoll(tx)
  <2>1. Arrived(tx)
    BY <1>3, ExternalArrives
  <2>2. votes' = votes /\ queue' = queue /\ txs' = txs \ {tx}
        /\ UNCHANGED <<shape, done, polled, handed, rollback, panicked, boundVars>>
    BY <1>3 DEF ExternalPoll
  <2>3. ChainType'
    BY <1>1, <2>1, <2>2, ArrivedType DEF TypeOK
  <2> QED BY <2>1, <2>2, <2>3, ArriveStep
<1>4. CASE QueueCall(tx)
  <2>1. Arrived(tx)
    BY <1>4, QueueArrives
  <2>2. txs' = txs \ {tx}
        /\ UNCHANGED <<shape, done, polled, handed, rollback, panicked, boundVars>>
    BY <1>4 DEF QueueCall
  <2>3. votes' \subseteq votes \cup {<<tx.from, tx.req, tx.status>>}
    BY <1>4 DEF QueueCall
  <2>4. queue' = queue \/ queue' = [queue EXCEPT ![tx.req] = tx.status]
    BY <1>4 DEF QueueCall
  <2>5. tx.to = "queue"
    BY <1>4 DEF QueueCall
  <2>6. tx.status \in {"OnFlight", "Committed", "Rollbacked"} /\ Final(tx.req, tx.status)
    BY <1>1, <2>5 DEF TxOK
  <2>7. queue' \in [Requests -> {"none", "OnFlight", "Committed", "Rollbacked"}]
    BY <1>1, <2>4, <2>6 DEF TypeOK
  <2>8. ChainType'
    <3>1. votes' \subseteq Relayers \X Requests \X Payloads
      BY <1>1, <2>3 DEF TypeOK
    <3> QED BY <2>1, <2>2, <2>7, <3>1, ArrivedType
  <2>9. \A q \in Requests : queue'[q] = queue[q] \/ (q = tx.req /\ queue'[q] = tx.status)
    BY <1>1, <2>4 DEF TypeOK
  <2>10. \A q \in Requests : queue'[q] = queue[q] \/ (q = tx.req /\ Final(q, queue'[q]))
    BY <2>6, <2>9
  <2> QED BY <2>1, <2>2, <2>8, <2>10, ArriveStep
<1>5. CASE BlazeCall(tx)
  <2>1. Arrived(tx)
    BY <1>5, BlazeArrives
  <2>2. votes' = votes \cup {<<tx.from, tx.req, "Outbound">>}
        /\ queue' = queue /\ txs' = txs \ {tx}
        /\ UNCHANGED <<shape, done, polled, handed, rollback, panicked, boundVars>>
    BY <1>5 DEF BlazeCall
  <2>3. ChainType'
    <3>1. votes' \subseteq Relayers \X Requests \X Payloads
      BY <1>1, <2>2 DEF TypeOK, Payloads
    <3> QED BY <1>1, <2>1, <2>2, <3>1, ArrivedType DEF TypeOK
  <2> QED BY <2>1, <2>2, <2>3, ArriveStep
<1> QED BY <1>2, <1>3, <1>4, <1>5 DEF Arrive

RollbackStates == {"no", "queued", "stored", "rolling"}

\* An entry of a rollback emitter changes; it is for a request that exists.
LEMMA EntryChanges ==
    ASSUME IInv, NEW r \in Relayers, NEW q \in Requests, NEW v \in RollbackStates, Started(q),
           rollback' = [rollback EXCEPT ![r][q] = v]
    PROVE  /\ rollback' \in [Relayers -> [Requests -> RollbackStates]]
           /\ \A x \in Relayers, p \in Requests : rollback'[x][p] # "no" => Started(p)
<1>1. rollback \in [Relayers -> [Requests -> RollbackStates]]
  BY DEF IInv, TypeOK, RollbackStates
<1>2. \A x \in Relayers, p \in Requests : rollback[x][p] # "no" => Started(p)
  BY DEF IInv, RequestInv, RequestOK
<1>3. \A x \in Relayers : rollback'[x] \in [Requests -> RollbackStates]
                         /\ \A p \in Requests : rollback'[x][p] = rollback[x][p] \/ p = q
  <2> TAKE x \in Relayers
  <2>1. rollback[x] \in [Requests -> RollbackStates]
    BY <1>1
  <2>2. CASE x = r
    <3>1. rollback'[x] = [rollback[x] EXCEPT ![q] = v]
      BY <1>1, <2>2
    <3> QED BY <2>1, <3>1
  <2>3. CASE x # r
    <3>1. rollback'[x] = rollback[x]
      BY <1>1, <2>3
    <3> QED BY <2>1, <3>1
  <2> QED BY <2>2, <2>3
<1>4. rollback' \in [Relayers -> [Requests -> RollbackStates]]
  BY <1>1, <1>3
<1> QED BY <1>2, <1>3, <1>4

\* The relay handler, and what is handed over to it.
LEMMA HandlerStep ==
    ASSUME IInv, NEW r \in Relayers,
           \/ \E e \in logs : HandleLog(r, e)
           \/ \E q \in Requests : HandOver(r, q) \/ BtcOutbound(r, q)
    PROVE  IInv' /\ UNCHANGED chainVars
<1>1. TypeOK /\ LogInv /\ HandlerType /\ panicked = FALSE
      /\ \A x \in Relayers, p \in Requests : rollback[x][p] # "no" => Started(p)
  BY TypeParts DEF IInv, NeverPanics, TypeOK, RequestInv, RequestOK
<1>2. ASSUME NEW q \in Requests, NEW s, Started(q), send_rollbackable_request(r, q, s)
      PROVE  /\ rollback' \in [Relayers -> [Requests -> {"no", "queued", "stored", "rolling"}]]
             /\ \A x \in Relayers, p \in Requests : rollback'[x][p] # "no" => Started(p)
  <2>1. rollback' = rollback \/ rollback' = [rollback EXCEPT ![r][q] = "queued"]
    BY <1>2 DEF send_rollbackable_request
  <2>2. CASE rollback' = rollback
    BY <1>1, <2>2 DEF HandlerType
  <2>3. CASE rollback' = [rollback EXCEPT ![r][q] = "queued"]
    <3>1. "queued" \in RollbackStates
      BY DEF RollbackStates
    <3> QED BY <1>2, <2>3, <3>1, EntryChanges, Zenon DEF RollbackStates
  <2> QED BY <2>1, <2>2, <2>3
<1>3. ASSUME NEW e \in logs, HandleLog(r, e) PROVE IInv' /\ UNCHANGED chainVars
  <2> DEFINE q == e[1]
             s == e[3]
  <2>1. q \in Requests /\ e[2] \in Sides /\ s \in Statuses /\ LogOK(q, e[2], s)
    BY <1>1, LogTyped
  <2>2. UNCHANGED <<chainVars, polled, handed, boundVars>> /\ Done(r, e)
    BY <1>3 DEF HandleLog
  <2>3. s \in Relayable(Kind(q))
    <3>1. /\ ~is_sequence_ended(q, s) /\ s # "Requested" /\ HasClient(Kind(q), e[2])
      BY <1>3, Zenon DEF HandleLog, Handles
    <3>2. Kind(q) = "btcInbound" => e[2] = "dst"
      BY <2>1, <3>1 DEF HasClient, Bitcoin, BifrostSide, is_inbound_sequence, Sides
    <3>3. s \notin {"Committed", "Rollbacked"}
      BY <2>1, <3>1, <3>2 DEF LogOK, is_sequence_ended, Sides
    <3> QED BY <2>1, <3>1, <3>3 DEF LogOK, Relayable, Sides
  <2>4. /\ txs' = txs \cup BrpOutbound(r, q, s) \cup RelayTxs(r, q, s)
        /\ send_rollbackable_request(r, q, s) /\ panicked' = panicked
    BY <1>3, <2>3 DEF HandleLog
  <2>5. \A tx \in txs' : tx \in txs \/ TxOK(tx)
    BY <2>1, <2>4, RelayTrue
  <2>6. Started(q)
    BY <2>1 DEF LogOK
  <2>7. HandlerType' /\ \A x \in Relayers, p \in Requests : rollback'[x][p] # "no" => Started(p)
    <3>1. txs' \subseteq TxType
      BY <1>1, <2>1, <2>4, RelayTyped DEF HandlerType
    <3>2. done' \in [Relayers -> SUBSET logs']
      BY <1>1, <2>2 DEF Done, HandlerType, chainVars
    <3>3. polled' \in [Relayers -> SUBSET logs'] /\ handed' \in [Relayers -> SUBSET Requests]
          /\ faults' \in 0 .. MaxFaults /\ crashes' \in 0 .. MaxFaults
      BY <1>1, <2>2 DEF HandlerType, chainVars, boundVars
    <3> QED BY <1>1, <1>2, <2>1, <2>4, <2>6, <3>1, <3>2, <3>3 DEF HandlerType
  <2> QED BY <1>1, <2>2, <2>4, <2>5, <2>7, RelayerStep, Zenon
<1>4. ASSUME NEW q \in Requests, HandOver(r, q) PROVE IInv' /\ UNCHANGED chainVars
  <2>1. UNCHANGED <<chainVars, done, polled, panicked, boundVars>>
        /\ handed' = [handed EXCEPT ![r] = @ \cup {q}]
    BY <1>4 DEF HandOver
  <2>2. Started(q)
    BY <1>4 DEF HandOver, IInv, RequestInv, RequestOK
  <2>3. /\ txs' \subseteq txs \cup RelayTxs(r, q, "Requested")
        /\ rollback' = rollback \/ send_rollbackable_request(r, q, "Requested")
    BY <1>4 DEF HandOver
  <2>4. "Requested" \in Statuses /\ "src" \in Sides
    BY DEF Statuses, Sides
  <2>5. \A tx \in txs' : tx \in txs \/ TxOK(tx)
    BY <2>2, <2>3, <2>4, RelayTrue
  <2>6. HandlerType' /\ \A x \in Relayers, p \in Requests : rollback'[x][p] # "no" => Started(p)
    <3>1. txs' \subseteq TxType
      BY <1>1, <2>3, <2>4, RelayTyped DEF HandlerType
    <3>2. handed' \in [Relayers -> SUBSET Requests]
      BY <1>1, <2>1 DEF HandlerType
    <3>3. done' \in [Relayers -> SUBSET logs'] /\ polled' \in [Relayers -> SUBSET logs']
          /\ faults' \in 0 .. MaxFaults /\ crashes' \in 0 .. MaxFaults /\ panicked' \in BOOLEAN
      BY <1>1, <2>1 DEF HandlerType, chainVars, boundVars
    <3> QED BY <1>1, <1>2, <2>2, <2>3, <3>1, <3>2, <3>3 DEF HandlerType
  <2> QED BY <1>1, <2>1, <2>5, <2>6, RelayerStep, Zenon
<1>5. ASSUME NEW q \in Requests, BtcOutbound(r, q) PROVE IInv' /\ UNCHANGED chainVars
  <2> DEFINE e == <<q, "dst", "Executed">>
             tx == Tx(r, q, "src", "Executed")
  <2>1. UNCHANGED <<chainVars, polled, handed, rollback, panicked, boundVars>> /\ Done(r, e)
        /\ e \in logs /\ txs' \subseteq txs \cup {tx}
    BY <1>5 DEF BtcOutbound
  <2>2. LogOK(q, "dst", "Executed")
    BY <1>1, <2>1, Zenon DEF LogInv, Sides, Statuses
  <2>3. tx \in TxType /\ tx.req = q /\ tx.to = "src" /\ tx.status = "Executed"
    BY DEF Tx, TxType, Sides, Payloads, Statuses
  <2>4. TxOK(tx)
    <3> HIDE DEF tx
    <3> QED BY <2>2, <2>3 DEF TxOK, LogOK
  <2>5. HandlerType'
    <3> HIDE DEF tx
    <3>1. done' \in [Relayers -> SUBSET logs']
      BY <1>1, <2>1, Zenon DEF Done, HandlerType, chainVars
    <3> QED BY <1>1, <2>1, <2>3, <3>1 DEF HandlerType, chainVars, boundVars
  <2> HIDE DEF e, tx
  <2> QED BY <1>1, <2>1, <2>4, <2>5, RelayerStep, Zenon
<1> QED BY <1>3, <1>4, <1>5

\* The queue poller.
LEMMA PollerStep ==
    ASSUME IInv, NEW r \in Relayers, NEW e \in logs, PollLog(r, e) \/ PollError(r, e)
    PROVE  IInv' /\ UNCHANGED chainVars
<1>1. TypeOK /\ LogInv /\ HandlerType /\ panicked = FALSE
      /\ \A x \in Relayers, p \in Requests : rollback[x][p] # "no" => Started(p)
  BY TypeParts DEF IInv, NeverPanics, TypeOK, RequestInv, RequestOK
<1>2. /\ UNCHANGED <<chainVars, done, handed, rollback, panicked>> /\ Polled(r, e)
      /\ txs' \subseteq txs \cup PollFor(r, e)
      /\ (faults' = faults \/ Fail) /\ crashes' = crashes
  BY DEF PollLog, PollError, boundVars, Fail
<1>3. polled' = [polled EXCEPT ![r] = @ \cup {e}] /\ HasClient(Kind(e[1]), e[2])
  BY <1>2 DEF Polled
<1>4. \A tx \in txs' : tx \in txs \/ TxOK(tx)
  BY <1>1, <1>2, <1>3, PollTrue
<1>5. HandlerType'
  <2>1. txs' \subseteq TxType
    BY <1>1, <1>2, PollTyped DEF HandlerType
  <2>2. polled' \in [Relayers -> SUBSET logs']
    BY <1>1, <1>2, <1>3 DEF HandlerType, chainVars
  <2>3. faults' \in 0 .. MaxFaults
    BY <1>1, <1>2, ConstantsAssumption DEF HandlerType, Fail
  <2> QED BY <1>1, <1>2, <2>1, <2>2, <2>3 DEF HandlerType, chainVars
<1> QED BY <1>1, <1>2, <1>4, <1>5, RelayerStep, Zenon

\* The rollback emitter.
LEMMA EmitterStep ==
    ASSUME IInv, NEW r \in Relayers, NEW q \in Requests,
           receive(r, q) \/ CheckEntry(r, q) \/ try_rollback(r, q) \/ EmitterError(r, q)
    PROVE  IInv' /\ UNCHANGED chainVars
<1>1. HandlerType /\ panicked = FALSE
  BY TypeParts DEF IInv, NeverPanics, TypeOK
<1>2. Started(q)
  <2>1. rollback[r][q] # "no"
    BY DEF receive, CheckEntry, try_rollback, EmitterError
  <2> QED BY <2>1 DEF IInv, RequestInv, RequestOK
<1>3. /\ UNCHANGED <<chainVars, done, polled, handed, panicked>>
      /\ txs' \subseteq txs \cup {RollbackTx(r, q)}
      /\ (faults' = faults \/ Fail) /\ crashes' = crashes
  BY DEF receive, CheckEntry, try_rollback, EmitterError, boundVars, Fail
<1>4. PICK v \in RollbackStates : rollback' = [rollback EXCEPT ![r][q] = v]
  BY DEF receive, CheckEntry, try_rollback, EmitterError, SetRollback, RollbackStates
<1>5. /\ rollback' \in [Relayers -> [Requests -> RollbackStates]]
      /\ \A x \in Relayers, p \in Requests : rollback'[x][p] # "no" => Started(p)
  BY <1>2, <1>4, EntryChanges, Zenon
<1>6. TxOK(RollbackTx(r, q)) /\ RollbackTx(r, q) \in TxType
  BY <1>2, RollbackTrue
<1>7. HandlerType'
  <2>1. faults' \in 0 .. MaxFaults
    BY <1>1, <1>3, ConstantsAssumption DEF HandlerType, Fail
  <2>2. txs' \subseteq TxType
    BY <1>1, <1>3, <1>6 DEF HandlerType
  <2> QED BY <1>1, <1>3, <1>5, <2>1, <2>2 DEF HandlerType, chainVars, RollbackStates
<1> QED BY <1>1, <1>3, <1>5, <1>6, <1>7, RelayerStep, Zenon

\* Errors, lost transactions and restarts.
LEMMA FailureStep ==
    ASSUME IInv,
           \/ \E r \in Relayers, e \in logs : HandleError(r, e)
           \/ \E tx \in txs : LoseTx(tx)
           \/ \E r \in Relayers : Restart(r)
    PROVE  IInv' /\ UNCHANGED chainVars
<1>1. HandlerType /\ panicked = FALSE
      /\ \A x \in Relayers, p \in Requests : rollback[x][p] # "no" => Started(p)
  BY TypeParts DEF IInv, NeverPanics, TypeOK, RequestInv, RequestOK
<1>2. ASSUME NEW r \in Relayers, NEW e \in logs, HandleError(r, e)
      PROVE  IInv' /\ UNCHANGED chainVars
  <2>1. UNCHANGED <<chainVars, txs, polled, handed, rollback, panicked>> /\ Fail
        /\ done' = [done EXCEPT ![r] = @ \cup {e}]
    BY <1>2 DEF HandleError, Done
  <2>2. HandlerType'
    <3>1. faults' \in 0 .. MaxFaults /\ crashes' \in 0 .. MaxFaults
      BY <1>1, <2>1, ConstantsAssumption DEF HandlerType, Fail
    <3>2. done' \in [Relayers -> SUBSET logs']
      BY <1>1, <2>1 DEF HandlerType, chainVars
    <3> QED BY <1>1, <2>1, <3>1, <3>2 DEF HandlerType, chainVars
  <2> QED BY <1>1, <2>1, <2>2, RelayerStep, Zenon
<1>3. ASSUME NEW tx \in txs, LoseTx(tx) PROVE IInv' /\ UNCHANGED chainVars
  <2>1. UNCHANGED <<chainVars, done, polled, handed, rollback, panicked>> /\ Fail
        /\ txs' \subseteq txs
    BY <1>3 DEF LoseTx
  <2>2. HandlerType'
    <3>1. faults' \in 0 .. MaxFaults /\ crashes' \in 0 .. MaxFaults
      BY <1>1, <2>1, ConstantsAssumption DEF HandlerType, Fail
    <3> QED BY <1>1, <2>1, <3>1 DEF HandlerType, chainVars
  <2> QED BY <1>1, <2>1, <2>2, RelayerStep, Zenon
<1>4. ASSUME NEW r \in Relayers, Restart(r) PROVE IInv' /\ UNCHANGED chainVars
  <2>1. /\ UNCHANGED <<chainVars, panicked>> /\ Crash /\ txs' \subseteq txs
        /\ done' = [done EXCEPT ![r] = {}] /\ polled' = [polled EXCEPT ![r] = {}]
        /\ handed' = [handed EXCEPT ![r] = {}]
        /\ rollback' = [rollback EXCEPT ![r] = [q \in Requests |-> "no"]]
    BY <1>4 DEF Restart
  <2>2. \A x \in Relayers, p \in Requests : rollback'[x][p] # "no" => rollback[x][p] # "no"
    BY <1>1, <2>1 DEF HandlerType
  <2>3. HandlerType'
    <3>1. faults' \in 0 .. MaxFaults /\ crashes' \in 0 .. MaxFaults
      BY <1>1, <2>1, ConstantsAssumption DEF HandlerType, Crash
    <3>2. logs' = logs
      BY <2>1 DEF chainVars
    <3>3. done' \in [Relayers -> SUBSET logs'] /\ polled' \in [Relayers -> SUBSET logs']
          /\ handed' \in [Relayers -> SUBSET Requests]
      BY <1>1, <2>1, <3>2 DEF HandlerType
    <3>4. rollback' \in [Relayers -> [Requests -> {"no", "queued", "stored", "rolling"}]]
      BY <1>1, <2>1 DEF HandlerType
    <3> QED BY <1>1, <2>1, <3>1, <3>3, <3>4 DEF HandlerType
  <2> QED BY <1>1, <2>1, <2>2, <2>3, RelayerStep, Zenon
<1> QED BY <1>2, <1>3, <1>4

---------------------------------------------------------------------------
(* The theorems.                                                           *)

\* Every step keeps the invariant, and is a new request, an arrival, or leaves the
\* chains alone.
LEMMA StepInv ==
    ASSUME IInv, [Next]_vars
    PROVE  /\ IInv'
           /\ \/ \E q \in Requests : Request(q)
              \/ \E tx \in txs : Arrived(tx) /\ UNCHANGED shape
              \/ UNCHANGED chainVars
<1>1. ASSUME NEW q \in Requests, Request(q) PROVE IInv'
  BY <1>1, RequestStep
<1>2. ASSUME NEW tx \in txs, Arrive(tx) PROVE IInv' /\ Arrived(tx) /\ UNCHANGED shape
  BY <1>2, ArrivesStep
<1>3. ASSUME NEW r \in Relayers, Relay(r) PROVE IInv' /\ UNCHANGED chainVars
  BY <1>3, HandlerStep, PollerStep DEF Relay
<1>4. ASSUME NEW r \in Relayers, Emitter(r) PROVE IInv' /\ UNCHANGED chainVars
  BY <1>4, EmitterStep DEF Emitter
<1>5. ASSUME Failures PROVE IInv' /\ UNCHANGED chainVars
  BY <1>5, FailureStep, PollerStep, EmitterStep DEF Failures
<1>6. ASSUME UNCHANGED vars PROVE IInv' /\ UNCHANGED chainVars
  <2>1. UNCHANGED <<chainVars, txs, done, polled, handed, rollback, panicked, faults, crashes>>
    BY <1>6 DEF vars, boundVars
  <2>2. HandlerType' /\ panicked' = FALSE
    BY <2>1, TypeParts DEF IInv, HandlerType, chainVars, NeverPanics, TypeOK
  <2>3. \A x \in Relayers, p \in Requests : rollback'[x][p] # "no" => Started(p)
    BY <2>1 DEF IInv, RequestInv, RequestOK
  <2> QED BY <2>1, <2>2, <2>3, RelayerStep, Zenon
<1> QED BY <1>1, <1>2, <1>3, <1>4, <1>5, <1>6 DEF Next

\* Nothing has happened at the start.
LEMMA InitInv == Init => IInv
<1> SUFFICES ASSUME Init PROVE IInv
  OBVIOUS
<1>1. TypeOK
  <2>1. rollback = [r \in Relayers |-> [q \in Requests |-> "no"]]
    BY DEF Init
  <2>2. rollback \in [Relayers -> [Requests -> {"no", "queued", "stored", "rolling"}]]
    BY <2>1
  <2>3. /\ shape \in [Requests -> Shapes]
        /\ src \in [Requests -> Statuses] /\ dst \in [Requests -> Statuses]
        /\ queue \in [Requests -> {"none", "OnFlight", "Committed", "Rollbacked"}]
    BY DEF Init, Statuses
  <2>4. /\ done \in [Relayers -> SUBSET logs] /\ polled \in [Relayers -> SUBSET logs]
        /\ handed \in [Relayers -> SUBSET Requests]
    BY DEF Init
  <2>5. faults \in 0 .. MaxFaults /\ crashes \in 0 .. MaxFaults /\ panicked \in BOOLEAN
    <3>1. faults = 0 /\ crashes = 0 /\ panicked = FALSE
      BY DEF Init
    <3>2. 0 \in 0 .. MaxFaults
      BY ConstantsAssumption
    <3> QED BY <3>1, <3>2, Zenon
  <2>6. logs = {} /\ votes = {} /\ txs = {}
    BY DEF Init
  <2> QED BY <2>2, <2>3, <2>4, <2>5, <2>6 DEF TypeOK
<1>2. LogInv /\ TxInv /\ RequestInv
  BY DEF Init, LogInv, TxInv, RequestInv, RequestOK
<1>3. FinalizedAsEnded /\ NeverPanics
  BY DEF Init, FinalizedAsEnded, NeverPanics
<1> QED BY <1>1, <1>2, <1>3 DEF IInv

\* Whatever is recorded, logged or under way is true.
LEMMA Invariance == Spec => []IInv
BY InitInv, StepInv, PTL DEF Spec

\* The types, for any relayers, requests and faults.
THEOREM TypeCorrect == Spec => []TypeOK
<1>1. IInv => TypeOK
  BY DEF IInv
<1> QED BY <1>1, Invariance, PTL

\* The relay queue records what the source chain recorded (SocketQueuePoller), whatever is
\* voted for late, twice or after a restart.
THEOREM QueueFollowsSource == Spec => []FinalizedAsEnded
<1>1. IInv => FinalizedAsEnded
  BY DEF IInv
<1> QED BY <1>1, Invariance, PTL

\* process_confirmed_log never meets a status it does not know.
THEOREM StatusesAreKnown == Spec => []NeverPanics
<1>1. IInv => NeverPanics
  BY DEF IInv
<1> QED BY <1>1, Invariance, PTL

---------------------------------------------------------------------------
(* The refinement.                                                         *)

\* A step that moves one request as Transfer allows, or none.
MoveOf(q) ==
    /\ \A p \in Requests : p # q => Outcome(p)' = Outcome(p)
    /\ \/ Outcome(q)' = Outcome(q)
       \/ Outcome(q) = "none" /\ Outcome(q)' = "requested"
       \/ Outcome(q) = "requested" /\ Outcome(q)' \in {"executed", "reverted"}
       \/ Outcome(q) = "executed" /\ Outcome(q)' = "committed"
       \/ Outcome(q) = "reverted" /\ Outcome(q)' = "rollbacked"

\* Such a step is one of Transfer.
LEMMA MovesTransfer ==
    ASSUME NEW q \in Requests, MoveOf(q)
    PROVE  [T!Next]_([p \in Requests |-> Outcome(p)])
<1> DEFINE now == [p \in Requests |-> Outcome(p)]
           next == [p \in Requests |-> Outcome(p)']
<1>1. now' = next
  OBVIOUS
<1>2. next = [now EXCEPT ![q] = Outcome(q)'] /\ now[q] = Outcome(q)
  BY Zenon DEF MoveOf
<1>3. CASE Outcome(q)' = Outcome(q)
  BY <1>1, <1>2, <1>3, Zenon
<1>4. CASE Outcome(q)' # Outcome(q)
  BY <1>1, <1>2, <1>4, Zenon DEF MoveOf, T!Next, T!Move
<1> QED BY <1>3, <1>4

\* A new request.
LEMMA RequestMoves ==
    ASSUME IInv, NEW q \in Requests, Request(q)
    PROVE  MoveOf(q)
<1>1. dst' = dst /\ src[q] = "None" /\ <<q, "dst", "Requested">> \notin logs
      /\ src \in [Requests -> Statuses]
  BY DEF Request, IInv, TypeOK
<1>2. dst[q] = "None"
  BY <1>1 DEF IInv, RequestInv, RequestOK, Started
<1>3. \/ src' = src /\ logs' = logs \cup {<<q, "dst", "Requested">>}
      \/ src' = [src EXCEPT ![q] = "Requested"] /\ logs' = logs \cup {<<q, "src", "Requested">>}
  BY DEF Request
<1>4. ASSUME NEW p \in Requests, p # q PROVE Outcome(p)' = Outcome(p)
  <2>1. src'[p] = src[p] /\ dst'[p] = dst[p]
        /\ (<<p, "dst", "Requested">> \in logs' <=> <<p, "dst", "Requested">> \in logs)
    BY <1>1, <1>3, <1>4
  <2> QED BY <2>1 DEF Outcome
<1>5. Outcome(q) = "none"
  BY <1>1, <1>2 DEF Outcome
<1>6. Outcome(q)' = "requested"
  <2>1. dst'[q] = "None" /\ src'[q] \in {"None", "Requested"}
        /\ (src'[q] = "None" => <<q, "dst", "Requested">> \in logs')
    BY <1>1, <1>2, <1>3
  <2> QED BY <2>1 DEF Outcome
<1> QED BY <1>4, <1>5, <1>6 DEF MoveOf

\* A poll that the sockets act on.
LEMMA LegalMoves ==
    ASSUME IInv, NEW q \in Requests, NEW side \in Sides, NEW s \in Statuses,
           Legal(q, side, s), Records(q, side, s)
    PROVE  MoveOf(q)
<1>1. src \in [Requests -> Statuses] /\ dst \in [Requests -> Statuses] /\ RequestOK(q)
  BY DEF IInv, TypeOK, RequestInv
<1>2. logs' = logs \cup {<<q, side, s>>}
  BY DEF Records
<1>3. s # "Requested"
  BY DEF Legal
<1>4. \A p \in Requests : <<p, "dst", "Requested">> \in logs' <=> <<p, "dst", "Requested">> \in logs
  BY <1>2, <1>3
<1>5. ASSUME NEW p \in Requests, p # q PROVE Outcome(p)' = Outcome(p)
  <2>1. src'[p] = src[p] /\ dst'[p] = dst[p]
    BY <1>1, <1>5 DEF Records, Sides
  <2> QED BY <1>4, <2>1 DEF Outcome
<1>6. CASE side = "src"
  <2>1. src'[q] = s /\ dst'[q] = dst[q] /\ src[q] \in {"Requested", "Accepted"}
    BY <1>1, <1>6 DEF Records, Legal
  <2>2. \/ s = "Accepted"
        \/ s = "Committed" /\ WasExecuted(q)
        \/ s = "Rollbacked" /\ WasReverted(q)
    BY <1>6 DEF Legal
  <2>3. CASE s = "Accepted"
    BY <1>4, <1>5, <2>1, <2>3, Zenon DEF MoveOf, Outcome
  <2>4. CASE s = "Committed" /\ WasExecuted(q)
    <3>1. Outcome(q) = "executed" /\ Outcome(q)' = "committed"
      BY <2>1, <2>4 DEF Outcome, WasExecuted
    <3> QED BY <1>5, <3>1 DEF MoveOf
  <2>5. CASE s = "Rollbacked" /\ WasReverted(q)
    <3>1. Outcome(q) = "reverted" /\ Outcome(q)' = "rollbacked"
      BY <2>1, <2>5 DEF Outcome, WasReverted
    <3> QED BY <1>5, <3>1 DEF MoveOf
  <2> QED BY <2>2, <2>3, <2>4, <2>5
<1>7. CASE side = "dst"
  <2>1. dst'[q] = s /\ src'[q] = src[q]
    BY <1>1, <1>7 DEF Records
  <2>2. CASE dst[q] = "None"
    <3>1. src[q] \notin {"Committed", "Rollbacked"} /\ Started(q)
      BY <1>1, <2>2 DEF RequestOK, WasExecuted, WasReverted, Legal
    <3>2. s \in {"Executed", "Reverted"}
      BY <1>7, <2>2 DEF Legal
    <3>3. Outcome(q) = "requested"
      BY <2>2, <3>1 DEF Outcome, Started
    <3>4. Outcome(q)' \in {"executed", "reverted"}
      BY <2>1, <3>1, <3>2 DEF Outcome
    <3> QED BY <1>5, <3>3, <3>4 DEF MoveOf
  <2>3. CASE dst[q] # "None"
    <3>1. \/ dst[q] = "Executed" /\ s = "Accepted"
          \/ dst[q] = "Reverted" /\ s = "Rejected"
      BY <1>7, <2>3 DEF Legal
    <3>2. Outcome(q)' = Outcome(q)
      BY <2>1, <3>1 DEF Outcome
    <3> QED BY <1>5, <3>2 DEF MoveOf
  <2> QED BY <2>2, <2>3
<1> QED BY <1>6, <1>7 DEF Sides

\* The relay of requests implements Transfer: whatever relayers send late, twice or not at
\* all, whoever restarts and whenever a rollback is tried, a request is executed or
\* reverted once, and its source chain records which.
THEOREM RelaysImplementTransfer == Spec => ImplementsTransfer
<1>1. Init => T!Init
  <2> SUFFICES ASSUME Init PROVE [q \in Requests |-> Outcome(q)] = [q \in Requests |-> "none"]
    BY DEF T!Init
  <2>1. \A q \in Requests : Outcome(q) = "none"
    BY DEF Init, Outcome
  <2> QED BY <2>1
<1>2. ASSUME IInv, [Next]_vars PROVE [T!Next]_([q \in Requests |-> Outcome(q)])
  <2>1. ASSUME NEW q \in Requests, Request(q)
        PROVE  [T!Next]_([p \in Requests |-> Outcome(p)])
    BY <1>2, <2>1, RequestMoves, MovesTransfer
  <2>2. ASSUME UNCHANGED <<src, dst, logs>>
        PROVE  [T!Next]_([p \in Requests |-> Outcome(p)])
    <3>1. \A p \in Requests : Outcome(p)' = Outcome(p)
      BY <2>2 DEF Outcome
    <3> QED BY <3>1
  <2>3. ASSUME NEW tx \in txs, Arrived(tx)
        PROVE  [T!Next]_([p \in Requests |-> Outcome(p)])
    <3>1. tx.req \in Requests
      BY <1>2, TxTyped DEF IInv
    <3>2. ASSUME NEW side \in Sides, NEW s \in Statuses,
                 Legal(tx.req, side, s), Records(tx.req, side, s)
          PROVE  [T!Next]_([p \in Requests |-> Outcome(p)])
      BY <1>2, <3>1, <3>2, LegalMoves, MovesTransfer
    <3> QED BY <2>2, <2>3, <3>2 DEF Arrived, Ignores
  <2> QED BY <1>2, <2>1, <2>2, <2>3, StepInv DEF chainVars
<1> QED BY <1>1, <1>2, Invariance, PTL DEF Spec, ImplementsTransfer, T!TransferSpec
=============================================================================
