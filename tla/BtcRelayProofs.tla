-------------------------- MODULE BtcRelayProofs ---------------------------
(***************************************************************************)
(* BtcRelay, for any chain, any number of confirmations and any number of  *)
(* reorganisations no deeper than that: what BlockManager has published    *)
(* from a confirmed block stays on the chain, and each handler gets, and   *)
(* votes for, the transactions that are its own.                           *)
(***************************************************************************)
EXTENDS BtcRelay, SequenceTheorems, TLAPS

\* The part of the types that the argument needs.
ManagerType ==
    /\ chain \in Seq(SUBSET Txs)
    /\ up \in {"down", "boot", "wait", "run"}
    /\ waiting \in Nat
    /\ up # "down" => waiting >= 1

\* All that was published lies under block_confirmations blocks.
PassedIsBuried == \A x \in passed : Buried(x)

\* A buried transaction is in one of the blocks that are confirmed.
LEMMA BuriedInBlock ==
    ASSUME NEW x
    PROVE  Buried(x) <=> \E n \in 1 .. Len(chain) - Confirmations : x \in chain[n]
BY DEF Buried, Between, latest

\* The blocks that a reorganisation keeps, and the branch it adds.
LEMMA Branch ==
    ASSUME chain \in Seq(SUBSET Txs), NEW k \in 1 .. ReorgDepth, Reorg(k)
    PROVE  /\ chain' \in Seq(SUBSET Txs)
           /\ Len(chain') = Len(chain) + 1
           /\ \A n \in 1 .. Len(chain) - k : chain'[n] = chain[n]
<1> DEFINE kept == SubSeq(chain, 1, latest - k)
<1>1. k \in Nat /\ k <= Len(chain)
  BY BtcRelayAssumption DEF Reorg, latest
<1>2. kept \in Seq(SUBSET Txs) /\ Len(kept) = Len(chain) - k
      /\ \A n \in 1 .. Len(chain) - k : kept[n] = chain[n]
  BY <1>1 DEF latest
<1>3. PICK block \in SUBSET Txs : chain' = kept \o <<block>> \o [i \in 1 .. k |-> {}]
  BY Zenon DEF Reorg
<1> HIDE DEF kept
<1>4. <<block>> \in Seq(SUBSET Txs) /\ Len(<<block>>) = 1
  OBVIOUS
<1>5. [i \in 1 .. k |-> {}] \in Seq(SUBSET Txs) /\ Len([i \in 1 .. k |-> {}]) = k
  BY <1>1
<1>6. kept \o <<block>> \in Seq(SUBSET Txs) /\ Len(kept \o <<block>>) = Len(chain) - k + 1
      /\ \A n \in 1 .. Len(chain) - k : (kept \o <<block>>)[n] = chain[n]
  <2>1. /\ kept \o <<block>> \in Seq(SUBSET Txs)
        /\ Len(kept \o <<block>>) = Len(kept) + 1
        /\ \A n \in 1 .. Len(kept) + 1 :
             (kept \o <<block>>)[n] = IF n <= Len(kept) THEN kept[n] ELSE <<block>>[n - Len(kept)]
    BY <1>2, <1>4, ConcatProperties, Zenon
  <2>2. Len(kept) = Len(chain) - k
    BY <1>2, Zenon
  <2>3. Len(kept \o <<block>>) = Len(chain) - k + 1
    BY <2>1, <2>2, Zenon
  <2>4. ASSUME NEW n \in 1 .. Len(chain) - k
        PROVE  (kept \o <<block>>)[n] = chain[n]
    <3>1. n \in 1 .. Len(kept) + 1 /\ n <= Len(kept) /\ n \in 1 .. Len(kept)
      <4>1. Len(kept) \in Nat
        BY <1>1, <2>2
      <4> QED BY <2>2, <4>1
    <3>2. (kept \o <<block>>)[n] = kept[n]
      BY <2>1, <3>1, Zenon
    <3> QED BY <1>2, <2>4, <3>2, Zenon
  <2> QED BY <2>1, <2>3, <2>4, Zenon
<1> QED BY <1>1, <1>3, <1>5, <1>6

\* Every step keeps the types.
LEMMA StepType == ManagerType /\ [Next]_vars => ManagerType'
<1> SUFFICES ASSUME ManagerType, [Next]_vars PROVE ManagerType'
  OBVIOUS
<1> USE BtcRelayAssumption DEF ManagerType
<1>1. CASE Mine
  BY <1>1 DEF Mine, manager
<1>2. ASSUME NEW k \in 1 .. ReorgDepth, Reorg(k) PROVE ManagerType'
  <2>1. chain' \in Seq(SUBSET Txs)
    BY <1>2, Branch
  <2> QED BY <1>2, <2>1 DEF Reorg, manager
<1>3. CASE initialize
  BY <1>3 DEF initialize, bitcoin, latest
<1>4. CASE bootstrap
  BY <1>4 DEF bootstrap, bitcoin
<1>5. CASE AllBootstrapped
  BY <1>5 DEF AllBootstrapped, bitcoin
<1>6. CASE process_confirmed_block
  <2>1. UNCHANGED <<bitcoin, up>> /\ waiting' = latest - Confirmations + 1
        /\ latest - waiting >= Confirmations
    BY <1>6 DEF process_confirmed_block, increment_waiting_block, ConfirmedBlock, is_block_confirmed
  <2> QED BY <2>1 DEF bitcoin, latest
<1>7. ASSUME UNCHANGED <<bitcoin, manager>> PROVE ManagerType'
  BY <1>7 DEF bitcoin, manager
<1>8. CASE Inbound \/ Outbound \/ (\E d \in Txs : Land(d))
  BY <1>7, <1>8 DEF Inbound, Outbound, HandleInbound, HandleOutbound, Land
<1>9. CASE Failures
  <2>1. CASE Crash
    BY <2>1 DEF Crash, bitcoin
  <2>2. CASE InboundError \/ OutboundError \/ Unselect
    BY <1>7, <2>2 DEF InboundError, OutboundError, HandleInbound, HandleOutbound, Unselect
  <2>3. ASSUME NEW d \in Deposits, Finish(d) \/ RequestRollback(d) PROVE ManagerType'
    BY <1>7, <2>3 DEF Finish, RequestRollback
  <2> QED BY <1>9, <2>1, <2>2, <2>3 DEF Failures
<1>10. CASE UNCHANGED vars
  BY <1>7, <1>10 DEF vars
<1> QED
  BY <1>1, <1>2, <1>3, <1>4, <1>5, <1>6, <1>8, <1>9, <1>10 DEF Next, Relayer

\* What was published and is buried stays so in every step.
LEMMA StepBuried == ManagerType /\ PassedIsBuried /\ [Next]_vars => PassedIsBuried'
<1> SUFFICES ASSUME ManagerType, PassedIsBuried, [Next]_vars PROVE PassedIsBuried'
  OBVIOUS
<1> USE BtcRelayAssumption
<1>a. chain \in Seq(SUBSET Txs)
  BY DEF ManagerType
<1>b. \A x \in passed : \E n \in 1 .. Len(chain) - Confirmations : x \in chain[n]
  BY BuriedInBlock DEF PassedIsBuried
<1>c. ASSUME NEW k \in 0 .. Confirmations, Len(chain') = Len(chain) + 1, passed' = passed,
             \A n \in 1 .. Len(chain) - k : chain'[n] = chain[n]
      PROVE  PassedIsBuried'
  <2>1. \A x \in passed' : \E n \in 1 .. Len(chain') - Confirmations : x \in chain'[n]
    BY <1>a, <1>b, <1>c
  <2> QED BY <2>1 DEF PassedIsBuried, Buried, Between, latest
<1>d. ASSUME UNCHANGED <<chain, passed>> PROVE PassedIsBuried'
  BY <1>d DEF PassedIsBuried, Buried, Between, latest
<1>1. CASE Mine
  <2>1. PICK block \in SUBSET (Txs \ OnChain) : chain' = Append(chain, block)
    BY <1>1 DEF Mine
  <2>2. Len(chain') = Len(chain) + 1 /\ \A n \in 1 .. Len(chain) : chain'[n] = chain[n]
    BY <1>a, <2>1, AppendProperties
  <2> QED BY <1>1, <1>a, <1>c, <2>2 DEF Mine, manager
<1>2. ASSUME NEW k \in 1 .. ReorgDepth, Reorg(k) PROVE PassedIsBuried'
  <2>1. Len(chain') = Len(chain) + 1 /\ \A n \in 1 .. Len(chain) - k : chain'[n] = chain[n]
    BY <1>2, <1>a, Branch
  <2>2. passed' = passed /\ k \in 0 .. Confirmations
    BY <1>2 DEF Reorg, manager
  <2> QED BY <1>c, <2>1, <2>2, Zenon
<1>3. CASE process_confirmed_block
  <2> DEFINE blocks == [i \in 1 .. ConfirmedBlock - waiting + 1 |-> chain[waiting + i - 1]]
  <2>1. UNCHANGED chain /\ passed' = passed \cup UNION Range(blocks) /\ up = "run"
    BY <1>3 DEF process_confirmed_block, bitcoin
  <2>2. waiting \in Nat /\ waiting >= 1
    BY <2>1 DEF ManagerType
  <2>3. \A x \in UNION Range(blocks) : \E n \in 1 .. Len(chain) - Confirmations : x \in chain[n]
    BY <1>a, <2>2 DEF Range, ConfirmedBlock, latest
  <2> HIDE DEF blocks
  <2>4. \A x \in passed' : \E n \in 1 .. Len(chain') - Confirmations : x \in chain'[n]
    BY <1>b, <2>1, <2>3
  <2> QED BY <2>4 DEF PassedIsBuried, Buried, Between, latest
<1>4. CASE initialize \/ bootstrap \/ AllBootstrapped
  BY <1>4, <1>d DEF initialize, bootstrap, AllBootstrapped, bitcoin
<1>5. CASE Inbound \/ Outbound \/ (\E d \in Txs : Land(d))
  BY <1>5, <1>d DEF Inbound, Outbound, HandleInbound, HandleOutbound, Land, bitcoin, manager
<1>6. CASE Failures
  BY <1>6, <1>d DEF Failures, InboundError, OutboundError, HandleInbound, HandleOutbound,
                    Crash, Unselect, Finish, RequestRollback, bitcoin, manager
<1>7. CASE UNCHANGED vars
  BY <1>7, <1>d DEF vars, bitcoin, manager
<1> QED
  BY <1>1, <1>2, <1>3, <1>4, <1>5, <1>6, <1>7 DEF Next, Relayer

\* What a relayer has published from a confirmed block stays on the chain, whatever the
\* chain's length, the number of its reorganisations and of the relayer's restarts; that
\* it lies under block_confirmations blocks is what makes this inductive.
THEOREM PublishedIsFinal == Spec => []PassedIsFinal
<1>1. Init => ManagerType /\ PassedIsBuried
  BY BtcRelayAssumption DEF Init, ManagerType, PassedIsBuried
<1>2. ManagerType /\ PassedIsBuried => PassedIsFinal
  <2> SUFFICES ASSUME ManagerType, PassedIsBuried, NEW x \in passed PROVE x \in OnChain
    BY DEF PassedIsFinal
  <2>1. PICK n \in 1 .. Len(chain) - Confirmations : x \in chain[n]
    BY BuriedInBlock DEF PassedIsBuried
  <2>2. n \in DOMAIN chain
    BY <2>1, BtcRelayAssumption DEF ManagerType
  <2> QED BY <2>1, <2>2 DEF OnChain, Range
<1> QED BY <1>1, <1>2, StepType, StepBuried, PTL DEF Spec

---------------------------------------------------------------------------
(* Types.  That every vote is for a deposit or a payout follows from what  *)
(* the messages hold, all the way from the blocks to the polls.            *)

\* The chain has its type and stays within the bound of the model.
LEMMA StepChain ==
    ASSUME TypeOK, [Next]_vars
    PROVE  /\ chain' \in Seq(SUBSET Txs) /\ Len(chain') <= MaxHeight
           /\ reorgs' \in 0 .. MaxReorgs
<1> USE BtcRelayAssumption
<1>1. chain \in Seq(SUBSET Txs) /\ Len(chain) <= MaxHeight /\ reorgs \in 0 .. MaxReorgs
      /\ Len(chain) \in Nat
  BY LenProperties DEF TypeOK, latest
<1>2. CASE Mine
  <2>1. PICK block \in SUBSET (Txs \ OnChain) : chain' = Append(chain, block)
    BY <1>2 DEF Mine
  <2>2. block \in SUBSET Txs /\ Len(chain) < MaxHeight /\ reorgs' = reorgs
    BY <1>2 DEF Mine, latest
  <2>3. chain' \in Seq(SUBSET Txs) /\ Len(chain') = Len(chain) + 1
    BY <1>1, <2>1, <2>2, AppendProperties
  <2> QED BY <1>1, <2>2, <2>3
<1>3. ASSUME NEW k \in 1 .. ReorgDepth, Reorg(k)
      PROVE  /\ chain' \in Seq(SUBSET Txs) /\ Len(chain') <= MaxHeight
             /\ reorgs' \in 0 .. MaxReorgs
  <2>1. Len(chain) < MaxHeight /\ reorgs' = reorgs + 1 /\ reorgs < MaxReorgs
    BY <1>3 DEF Reorg, latest
  <2>2. chain' \in Seq(SUBSET Txs) /\ Len(chain') = Len(chain) + 1
    BY <1>1, <1>3, Branch, Zenon
  <2> QED BY <1>1, <2>1, <2>2
<1>4. ASSUME UNCHANGED bitcoin
      PROVE  /\ chain' \in Seq(SUBSET Txs) /\ Len(chain') <= MaxHeight
             /\ reorgs' \in 0 .. MaxReorgs
  BY <1>1, <1>4, Zenon DEF bitcoin
<1>5. CASE Relayer \/ (\E d \in Txs : Land(d))
  BY <1>4, <1>5, Zenon DEF Relayer, initialize, bootstrap, AllBootstrapped,
     process_confirmed_block, Inbound, Outbound, HandleInbound, HandleOutbound, Land
<1>6. CASE Failures
  BY <1>4, <1>6, Zenon DEF Failures, InboundError, OutboundError, HandleInbound, HandleOutbound,
     Crash, Unselect, Finish, RequestRollback
<1>7. CASE UNCHANGED vars
  BY <1>4, <1>7, Zenon DEF vars
<1> QED BY <1>2, <1>3, <1>5, <1>6, <1>7, Zenon DEF Next

\* What the chain and the bounds do not concern.
RestOK ==
    /\ up \in {"down", "boot", "wait", "run"}
    /\ start \in Nat /\ waiting \in Nat /\ start <= waiting
    /\ inbox \in Seq(SUBSET (Deposits \cup Changes)) /\ outbox \in Seq(SUBSET Payouts)
    /\ polls \subseteq Txs \ Changes /\ voted \subseteq Txs \ Changes
    /\ finished \subseteq Deposits /\ rolled \subseteq Deposits
    /\ utxos \subseteq Deposits \cup Changes
    /\ selected \in BOOLEAN
    /\ passed \subseteq Txs /\ handled \subseteq Txs

\* A step that leaves all this alone.
LEMMA RestFrame ==
    ASSUME RestOK, UNCHANGED <<up, start, waiting, inbox, outbox, polls, voted, finished, rolled,
                               utxos, selected, passed, handled>>
    PROVE  RestOK'
BY Zenon DEF RestOK

\* The handlers vote for no change, and take in nothing that is not theirs.
LEMMA HandlersType ==
    ASSUME RestOK, NEW events,
           \/ inbox # <<>> /\ events \subseteq Head(inbox) /\ HandleInbound(events)
           \/ outbox # <<>> /\ events \subseteq Head(outbox) /\ HandleOutbound(events)
    PROVE  RestOK'
<1> USE BtcRelayAssumption
<1>1. CASE inbox # <<>> /\ events \subseteq Head(inbox) /\ HandleInbound(events)
  <2>1. /\ inbox \in Seq(SUBSET (Deposits \cup Changes))
        /\ Head(inbox) \in SUBSET (Deposits \cup Changes)
        /\ Tail(inbox) \in Seq(SUBSET (Deposits \cup Changes))
    BY <1>1, HeadTailProperties DEF RestOK
  <2>2. events \subseteq Deposits \cup Changes
    BY <1>1, <2>1
  <2>3. \A d \in events : PollsFor(d) \subseteq Deposits /\ submit_utxo(d) \subseteq events
    BY DEF PollsFor, submit_utxo
  <2>4. polls' \subseteq Txs \ Changes
    <3>1. \A x \in polls' : x \in polls \/ x \in Deposits
      BY <1>1, <2>3, Zenon DEF HandleInbound
    <3> QED BY <3>1 DEF RestOK, Txs
  <2>5. utxos' \subseteq Deposits \cup Changes
    <3>1. \A x \in utxos' : x \in utxos \/ x \in events
      BY <1>1, <2>3, Zenon DEF HandleInbound
    <3> QED BY <2>2, <3>1, Zenon DEF RestOK
  <2>6. handled' \subseteq Txs
    BY <1>1, <2>2 DEF HandleInbound, RestOK, Txs
  <2>7. inbox' = Tail(inbox)
        /\ UNCHANGED <<up, start, waiting, outbox, voted, finished, rolled, selected, passed>>
    BY <1>1, Zenon DEF HandleInbound, manager
  <2> QED BY <2>1, <2>4, <2>5, <2>6, <2>7, Zenon DEF RestOK
<1>2. CASE outbox # <<>> /\ events \subseteq Head(outbox) /\ HandleOutbound(events)
  <2>1. /\ outbox \in Seq(SUBSET Payouts)
        /\ Head(outbox) \in SUBSET Payouts
        /\ Tail(outbox) \in Seq(SUBSET Payouts)
    BY <1>2, HeadTailProperties DEF RestOK
  <2>2. events \subseteq Payouts
    BY <1>2, <2>1
  <2>3. polls' \subseteq Txs \ Changes /\ handled' \subseteq Txs
    BY <1>2, <2>2 DEF HandleOutbound, RestOK, Txs
  <2>4. outbox' = Tail(outbox)
        /\ UNCHANGED <<up, start, waiting, inbox, voted, finished, rolled, utxos, selected, passed>>
    BY <1>2, Zenon DEF HandleOutbound, manager
  <2> QED BY <2>1, <2>3, <2>4, Zenon DEF RestOK
<1> QED BY <1>1, <1>2, Zenon

\* What BlockManager publishes.
LEMMA ManagerSteps ==
    ASSUME TypeOK, RestOK, ManagerType,
           initialize \/ bootstrap \/ AllBootstrapped \/ process_confirmed_block
    PROVE  RestOK'
<1> USE BtcRelayAssumption
<1>1. chain \in Seq(SUBSET Txs) /\ Len(chain) \in Nat
  BY LenProperties DEF TypeOK
<1>2. CASE initialize
  <2>1. up' = "boot" /\ waiting' = Len(chain) + 1 /\ start' = Len(chain) + 1
        /\ UNCHANGED <<inbox, outbox, polls, voted, finished, rolled, utxos, selected, passed,
                       handled>>
    BY <1>2 DEF initialize, latest, channels, bifrost
  <2>2. start' \in Nat /\ waiting' \in Nat /\ start' <= waiting'
    BY <1>1, <2>1
  <2> QED BY <2>1, <2>2, Zenon DEF RestOK
<1>3. CASE bootstrap
  <2>1. PICK txs : inbox' = Append(inbox, filter_inbound(txs))
                   /\ outbox' = Append(outbox, filter_outbound(txs))
    BY <1>3, Zenon DEF bootstrap
  <2>2. filter_inbound(txs) \in SUBSET (Deposits \cup Changes) /\ filter_outbound(txs) \in SUBSET Payouts
    BY DEF filter_inbound, filter_outbound
  <2>3. /\ inbox' \in Seq(SUBSET (Deposits \cup Changes))
        /\ outbox' \in Seq(SUBSET Payouts)
    BY <2>1, <2>2, AppendProperties DEF RestOK
  <2>4. up' = "wait"
        /\ UNCHANGED <<start, waiting, polls, voted, finished, rolled, utxos, selected, passed,
                       handled>>
    BY <1>3 DEF bootstrap, bifrost
  <2> QED BY <2>3, <2>4, Zenon DEF RestOK
<1>4. CASE AllBootstrapped
  <2>1. up' = "run"
        /\ UNCHANGED <<start, waiting, inbox, outbox, polls, voted, finished, rolled, utxos,
                       selected, passed, handled>>
    BY <1>4 DEF AllBootstrapped, channels, bifrost
  <2> QED BY <2>1, Zenon DEF RestOK
<1>5. CASE process_confirmed_block
  <2> DEFINE n == ConfirmedBlock - waiting + 1
             blocks == [i \in 1 .. n |-> chain[waiting + i - 1]]
             ins == [i \in DOMAIN blocks |-> filter_inbound(blocks[i])]
             outs == [i \in DOMAIN blocks |-> filter_outbound(blocks[i])]
  <2>1. /\ up = "run" /\ waiting' = ConfirmedBlock + 1
        /\ Len(chain) - waiting >= Confirmations
        /\ inbox' = inbox \o ins /\ outbox' = outbox \o outs
        /\ passed' = passed \cup UNION Range(blocks)
        /\ UNCHANGED <<up, start, handled, polls, voted, finished, rolled, utxos, selected>>
    BY <1>5, Zenon DEF process_confirmed_block, increment_waiting_block, is_block_confirmed, latest,
       bifrost
  <2>2. waiting \in Nat /\ waiting >= 1 /\ start \in Nat /\ start <= waiting
    BY <2>1 DEF ManagerType, RestOK
  <2>3. n \in Nat /\ waiting' \in Nat /\ start <= waiting'
        /\ \A i \in 1 .. n : waiting + i - 1 \in 1 .. Len(chain)
    BY <1>1, <2>1, <2>2 DEF ConfirmedBlock, latest
  <2>4. \A i \in 1 .. n : blocks[i] \in SUBSET Txs
    BY <1>1, <2>3, ElementOfSeq, Zenon
  <2>5. DOMAIN blocks = 1 .. n
    BY Zenon
  <2> HIDE DEF n
  <2>6. ins \in Seq(SUBSET (Deposits \cup Changes))
    <3>1. \A i \in 1 .. n : filter_inbound(blocks[i]) \in SUBSET (Deposits \cup Changes)
      BY DEF filter_inbound
    <3> HIDE DEF blocks
    <3> QED BY <2>3, <2>5, <3>1
  <2>7. outs \in Seq(SUBSET Payouts)
    <3>1. \A i \in 1 .. n : filter_outbound(blocks[i]) \in SUBSET Payouts
      BY DEF filter_outbound
    <3> HIDE DEF blocks
    <3> QED BY <2>3, <2>5, <3>1
  <2> HIDE DEF ins, outs
  <2>8. inbox' \in Seq(SUBSET (Deposits \cup Changes)) /\ outbox' \in Seq(SUBSET Payouts)
    BY <2>1, <2>6, <2>7, ConcatProperties DEF RestOK
  <2>9. passed' \subseteq Txs
    <3>1. \A x \in UNION Range(blocks) : \E i \in 1 .. n : x \in blocks[i]
      BY <2>5, Zenon DEF Range
    <3> HIDE DEF blocks
    <3>2. \A x \in passed' : x \in passed \/ x \in UNION Range(blocks)
      BY <2>1, Zenon
    <3> QED BY <2>4, <3>1, <3>2, Zenon DEF RestOK
  <2> QED BY <2>1, <2>2, <2>3, <2>8, <2>9, Zenon DEF RestOK
<1> QED BY <1>2, <1>3, <1>4, <1>5, Zenon

\* Every step keeps the rest.
LEMMA StepRest == TypeOK /\ RestOK /\ ManagerType /\ [Next]_vars => RestOK'
<1> SUFFICES ASSUME TypeOK, RestOK, ManagerType, [Next]_vars PROVE RestOK'
  OBVIOUS
<1>1. CASE Mine \/ (\E k \in 1 .. ReorgDepth : Reorg(k))
  BY <1>1, RestFrame, Zenon DEF Mine, Reorg, manager, channels, bifrost
<1>2. CASE Inbound
  BY <1>2, HandlersType, Zenon DEF Inbound
<1>3. CASE Outbound
  BY <1>3, HandlersType, Zenon DEF Outbound
<1>4. CASE InboundError
  BY <1>4, HandlersType, Zenon DEF InboundError
<1>5. CASE OutboundError
  BY <1>5, HandlersType, Zenon DEF OutboundError
<1>6. ASSUME NEW d \in Txs, Land(d) PROVE RestOK'
  <2>1. polls' \subseteq Txs \ Changes /\ voted' \subseteq Txs \ Changes
    BY <1>6 DEF Land, RestOK
  <2>2. UNCHANGED <<up, start, waiting, inbox, outbox, finished, rolled, utxos, selected, passed,
                    handled>>
    BY <1>6, Zenon DEF Land, manager, channels
  <2> QED BY <2>1, <2>2, Zenon DEF RestOK
<1>7. CASE Crash
  <2>1. up' = "down" /\ inbox' = <<>> /\ outbox' = <<>>
        /\ UNCHANGED <<start, waiting, polls, voted, finished, rolled, utxos, selected, passed,
                       handled>>
    BY <1>7, Zenon DEF Crash, bifrost
  <2>2. inbox' \in Seq(SUBSET (Deposits \cup Changes)) /\ outbox' \in Seq(SUBSET Payouts)
    BY <2>1
  <2> QED BY <2>1, <2>2, Zenon DEF RestOK
<1>8. CASE Unselect
  <2>1. selected' = FALSE
        /\ UNCHANGED <<up, start, waiting, inbox, outbox, polls, voted, finished, rolled, utxos,
                       passed, handled>>
    BY <1>8, Zenon DEF Unselect, manager, channels
  <2> QED BY <2>1, Zenon DEF RestOK
<1>9. ASSUME NEW d \in Deposits, Finish(d) \/ RequestRollback(d) PROVE RestOK'
  <2>1. finished' \subseteq Deposits /\ rolled' \subseteq Deposits
    BY <1>9 DEF Finish, RequestRollback, RestOK
  <2>2. UNCHANGED <<up, start, waiting, inbox, outbox, polls, voted, utxos, selected, passed,
                    handled>>
    BY <1>9, Zenon DEF Finish, RequestRollback, manager, channels
  <2> QED BY <2>1, <2>2, Zenon DEF RestOK
<1>10. CASE UNCHANGED vars
  BY <1>10, RestFrame, Zenon DEF vars, manager, channels, bifrost
<1>11. CASE Relayer
  BY <1>2, <1>3, <1>11, ManagerSteps, Zenon DEF Relayer
<1>12. CASE Failures
  BY <1>4, <1>5, <1>7, <1>8, <1>9, <1>12, Zenon DEF Failures
<1> QED BY <1>1, <1>6, <1>10, <1>11, <1>12, Zenon DEF Next

\* The count of failures stays within its bound, and blind a truth value.
LEMMA StepBounds ==
    ASSUME TypeOK, [Next]_vars
    PROVE  faults' \in 0 .. MaxFaults /\ blind' \in BOOLEAN
<1>1. MaxFaults \in Nat /\ faults \in 0 .. MaxFaults
  BY BtcRelayAssumption, Zenon DEF TypeOK
<1>2. Fail => faults' \in 0 .. MaxFaults
  BY <1>1 DEF Fail
<1>3. faults' = faults \/ Fail
  BY Zenon DEF Next, Mine, Reorg, Relayer, initialize, bootstrap, AllBootstrapped,
     process_confirmed_block, Inbound, Outbound, Land, Failures, InboundError, OutboundError,
     Crash, Unselect, Finish, RequestRollback, vars
<1>4. blind \in BOOLEAN
  BY Zenon DEF TypeOK
<1>5. blind' \in BOOLEAN
  BY <1>4, Zenon DEF Next, Mine, Reorg, Relayer, initialize, bootstrap, AllBootstrapped,
     process_confirmed_block, Inbound, Outbound, Land, Failures, InboundError, OutboundError,
     Crash, Unselect, Finish, RequestRollback, vars
<1> QED BY <1>1, <1>2, <1>3, <1>5, Zenon

\* TypeOK in the two parts the steps are shown to keep.
LEMMA TypeSplit ==
    TypeOK <=> /\ chain \in Seq(SUBSET Txs) /\ Len(chain) <= MaxHeight /\ RestOK
               /\ reorgs \in 0 .. MaxReorgs /\ faults \in 0 .. MaxFaults /\ blind \in BOOLEAN
BY Zenon DEF TypeOK, RestOK, latest

\* The handlers get the transactions that are theirs, and no vote is ever for the change
\* to the system vault, whatever the chain, the restarts and the errors.
THEOREM VotesAreForTheirs == Spec => []TypeOK
<1>1. Init => TypeOK /\ ManagerType
  <2> SUFFICES ASSUME Init PROVE TypeOK /\ ManagerType
    OBVIOUS
  <2>1. Genesis \in Nat /\ Genesis <= MaxHeight /\ MaxReorgs \in Nat /\ MaxFaults \in Nat
    BY BtcRelayAssumption
  <2>2. chain \in Seq(SUBSET Txs) /\ Len(chain) = Genesis
    <3>1. chain = [n \in 1 .. Genesis |-> {}]
      BY Zenon DEF Init
    <3> QED BY <2>1, <3>1
  <2>3. RestOK
    BY DEF Init, RestOK
  <2>4. reorgs \in 0 .. MaxReorgs /\ faults \in 0 .. MaxFaults /\ blind \in BOOLEAN
    <3>1. reorgs = 0 /\ faults = 0 /\ blind \in BOOLEAN
      BY Zenon DEF Init
    <3>2. reorgs \in 0 .. MaxReorgs /\ faults \in 0 .. MaxFaults
      BY <2>1, <3>1
    <3> QED BY <3>1, <3>2, Zenon
  <2> QED BY <2>1, <2>2, <2>3, <2>4, TypeSplit DEF ManagerType, Init
<1>2. TypeOK /\ ManagerType /\ [Next]_vars => TypeOK'
  <2> SUFFICES ASSUME TypeOK, ManagerType, [Next]_vars PROVE TypeOK'
    OBVIOUS
  <2>1. RestOK'
    BY StepRest, TypeSplit, Zenon
  <2> QED BY <2>1, StepChain, StepBounds, Zenon DEF TypeOK, RestOK, latest
<1> QED BY <1>1, <1>2, StepType, PTL DEF Spec
=============================================================================
