----------------------- MODULE SocketOnflightProofs -----------------------
(***************************************************************************)
(* Proofs about SocketOnflight, for any transfers, any number of           *)
(* confirmations and any bounds: its types, that a Standard transfer is    *)
(* handed over only when its source transaction is settled, that no marked *)
(* transfer is lost from sight, and that none is handed over twice.        *)
(***************************************************************************)
EXTENDS SocketOnflight, SequenceTheorems, TLAPS

USE DEF Transfers, Receipt

\* The entry at hand is an entry.
LEMMA PendingEntry ==
    ASSUME TypeOK, NEW i \in Nat \ {0}, i <= Len(pending)
    PROVE  pending[i] \in Standard \X Nat
<1>1. pending \in Seq(Standard \X Nat)
  BY DEF TypeOK
<1>2. Len(pending) \in Nat
  BY <1>1, LenProperties
<1>3. i \in 1 .. Len(pending)
  BY <1>2
<1> QED BY <1>1, <1>3, ElementOfSeq

\* What HandOver does to the counts for the confirmed transfers of a pass.
LEMMA HandOverReady ==
    ASSUME TypeOK, HandOver(ready)
    PROVE  /\ handed' \in [Transfers -> Nat]
           /\ \A t \in Standard : handed'[t] = handed[t] + ready[t]
           /\ \A t \in Transfers \ Standard : handed'[t] = handed[t]
           /\ \A t \in Transfers : handed[t] > 0 => handed'[t] > 0
<1>1. handed \in [Transfers -> Nat] /\ ready \in [Standard -> Nat] /\ DOMAIN ready = Standard
  BY DEF TypeOK
<1>2. handed' = [t \in Transfers |-> IF t \in Standard THEN handed[t] + ready[t] ELSE handed[t]]
  BY <1>1 DEF HandOver
<1> HIDE DEF Transfers
<1>3. \A t \in Transfers : handed'[t] \in Nat /\ (handed[t] > 0 => handed'[t] > 0)
  BY <1>1, <1>2
<1>4. \A t \in Standard : t \in Transfers
  BY DEF Transfers
<1> QED BY <1>1, <1>2, <1>3, <1>4

\* What it does for a single Fast transfer.
LEMMA HandOverOne ==
    ASSUME TypeOK, NEW t \in Transfers, HandOver([x \in {t} |-> 1])
    PROVE  /\ handed' \in [Transfers -> Nat]
           /\ handed'[t] = handed[t] + 1 /\ handed'[t] > 0
           /\ \A u \in Transfers : u # t => handed'[u] = handed[u]
<1>1. handed \in [Transfers -> Nat]
  BY DEF TypeOK
<1>2. handed' = [u \in Transfers |-> IF u \in {t} THEN handed[u] + [x \in {t} |-> 1][u] ELSE handed[u]]
  BY DEF HandOver
<1>3. handed' = [u \in Transfers |-> IF u = t THEN handed[u] + 1 ELSE handed[u]]
  BY <1>2
<1> HIDE DEF Transfers
<1> QED BY <1>1, <1>3

\* Every step keeps the types.
LEMMA StepType == TypeOK /\ [Next]_vars => TypeOK'
<1> SUFFICES ASSUME TypeOK, [Next]_vars PROVE TypeOK'
  OBVIOUS
<1> USE DepthAssumption, BoundsAssumption DEF TypeOK
<1> USE DEF chainVars, storageVars, checkVars, markVars, scanVars
<1>1. CASE Source
  <2>1. ASSUME NEW S \in SUBSET Transfers, Mine(S) PROVE TypeOK'
    BY <2>1 DEF Mine
  <2>2. ASSUME NEW d \in 1 .. MaxDepth,
               NEW place \in [Above(d) -> {0} \cup (height - d) + 1 .. height + 1],
               Reorg(d, place)
        PROVE  TypeOK'
    <3>1. d \in Nat /\ height - d \in Nat
      BY <2>2 DEF Reorg
    <3>2. \A t \in Above(d) : place[t] \in Nat
      BY <3>1
    <3>3. txBlock' \in [Transfers -> Nat] /\ height' \in Nat /\ reorgs' \in Nat
      BY <2>2, <3>2 DEF Reorg
    <3> QED BY <2>2, <3>3, Zenon DEF Reorg
  <2> QED BY <1>1, <2>1, <2>2, Zenon DEF Source, Mining
<1>2. ASSUME NEW entries \in SUBSET Transfers, Publish(entries)
      PROVE  onflight' \subseteq Transfers /\ stream' \in Seq(SUBSET Transfers)
  <2>1. Append(stream, entries) \in Seq(SUBSET Transfers)
    BY AppendProperties
  <2> QED BY <1>2, <2>1 DEF Publish
<1>3. ASSUME NEW t \in Transfers, Approve(t) \/ Finalize(t) \/ Fork(t) PROVE TypeOK'
  <2>1. onflight' \subseteq Transfers /\ stream' \in Seq(SUBSET Transfers)
    <3>1. Publish(onflight \cup {t}) \/ Publish(onflight \ {t})
      BY <1>3 DEF Approve, Finalize, Fork
    <3>2. onflight \cup {t} \in SUBSET Transfers /\ onflight \ {t} \in SUBSET Transfers
      OBVIOUS
    <3> QED BY <1>2, <3>1, <3>2, Zenon
  <2>2. finalized' \subseteq Transfers /\ forks' \in Nat
    BY <1>3 DEF Approve, Finalize, Fork
  <2>3. UNCHANGED <<chainVars, pc, scanVars, markVars, checkVars, faults>>
    BY <1>3 DEF Approve, Finalize, Fork
  <2> QED BY <2>1, <2>2, <2>3, Zenon
<1>4. CASE EmptyBlock
  <2>1. onflight' \subseteq Transfers /\ stream' \in Seq(SUBSET Transfers)
    BY <1>2, <1>4, Zenon DEF EmptyBlock
  <2> QED BY <1>4, <2>1 DEF EmptyBlock
<1>5. ASSUME NEW t \in Standard, Push(t)
      PROVE  pending' \in Seq(Standard \X Nat) /\ processed' \subseteq Transfers
  <2>1. <<t, txBlock[t]>> \in Standard \X Nat
    OBVIOUS
  <2>2. Append(pending, <<t, txBlock[t]>>) \in Seq(Standard \X Nat)
    BY <2>1, AppendProperties
  <2> QED BY <1>5, <2>2 DEF Push
<1>6. CASE StartRecovery
  BY <1>6 DEF StartRecovery
<1>7. ASSUME NEW t \in todo, Recover(t) PROVE TypeOK'
  <2>1. t \in Standard
    BY <1>7 DEF Recover
  <2>2. pending' \in Seq(Standard \X Nat) /\ processed' \subseteq Transfers
    BY <1>5, <1>7, <2>1 DEF Recover
  <2> QED BY <1>7, <2>2 DEF Recover
<1>8. ASSUME NEW rest \in SUBSET todo, RecoverError(rest) PROVE TypeOK'
  BY <1>8 DEF RecoverError, Fail
<1>9. CASE Subscribe
  <2>1. <<onflight>> \in Seq(SUBSET Transfers)
    OBVIOUS
  <2> QED BY <1>9, <2>1 DEF Subscribe
<1>10. CASE Rerun
  <2>1. stream' = <<>> /\ <<>> \in Seq(SUBSET Transfers)
    BY <1>10 DEF Rerun
  <2> QED BY <1>10, <2>1 DEF Rerun, Fail
<1>11. CASE TakeBlock
  <2>1. Head(stream) \in SUBSET Transfers /\ Tail(stream) \in Seq(SUBSET Transfers)
    BY <1>11, HeadTailProperties DEF TakeBlock
  <2> QED BY <1>11, <2>1 DEF TakeBlock
<1>12. ASSUME NEW e \in Standard \X Nat PROVE Append(kept, e) \in Seq(Standard \X Nat)
  BY AppendProperties
<1>13. idx <= Len(pending) => pending[idx] \in Standard \X Nat
  BY PendingEntry
<1>14. CASE CheckHead
  <2>1. kept' \in Seq(Standard \X Nat)
    BY <1>12, <1>13, <1>14, Zenon DEF CheckHead
  <2>2. pc' \in {"check", "verify"} /\ idx' \in Nat \ {0}
    <3>1. \/ pc' = "verify" /\ idx' = idx
          \/ pc' = "check" /\ idx' = idx + 1
      BY <1>14 DEF CheckHead
    <3> QED BY <3>1
  <2>3. UNCHANGED <<chainVars, storageVars, stream, scanVars, markVars, ready, unmark, faults>>
    BY <1>14 DEF CheckHead
  <2> QED BY <1>14, <2>1, <2>2, <2>3, Zenon DEF CheckHead
<1>15. CASE CheckReceipt
  <2> DEFINE t == pending[idx][1]
  <2>1. t \in Standard /\ <<t, txBlock[t]>> \in Standard \X Nat
    BY <1>13, <1>15 DEF CheckReceipt
  <2>2. Append(kept, <<t, txBlock[t]>>) \in Seq(Standard \X Nat)
    BY <1>12, <2>1
  <2>3. [ready EXCEPT ![t] = @ + 1] \in [Standard -> Nat]
    <3>1. ready \in [Standard -> Nat]
      OBVIOUS
    <3>2. t \in Standard
      BY <2>1
    <3> HIDE DEF TypeOK, t
    <3>3. ready[t] + 1 \in Nat
      BY <3>1, <3>2
    <3> QED BY <3>1, <3>3, Zenon
  <2>4. kept' \in {kept, Append(kept, <<t, txBlock[t]>>)}
        /\ ready' \in {ready, [ready EXCEPT ![t] = @ + 1]}
        /\ unmark' \in {unmark, unmark \cup {t}}
    BY <1>15, Zenon DEF CheckReceipt
  <2>5. pc' = "check" /\ idx' = idx + 1
        /\ UNCHANGED <<chainVars, storageVars, stream, scanVars, markVars, faults>>
    BY <1>15 DEF CheckReceipt
  <2>6. kept' \in Seq(Standard \X Nat) /\ ready' \in [Standard -> Nat]
        /\ unmark' \subseteq Standard
    <3> HIDE DEF t
    <3> QED BY <2>1, <2>2, <2>3, <2>4, Zenon
  <2>7. pc # "recover"
    BY <1>15 DEF CheckReceipt
  <2> HIDE DEF t
  <2> QED BY <2>5, <2>6, <2>7
<1>16. CASE CheckError
  <2>1. kept' \in Seq(Standard \X Nat)
    BY <1>12, <1>13, <1>16 DEF CheckError
  <2>2. pc' = "check" /\ idx' \in Nat \ {0} /\ faults' \in Nat
    BY <1>16 DEF CheckError, Fail
  <2>3. pc # "recover"
        /\ UNCHANGED <<chainVars, storageVars, stream, scanVars, markVars, ready, unmark>>
    BY <1>16 DEF CheckError
  <2> QED BY <2>1, <2>2, <2>3, Zenon
<1>17. Unchecked => /\ idx' \in Nat \ {0} /\ kept' \in Seq(Standard \X Nat)
                    /\ ready' \in [Standard -> Nat] /\ unmark' \subseteq Standard
  <2>1. <<>> \in Seq(Standard \X Nat)
    OBVIOUS
  <2> QED BY <2>1 DEF Unchecked
<1>18. CASE EndCheck
  <2>1. handed' \in [Transfers -> Nat]
    BY <1>18, HandOverReady DEF EndCheck
  <2> QED BY <1>17, <1>18, <2>1 DEF EndCheck
<1>19. ASSUME NEW t \in todo, Scan(t) PROVE TypeOK'
  <2>1. pending' \in Seq(Standard \X Nat) /\ processed' \subseteq Transfers
        /\ handed' \in [Transfers -> Nat]
    <3>1. t \in Transfers
      BY <1>19 DEF Scan
    <3>2. CASE UNCHANGED markVars
      BY <3>2
    <3>3. CASE HandOver([x \in {t} |-> 1]) /\ processed' = processed \cup {t}
               /\ UNCHANGED pending
      BY <3>1, <3>3, HandOverOne, Zenon
    <3>4. CASE t \in Standard /\ Push(t) /\ UNCHANGED handed
      BY <1>5, <3>4
    <3> QED BY <1>19, <3>2, <3>3, <3>4, Zenon DEF Scan
  <2> QED BY <1>19, <2>1 DEF Scan
<1>20. ASSUME NEW t \in todo, ScanSkip(t) PROVE TypeOK'
  BY <1>20 DEF ScanSkip, Fail
<1>21. CASE ScanError
  BY <1>21 DEF ScanError, Fail
<1>22. CASE Cleanup
  BY <1>22 DEF Cleanup
<1>23. CASE Crash
  <2>1. <<>> \in Seq(SUBSET Transfers) /\ <<>> \in Seq(Standard \X Nat)
    OBVIOUS
  <2> QED BY <1>17, <1>23, <2>1 DEF Crash, Fail
<1>24. CASE UNCHANGED vars
  BY <1>24 DEF vars
<1> QED
  BY <1>1, <1>3, <1>4, <1>6, <1>7, <1>8, <1>9, <1>10, <1>11, <1>14, <1>15, <1>16,
     <1>18, <1>19, <1>20, <1>21, <1>22, <1>23, <1>24, Zenon DEF Next, Handler

\* The variables keep their types.
THEOREM TypeCorrect == Spec => []TypeOK
<1>1. Init => TypeOK
  <2> SUFFICES ASSUME Init PROVE TypeOK
    OBVIOUS
  <2>1. <<>> \in Seq(SUBSET Transfers) /\ <<>> \in Seq(Standard \X Nat)
    OBVIOUS
  <2> QED BY <2>1 DEF Init, TypeOK
<1> QED BY <1>1, StepType, PTL DEF Spec

---------------------------------------------------------------------------
(* What is handed over is settled.  The depth is compared before the       *)
(* receipt is read: between the two the recorded block is deep, and the    *)
(* receipt then shows that the transaction is in it.                       *)

SettledInv ==
    /\ HandedOverIsSettled
    /\ \A t \in Standard : ready[t] > 0 => Settled(t)
    /\ pc = "verify" => idx <= Len(pending) /\ pending[idx][2] + Conf <= height

\* A settled transaction stays settled, whatever the source chain does.
LEMMA SettledStays ==
    ASSUME TypeOK, Source, NEW t \in Transfers, Settled(t)
    PROVE  Settled(t)'
<1> USE DepthAssumption DEF TypeOK, Settled
<1>1. txBlock[t] \in Nat /\ height \in Nat /\ txBlock[t] # 0 /\ txBlock[t] + Conf <= height
  OBVIOUS
<1>2. ASSUME NEW S \in SUBSET Transfers, Mine(S) PROVE Settled(t)'
  <2>1. height' = height + 1 /\ txBlock'[t] = txBlock[t]
    BY <1>1, <1>2 DEF Mine
  <2> QED BY <1>1, <2>1
<1>3. ASSUME NEW d \in 1 .. MaxDepth,
             NEW place \in [Above(d) -> {0} \cup (height - d) + 1 .. height + 1],
             Reorg(d, place)
      PROVE  Settled(t)'
  <2>1. t \notin Above(d)
    BY <1>1 DEF Above
  <2>2. height' = height + 1 /\ txBlock'[t] = txBlock[t]
    BY <1>3, <2>1 DEF Reorg
  <2> QED BY <1>1, <2>2
<1> QED BY <1>2, <1>3 DEF Source, Mining

\* Steps that touch neither the source chain nor the transfers to process.
LEMMA SettledFrame ==
    ASSUME TypeOK, SettledInv,
           UNCHANGED <<height, txBlock, ready>>,
           \A t \in Standard : handed'[t] = handed[t],
           pc' = "verify" => UNCHANGED <<pc, pending, idx>>
    PROVE  SettledInv'
<1>1. HandedOverIsSettled'
  BY DEF SettledInv, HandedOverIsSettled, Settled
<1>2. (\A t \in Standard : ready[t] > 0 => Settled(t))'
  BY DEF SettledInv, Settled
<1>3. (pc = "verify" => idx <= Len(pending) /\ pending[idx][2] + Conf <= height)'
  BY DEF SettledInv
<1> QED BY <1>1, <1>2, <1>3 DEF SettledInv

\* Every step keeps SettledInv.
LEMMA StepSettled == TypeOK /\ TypeOK' /\ SettledInv /\ [Next]_vars => SettledInv'
<1> SUFFICES ASSUME TypeOK, TypeOK', SettledInv, [Next]_vars PROVE SettledInv'
  OBVIOUS
<1> USE DEF chainVars, storageVars, checkVars, markVars, scanVars
<1>1. CASE Source
  <2>1. UNCHANGED <<pc, pending, idx, ready, handed>> /\ height' = height + 1
    BY <1>1 DEF Source, Mining, Mine, Reorg
  <2>2. \A t \in Standard : Settled(t) => Settled(t)'
    BY <1>1, SettledStays
  <2>3. HandedOverIsSettled'
    BY <2>1, <2>2 DEF SettledInv, HandedOverIsSettled
  <2>4. (\A t \in Standard : ready[t] > 0 => Settled(t))'
    BY <2>1, <2>2 DEF SettledInv
  <2>5. (pc = "verify" => idx <= Len(pending) /\ pending[idx][2] + Conf <= height)'
    <3> SUFFICES ASSUME pc = "verify"
                 PROVE  idx <= Len(pending) /\ pending[idx][2] + Conf <= height + 1
      BY <2>1
    <3>1. idx <= Len(pending) /\ pending[idx][2] + Conf <= height
      BY DEF SettledInv
    <3>2. pending[idx] \in Standard \X Nat
      <4>1. idx \in Nat \ {0}
        BY DEF TypeOK
      <4> QED BY <3>1, <4>1, PendingEntry
    <3>3. pending[idx][2] \in Nat /\ height \in Nat /\ Conf \in Nat
      BY <3>2, DepthAssumption DEF TypeOK
    <3> QED BY <3>1, <3>3
  <2> QED BY <2>3, <2>4, <2>5 DEF SettledInv
<1>2. ASSUME NEW t \in Transfers, Approve(t) \/ Finalize(t) \/ Fork(t) PROVE SettledInv'
  BY <1>2, SettledFrame DEF Approve, Finalize, Fork
<1>3. CASE EmptyBlock \/ StartRecovery \/ Subscribe \/ TakeBlock
  BY <1>3, SettledFrame DEF EmptyBlock, StartRecovery, Subscribe, TakeBlock
<1>4. ASSUME NEW t \in todo, Recover(t) \/ ScanSkip(t) PROVE SettledInv'
  BY <1>4, SettledFrame DEF Recover, ScanSkip
<1>5. CASE (\E rest \in SUBSET todo : RecoverError(rest)) \/ Rerun
  BY <1>5, SettledFrame DEF RecoverError, Rerun
<1>6. CASE CheckError \/ ScanError \/ Cleanup
  BY <1>6, SettledFrame DEF CheckError, ScanError, Cleanup
<1>7. ASSUME NEW t \in todo, Scan(t) PROVE SettledInv'
  <2>1. \A u \in Standard : handed'[u] = handed[u]
    <3>1. handed' = handed \/ (t \in Fast /\ HandOver([x \in {t} |-> 1]))
      BY <1>7 DEF Scan
    <3>2. CASE t \in Fast /\ HandOver([x \in {t} |-> 1])
      BY <3>2, HandOverOne, TransfersAssumption
    <3> QED BY <3>1, <3>2
  <2>2. UNCHANGED <<height, txBlock, ready, pc>> /\ pc # "verify"
    BY <1>7 DEF Scan
  <2> QED BY <2>1, <2>2, SettledFrame
<1>8. CASE CheckHead
  <2>1. CASE DeepEnough(pending[idx][2])
    <3>1. UNCHANGED <<height, txBlock, ready, handed, pending, idx>> /\ idx <= Len(pending)
      BY <1>8, <2>1 DEF CheckHead
    <3>2. HandedOverIsSettled'
      BY <3>1 DEF SettledInv, HandedOverIsSettled, Settled
    <3>3. (\A t \in Standard : ready[t] > 0 => Settled(t))'
      BY <3>1 DEF SettledInv, Settled
    <3>4. pending[idx][2] + Conf <= height
      <4>1. pending[idx] \in Standard \X Nat
        <5>1. idx \in Nat \ {0}
          BY DEF TypeOK
        <5> QED BY <3>1, <5>1, PendingEntry
      <4>2. pending[idx][2] \in Nat /\ height \in Nat /\ Conf \in Nat
        BY <4>1, DepthAssumption DEF TypeOK
      <4> QED BY <2>1, <4>2 DEF DeepEnough
    <3> QED BY <3>1, <3>2, <3>3, <3>4 DEF SettledInv
  <2>2. CASE ~DeepEnough(pending[idx][2])
    <3>1. UNCHANGED <<height, txBlock, ready, handed>> /\ pc' # "verify"
      BY <1>8, <2>2 DEF CheckHead
    <3> QED BY <3>1, SettledFrame
  <2> QED BY <2>1, <2>2
<1>9. CASE CheckReceipt
  <2> DEFINE u == pending[idx][1]
  <2>1. UNCHANGED <<height, txBlock, handed>> /\ pc' # "verify" /\ pc = "verify"
    BY <1>9 DEF CheckReceipt
  <2>2. CASE ready' = ready
    BY <2>1, <2>2, SettledFrame
  <2>3. CASE txBlock[u] # 0 /\ txBlock[u] = pending[idx][2]
             /\ ready' = [ready EXCEPT ![u] = @ + 1]
    <3>1. Settled(u)
      BY <2>1, <2>3 DEF SettledInv, Settled
    <3>2. \A t \in Standard : t # u => ready'[t] = ready[t]
      BY <2>3 DEF TypeOK
    <3>3. (\A t \in Standard : ready[t] > 0 => Settled(t))'
      BY <2>1, <3>1, <3>2 DEF SettledInv, Settled
    <3>4. HandedOverIsSettled'
      BY <2>1 DEF SettledInv, HandedOverIsSettled, Settled
    <3> QED BY <2>1, <3>3, <3>4 DEF SettledInv
  <2> QED BY <1>9, <2>2, <2>3 DEF CheckReceipt
<1>10. CASE EndCheck
  <2>1. UNCHANGED <<height, txBlock>> /\ pc' # "verify"
    BY <1>10 DEF EndCheck
  <2>2. \A t \in Standard : handed'[t] = handed[t] + ready[t]
    BY <1>10, HandOverReady DEF EndCheck
  <2>3. \A t \in Standard : handed[t] \in Nat /\ ready[t] \in Nat
    BY DEF TypeOK
  <2>4. HandedOverIsSettled'
    <3> SUFFICES ASSUME NEW t \in Standard, handed'[t] > 0 PROVE Settled(t)
      BY <2>1 DEF HandedOverIsSettled, Settled
    <3>1. handed[t] > 0 \/ ready[t] > 0
      BY <2>2, <2>3
    <3> QED BY <3>1 DEF SettledInv, HandedOverIsSettled
  <2>5. \A t \in Standard : ready'[t] = 0
    BY <1>10 DEF EndCheck, Unchecked
  <2> QED BY <2>1, <2>4, <2>5 DEF SettledInv
<1>11. CASE Crash
  <2>1. \A t \in Standard : ready'[t] = 0 /\ handed'[t] = 0
    BY <1>11 DEF Crash, Unchecked
  <2>2. pc' # "verify"
    BY <1>11 DEF Crash
  <2>3. HandedOverIsSettled'
    BY <2>1 DEF HandedOverIsSettled
  <2>4. (\A t \in Standard : ready[t] > 0 => Settled(t))'
    BY <2>1
  <2> QED BY <2>2, <2>3, <2>4 DEF SettledInv
<1>12. CASE UNCHANGED vars
  BY <1>12, SettledFrame DEF vars
<1> QED
  BY <1>1, <1>2, <1>3, <1>4, <1>5, <1>6, <1>7, <1>8, <1>9, <1>10, <1>11, <1>12
  DEF Next, Handler

\* A Standard transfer is handed over to SocketRelayHandler only when its source
\* transaction is out of reach of any reorganisation.
THEOREM OnlySettledHandedOver == Spec => []HandedOverIsSettled
<1>1. Init => SettledInv
  BY DEF Init, SettledInv, HandedOverIsSettled
<1>2. SettledInv => HandedOverIsSettled
  BY DEF SettledInv
<1> QED BY <1>1, <1>2, StepSettled, TypeCorrect, PTL DEF Spec

---------------------------------------------------------------------------
(* No marked transfer is lost from sight.  While the pending transfers are *)
(* checked, each one that was visited is in one of the three lists that    *)
(* the end of the pass works off.                                          *)

Accounted(t) == t \in unmark \/ ready[t] > 0 \/ Listed(kept, t)

TrackInv ==
    /\ MarkedIsTracked
    /\ pc \notin {"check", "verify"} => idx = 1
    /\ \A j \in 1 .. Len(pending) : j < idx => Accounted(pending[j][1])

\* What is listed stays listed when an entry is appended, and the new one is.
LEMMA ListedAppend ==
    ASSUME NEW s \in Seq(Standard \X Nat), NEW e \in Standard \X Nat
    PROVE  /\ \A t : Listed(s, t) => Listed(Append(s, e), t)
           /\ Listed(Append(s, e), e[1])
<1>1. /\ Len(Append(s, e)) = Len(s) + 1 /\ Len(s) \in Nat
      /\ \A i \in 1 .. Len(s) : Append(s, e)[i] = s[i]
      /\ Append(s, e)[Len(s) + 1] = e
  BY AppendProperties, LenProperties
<1>2. ASSUME NEW t, Listed(s, t) PROVE Listed(Append(s, e), t)
  <2>1. PICK i \in 1 .. Len(s) : s[i][1] = t
    BY <1>2 DEF Listed
  <2>2. i \in 1 .. Len(Append(s, e)) /\ Append(s, e)[i][1] = t
    BY <1>1, <2>1
  <2> QED BY <2>2 DEF Listed
<1>3. Listed(Append(s, e), e[1])
  <2>1. Len(s) + 1 \in 1 .. Len(Append(s, e))
    BY <1>1
  <2> QED BY <1>1, <2>1 DEF Listed
<1> QED BY <1>2, <1>3

\* At the first entry nothing has been visited.
LEMMA NothingVisited ==
    ASSUME idx' = 1
    PROVE  (\A j \in 1 .. Len(pending) : j < idx => Accounted(pending[j][1]))'
<1> SUFFICES ASSUME NEW j \in 1 .. Len(pending'), j < 1 PROVE FALSE
  OBVIOUS
<1>1. j \in Int /\ 1 <= j
  OBVIOUS
<1> QED BY <1>1

\* Steps that push nothing and check nothing.
LEMMA TrackFrame ==
    ASSUME TrackInv, UNCHANGED <<pending, handed, checkVars>>,
           processed' \subseteq processed,
           pc' \in {"check", "verify"} \/ idx = 1
    PROVE  TrackInv'
<1> USE DEF checkVars
<1>1. MarkedIsTracked'
  BY DEF TrackInv, MarkedIsTracked, Listed
<1>2. (\A j \in 1 .. Len(pending) : j < idx => Accounted(pending[j][1]))'
  BY DEF TrackInv, Accounted, Listed
<1> QED BY <1>1, <1>2 DEF TrackInv

\* One more pending transfer has been visited.
LEMMA TrackVisit ==
    ASSUME TypeOK, TrackInv, UNCHANGED <<pending, processed, handed>>,
           pc' \in {"check", "verify"}, idx' = idx + 1,
           NEW v, idx <= Len(pending) => v = pending[idx][1], Accounted(v)',
           \A t \in Standard : Accounted(t) => Accounted(t)'
    PROVE  TrackInv'
<1>1. MarkedIsTracked'
  BY DEF TrackInv, MarkedIsTracked, Listed
<1>2. ASSUME NEW j \in 1 .. Len(pending), j < idx + 1,
             NEW u, u = pending[j][1]
      PROVE  Accounted(u)'
  <2>1. idx \in Nat /\ Len(pending) \in Nat
    BY LenProperties DEF TypeOK
  <2>2. u \in Standard
    <3>1. pending[j] \in Standard \X Nat
      BY ElementOfSeq DEF TypeOK
    <3> QED BY <1>2, <3>1
  <2>3. CASE j < idx
    BY <1>2, <2>2, <2>3 DEF TrackInv
  <2>4. CASE j = idx
    <3>1. u = v
      BY <1>2, <2>1, <2>4
    <3> QED BY <3>1
  <2> QED BY <1>2, <2>1, <2>3, <2>4
<1>3. (\A j \in 1 .. Len(pending) : j < idx => Accounted(pending[j][1]))'
  BY <1>2 DEF Accounted
<1> QED BY <1>1, <1>3 DEF TrackInv

\* Every step keeps TrackInv.
LEMMA StepTrack == TypeOK /\ TrackInv /\ [Next]_vars => TrackInv'
<1> SUFFICES ASSUME TypeOK, TrackInv, [Next]_vars PROVE TrackInv'
  OBVIOUS
<1> USE DEF chainVars, storageVars, checkVars, markVars, scanVars
<1>0. pc \in {"check", "verify"} \/ idx = 1
  BY DEF TrackInv
<1>1. CASE Source
  BY <1>0, <1>1, TrackFrame DEF Source, Mining, Mine, Reorg
<1>2. ASSUME NEW t \in Transfers, Approve(t) \/ Finalize(t) \/ Fork(t) PROVE TrackInv'
  BY <1>0, <1>2, TrackFrame DEF Approve, Finalize, Fork
<1>3. CASE EmptyBlock \/ StartRecovery \/ Subscribe \/ TakeBlock
  BY <1>0, <1>3, TrackFrame DEF EmptyBlock, StartRecovery, Subscribe, TakeBlock
<1>4. CASE \E t \in todo : ScanSkip(t)
  BY <1>0, <1>4, TrackFrame DEF ScanSkip
<1>5. CASE (\E rest \in SUBSET todo : RecoverError(rest)) \/ Rerun
  BY <1>0, <1>5, TrackFrame DEF RecoverError, Rerun
<1>6. CASE ScanError \/ Cleanup
  BY <1>0, <1>6, TrackFrame DEF ScanError, Cleanup
<1>7. ASSUME NEW t \in Standard, Push(t), UNCHANGED <<handed, pc, idx>>, idx = 1,
             pc \notin {"check", "verify"}
      PROVE  TrackInv'
  <2>1. <<t, txBlock[t]>> \in Standard \X Nat /\ pending \in Seq(Standard \X Nat)
    BY DEF TypeOK
  <2>2. /\ \A u : Listed(pending, u) => Listed(pending', u)
        /\ Listed(pending', t)
    BY <1>7, <2>1, ListedAppend, Zenon DEF Push
  <2>3. MarkedIsTracked'
    <3>1. ASSUME NEW u \in processed \cup {t} PROVE handed[u] > 0 \/ Listed(pending', u)
      BY <2>2 DEF TrackInv, MarkedIsTracked
    <3> QED BY <1>7, <3>1 DEF MarkedIsTracked, Push, Listed
  <2>4. (\A j \in 1 .. Len(pending) : j < idx => Accounted(pending[j][1]))'
    BY <1>7, NothingVisited
  <2> QED BY <1>7, <2>3, <2>4 DEF TrackInv
<1>8. ASSUME NEW t \in todo, Recover(t) PROVE TrackInv'
  <2>1. t \in Standard /\ pc = "recover" /\ idx = 1
    BY <1>0, <1>8 DEF Recover, TypeOK
  <2>2. CASE Push(t)
    BY <1>7, <1>8, <2>1, <2>2 DEF Recover
  <2>3. CASE UNCHANGED <<pending, processed>>
    BY <1>8, <2>1, <2>3, TrackFrame DEF Recover
  <2> QED BY <1>8, <2>2, <2>3 DEF Recover
<1>9. ASSUME NEW t \in todo, Scan(t) PROVE TrackInv'
  <2>1. pc = "scan" /\ idx = 1 /\ UNCHANGED <<pc, checkVars>> /\ t \in Transfers
    BY <1>0, <1>9 DEF Scan, TypeOK
  <2>2. CASE UNCHANGED markVars
    BY <2>1, <2>2, TrackFrame
  <2>3. CASE HandOver([x \in {t} |-> 1]) /\ processed' = processed \cup {t}
             /\ UNCHANGED pending
    <3>1. handed \in [Transfers -> Nat] /\ processed \subseteq Transfers
      BY DEF TypeOK
    <3>2. handed'[t] > 0 /\ \A u \in Transfers : handed[u] > 0 => handed'[u] > 0
      BY <2>1, <2>3, HandOverOne
    <3>3. \A u \in processed : handed[u] > 0 \/ Listed(pending, u)
      BY Zenon DEF TrackInv, MarkedIsTracked
    <3>4. MarkedIsTracked'
      BY <2>3, <3>1, <3>2, <3>3 DEF MarkedIsTracked, Listed
    <3>5. (\A j \in 1 .. Len(pending) : j < idx => Accounted(pending[j][1]))'
      BY <2>1, NothingVisited
    <3> QED BY <2>1, <3>4, <3>5 DEF TrackInv
  <2>4. CASE t \in Standard /\ Push(t) /\ UNCHANGED handed
    BY <1>7, <2>1, <2>4
  <2> QED BY <1>9, <2>2, <2>3, <2>4 DEF Scan
<1>10. ASSUME idx <= Len(pending)
       PROVE  pending[idx] \in Standard \X Nat
  <2>1. idx \in Nat \ {0}
    BY DEF TypeOK
  <2> QED BY <1>10, <2>1, PendingEntry
<1>11. ASSUME NEW e \in Standard \X Nat, kept' = Append(kept, e), UNCHANGED <<ready, unmark>>
       PROVE  Accounted(e[1])' /\ \A t \in Standard : Accounted(t) => Accounted(t)'
  <2>1. /\ \A t : Listed(kept, t) => Listed(kept', t)
        /\ Listed(kept', e[1])
    BY <1>11, ListedAppend, Zenon DEF TypeOK
  <2> QED BY <1>11, <2>1 DEF Accounted, Listed
<1>12. CASE CheckHead \/ CheckError
  <2>1. CASE UNCHANGED checkVars /\ pc' = "verify"
    BY <1>12, <2>1, TrackFrame DEF CheckHead, CheckError
  <2>2. CASE kept' = Append(kept, pending[idx]) /\ idx' = idx + 1 /\ UNCHANGED <<ready, unmark>>
    <3>1. PICK e \in Standard \X Nat : e = pending[idx]
      BY <1>10, <1>12 DEF CheckHead, CheckError
    <3>2. Accounted(e[1])' /\ \A t \in Standard : Accounted(t) => Accounted(t)'
      BY <1>11, <2>2, <3>1
    <3>3. UNCHANGED <<pending, processed, handed>> /\ pc' \in {"check", "verify"}
      BY <1>12 DEF CheckHead, CheckError
    <3>4. \A v : v = e[1] => (idx <= Len(pending) => v = pending[idx][1])
      BY <3>1
    <3> QED BY <2>2, <3>2, <3>3, <3>4, TrackVisit
  <2> QED BY <1>12, <2>1, <2>2 DEF CheckHead, CheckError
<1>13. CASE CheckReceipt
  <2>1. PICK e \in Standard \X Nat : e = pending[idx]
    BY <1>10, <1>13 DEF CheckReceipt
  <2>2. PICK u \in Standard : u = e[1]
    OBVIOUS
  <2>3. UNCHANGED <<pending, processed, handed>> /\ pc' = "check" /\ idx' = idx + 1
        /\ u = pending[idx][1]
    BY <1>13, <2>1, <2>2 DEF CheckReceipt
  <2>4. Accounted(u)' /\ \A t \in Standard : Accounted(t) => Accounted(t)'
    <3>1. CASE ready' = [ready EXCEPT ![u] = @ + 1] /\ UNCHANGED <<kept, unmark>>
      <4>1. ready \in [Standard -> Nat]
        BY DEF TypeOK
      <4>2. ready'[u] > 0 /\ \A t \in Standard : ready[t] > 0 => ready'[t] > 0
        BY <3>1, <4>1
      <4> QED BY <3>1, <4>2 DEF Accounted, Listed
    <3>2. CASE kept' = Append(kept, <<u, txBlock[u]>>) /\ UNCHANGED <<ready, unmark>>
      <4>1. <<u, txBlock[u]>> \in Standard \X Nat /\ <<u, txBlock[u]>>[1] = u
        BY DEF TypeOK
      <4> QED BY <1>11, <3>2, <4>1
    <3>3. CASE unmark' = unmark \cup {u} /\ UNCHANGED <<kept, ready>>
      BY <3>3 DEF Accounted, Listed
    <3> QED BY <1>13, <2>3, <3>1, <3>2, <3>3 DEF CheckReceipt
  <2> QED BY <2>3, <2>4, TrackVisit
<1>14. CASE EndCheck
  <2>1. pending' = kept /\ idx > Len(pending) /\ idx' = 1 /\ pc' = "scan"
        /\ processed' = processed \ unmark
    BY <1>14 DEF EndCheck, Unchecked
  <2>2. handed \in [Transfers -> Nat] /\ ready \in [Standard -> Nat]
        /\ processed \subseteq Transfers /\ Len(pending) \in Nat /\ idx \in Nat
    BY LenProperties DEF TypeOK
  <2>3. /\ \A t \in Transfers : handed[t] > 0 => handed'[t] > 0
        /\ \A t \in Standard : ready[t] > 0 => handed'[t] > 0
    <3>1. /\ \A t \in Standard : handed'[t] = handed[t] + ready[t]
          /\ \A t \in Transfers : handed[t] > 0 => handed'[t] > 0
      BY <1>14, HandOverReady DEF EndCheck
    <3>2. \A t \in Standard : handed[t] \in Nat /\ ready[t] \in Nat
      BY <2>2
    <3> QED BY <3>1, <3>2
  <2>4. ASSUME NEW t \in processed, t \notin unmark
        PROVE  handed'[t] > 0 \/ Listed(kept, t)
    <3>1. CASE handed[t] > 0
      BY <2>2, <2>3, <3>1
    <3>2. CASE Listed(pending, t)
      <4>1. PICK j \in 1 .. Len(pending) : pending[j][1] = t
        BY <3>2 DEF Listed
      <4>2. pending[j] \in Standard \X Nat
        BY ElementOfSeq DEF TypeOK
      <4>3. Accounted(t)
        BY <2>1, <2>2, <4>1 DEF TrackInv
      <4>4. t \in Standard
        BY <4>1, <4>2
      <4> QED BY <2>3, <2>4, <4>3, <4>4 DEF Accounted
    <3> QED BY <3>1, <3>2 DEF TrackInv, MarkedIsTracked
  <2>5. MarkedIsTracked'
    BY <2>1, <2>4 DEF MarkedIsTracked, Listed
  <2>6. (\A j \in 1 .. Len(pending) : j < idx => Accounted(pending[j][1]))'
    BY <2>1, NothingVisited
  <2> QED BY <2>1, <2>5, <2>6 DEF TrackInv
<1>15. CASE Crash
  <2>1. processed' = {} /\ idx' = 1 /\ pc' = "stopped"
    BY <1>15 DEF Crash, Unchecked
  <2>2. (\A j \in 1 .. Len(pending) : j < idx => Accounted(pending[j][1]))'
    BY <2>1, NothingVisited
  <2> QED BY <2>1, <2>2 DEF TrackInv, MarkedIsTracked
<1>16. CASE UNCHANGED vars
  BY <1>0, <1>16, TrackFrame DEF vars
<1> QED
  BY <1>1, <1>2, <1>3, <1>4, <1>5, <1>6, <1>8, <1>9, <1>12, <1>13, <1>14, <1>15, <1>16
  DEF Next, Handler

\* processed_transfers never hides a transfer that is neither waiting for its
\* confirmations nor handed over.
THEOREM MarksLoseNothing == Spec => []MarkedIsTracked
<1>1. Init => TrackInv
  BY DEF Init, TrackInv, MarkedIsTracked
<1>2. TrackInv => MarkedIsTracked
  BY DEF TrackInv
<1> QED BY <1>1, <1>2, StepTrack, TypeCorrect, PTL DEF Spec

---------------------------------------------------------------------------
(* A transfer is handed over once.  Without forks of Bifrost a transfer is *)
(* approved once and finalized once: in the blocks the handler has still   *)
(* to see, one that it has seen fades out for good.  A mark is dropped     *)
(* when the transfer has faded out, so that what is marked again was       *)
(* neither waiting nor handed over.                                        *)

Calm == faults = 0 /\ forks = 0

Busy == pc \in {"check", "verify", "scan"}

Starting == pc \in {"stopped", "recover"}

Queued(t) == \E i \in 1 .. Len(stream) : t \in stream[i]

\* From the k-th block to come on, t is not missing from one block and in a later one.
Fades(t, k) ==
    \A i \in k .. Len(stream) :
      /\ t \in onflight => t \in stream[i]
      /\ \A j \in i .. Len(stream) : t \in stream[j] => t \in stream[i]

OrderInv ==
    /\ Starting => stream = <<>>
    /\ ~Busy => keys = {}
    /\ pc = "stopped" => processed = {}
    /\ pc = "recover" => todo \subseteq (onflight \cup finalized) \ processed
    /\ pc = "scan" => todo \subseteq keys
    /\ \A t \in Transfers :
         /\ t \notin onflight \cap finalized
         /\ t \in processed \cup keys \/ Queued(t) => t \in onflight \cup finalized
         /\ \A k \in 1 .. Len(stream) : t \in stream[k] => Fades(t, k)
         /\ t \in processed \cup keys => Fades(t, 1)
         /\ Busy /\ t \in processed /\ (t \in onflight \/ Queued(t)) => t \in keys

Tracked(t) == handed[t] > 0 \/ Listed(pending, t)

Over(t) == t \in finalized /\ t \notin keys /\ ~Queued(t)

MarkInv ==
    \A t \in Transfers : Tracked(t) => t \in processed \/ (~Starting /\ Over(t))

Visited(t) == \E i \in 1 .. Len(pending) : i < idx /\ pending[i][1] = t

Unique(s) == \A i, j \in 1 .. Len(s) : s[i][1] = s[j][1] => i = j

CountInv ==
    /\ Unique(pending) /\ Unique(kept)
    /\ \A t \in Transfers : handed[t] <= 1 /\ (Listed(pending, t) => handed[t] = 0)
    /\ \A t \in Standard :
         /\ ready[t] <= 1
         /\ ready[t] > 0 => Visited(t) /\ t \notin unmark /\ ~Listed(kept, t)
         /\ t \in unmark => Visited(t) /\ ~Listed(kept, t)
         /\ Listed(kept, t) => Visited(t)

OnceInv == Calm => OrderInv /\ MarkInv /\ CountInv

\* Steps that leave the blocks alone and mark nothing.
LEMMA OrderFrame ==
    ASSUME OrderInv, UNCHANGED <<onflight, finalized, stream, keys, processed>>,
           Starting' = Starting, Busy' = Busy,
           pc' = "stopped" => pc = "stopped",
           pc' = "recover" => pc = "recover" /\ todo' \subseteq todo,
           pc' = "scan" => todo' \subseteq keys
    PROVE  OrderInv'
<1>1. \A t \in Transfers : Queued(t)' = Queued(t) /\ \A k : Fades(t, k)' = Fades(t, k)
  BY DEF Queued, Fades
<1> QED BY <1>1 DEF OrderInv

\* A best block of Bifrost in which no transfer comes back.
LEMMA OrderPublish ==
    ASSUME TypeOK, OrderInv, NEW entries \in SUBSET Transfers, Publish(entries),
           entries \cup finalized' = onflight \cup finalized
             \/ \E u \in Transfers \ (onflight \cup finalized) :
                  entries = onflight \cup {u} /\ finalized' = finalized,
           entries \cap finalized' = {}, finalized \subseteq finalized',
           UNCHANGED <<pc, todo, keys, processed>>
    PROVE  OrderInv'
<1> DEFINE n == Len(stream)
<1>1. stream \in Seq(SUBSET Transfers) /\ n \in Nat
  BY LenProperties DEF TypeOK
<1>2. onflight' = entries /\ UNCHANGED <<Starting, Busy>>
  BY DEF Publish, Starting, Busy
<1>3. onflight \cup finalized \subseteq onflight' \cup finalized'
  BY <1>2
<1>4. ASSUME NEW t \in Transfers, t \in onflight \cup finalized, t \in onflight'
      PROVE  t \in onflight
  BY <1>2, <1>4
<1>5. CASE Starting
  <2>1. stream = <<>> /\ stream' = <<>>
    BY <1>5 DEF OrderInv, Publish, Starting
  <2>2. \A t \in Transfers : ~Queued(t)' /\ \A k \in {1} : Fades(t, k)'
    BY <2>1 DEF Queued, Fades
  <2>3. Len(stream') = 0 /\ ~Busy
    BY <1>5, <2>1 DEF Starting, Busy
  <2> QED BY <1>2, <1>3, <1>5, <2>1, <2>2, <2>3 DEF OrderInv
<1>6. CASE ~Starting
  <2>1. stream' = Append(stream, entries) /\ pc \notin {"stopped", "recover"}
    BY <1>6 DEF Publish, Starting
  <2>2. /\ Len(stream') = n + 1
        /\ \A i \in 1 .. n : stream'[i] = stream[i]
        /\ stream'[n + 1] = onflight'
    BY <1>1, <1>2, <2>1, AppendProperties
  <2>3. ASSUME NEW t \in Transfers, t \in onflight \cup finalized,
               NEW k \in 1 .. n + 1, k <= n => Fades(t, k)
        PROVE  Fades(t, k)'
    <3> SUFFICES ASSUME NEW i \in k .. n + 1
                 PROVE  /\ t \in onflight' => t \in stream'[i]
                        /\ \A j \in i .. n + 1 : t \in stream'[j] => t \in stream'[i]
      BY <2>2 DEF Fades
    <3>1. CASE i = n + 1
      BY <1>1, <2>2, <3>1
    <3>2. CASE i \in k .. n
      <4>1. t \in onflight' => t \in stream[i]
        BY <1>1, <1>4, <2>3, <3>2 DEF Fades
      <4>2. \A j \in i .. n : t \in stream[j] => t \in stream[i]
        BY <1>1, <2>3, <3>2 DEF Fades
      <4>3. \A j \in i .. n : stream'[j] = stream[j]
        BY <1>1, <2>2, <3>2
      <4> QED BY <1>1, <2>2, <3>2, <4>1, <4>2, <4>3
    <3> QED BY <1>1, <3>1, <3>2
  <2>4. ASSUME NEW t \in Transfers, Queued(t)' PROVE Queued(t) \/ t \in onflight'
    BY <1>1, <2>2, <2>4 DEF Queued
  <2>5. ASSUME NEW t \in Transfers
        PROVE  /\ t \notin onflight' \cap finalized'
               /\ t \in processed' \cup keys' \/ Queued(t)' => t \in onflight' \cup finalized'
               /\ \A k \in 1 .. Len(stream') : t \in stream'[k] => Fades(t, k)'
               /\ t \in processed' \cup keys' => Fades(t, 1)'
               /\ Busy' /\ t \in processed' /\ (t \in onflight' \/ Queued(t)') => t \in keys'
    <3>1. t \notin onflight' \cap finalized'
      BY <1>2
    <3>2. t \in processed' \cup keys' \/ Queued(t)' => t \in onflight' \cup finalized'
      BY <1>3, <2>4 DEF OrderInv
    <3>3. ASSUME NEW k \in 1 .. n + 1, t \in stream'[k] PROVE Fades(t, k)'
      <4>1. CASE k = n + 1
        BY <1>1, <2>2, <4>1 DEF Fades
      <4>2. CASE k \in 1 .. n
        <5>1. t \in stream[k] /\ Queued(t)
          BY <2>2, <3>3, <4>2 DEF Queued
        <5>2. t \in onflight \cup finalized /\ Fades(t, k)
          BY <4>2, <5>1 DEF OrderInv
        <5> QED BY <2>3, <5>2
      <4> QED BY <1>1, <4>1, <4>2
    <3>4. t \in processed' \cup keys' => Fades(t, 1)'
      <4>1. 1 \in 1 .. n + 1
        BY <1>1
      <4> QED BY <2>3, <4>1 DEF OrderInv
    <3>5. Busy' /\ t \in processed' /\ (t \in onflight' \/ Queued(t)') => t \in keys'
      BY <1>2, <1>4, <2>4 DEF OrderInv
    <3> QED BY <2>2, <3>1, <3>2, <3>3, <3>4, <3>5
  <2> QED BY <1>2, <2>1, <2>5 DEF OrderInv, Starting
<1> QED BY <1>5, <1>6

\* A transfer of the block at hand is marked.
LEMMA OrderMark ==
    ASSUME OrderInv, pc = "scan", NEW t \in keys, processed' = processed \cup {t},
           UNCHANGED <<onflight, finalized, stream, keys, pc>>, todo' \subseteq todo
    PROVE  OrderInv'
<1>1. \A u \in Transfers : Queued(u)' = Queued(u) /\ \A k : Fades(u, k)' = Fades(u, k)
  BY DEF Queued, Fades
<1>2. Starting' = Starting /\ Busy' = Busy /\ Busy
  BY DEF Starting, Busy
<1> QED BY <1>1, <1>2 DEF OrderInv

\* Every step keeps OrderInv.
LEMMA StepOrder ==
    ASSUME TypeOK, Calm, Calm', OrderInv, [Next]_vars
    PROVE  OrderInv'
<1> USE DEF chainVars, storageVars, checkVars, markVars, scanVars
<1>0. ~Fail
  BY DEF Fail, Calm
<1>1. CASE Source \/ UNCHANGED vars
  <2>1. UNCHANGED <<onflight, finalized, stream, keys, processed, pc, todo>>
    BY <1>1 DEF Source, Mining, Mine, Reorg, vars
  <2>2. Starting' = Starting /\ Busy' = Busy
    BY <2>1 DEF Starting, Busy
  <2> QED BY <2>1, <2>2, OrderFrame DEF OrderInv
<1>2. ASSUME NEW t \in Transfers, Approve(t) PROVE OrderInv'
  <2>1. /\ t \notin onflight \cup finalized /\ Publish(onflight \cup {t})
        /\ UNCHANGED <<finalized, pc, todo, keys, processed>>
    BY <1>2 DEF Approve
  <2>2. onflight \cup {t} \in SUBSET Transfers /\ (onflight \cup {t}) \cap finalized = {}
    BY <2>1 DEF TypeOK, OrderInv
  <2> QED BY <2>1, <2>2, OrderPublish
<1>3. ASSUME NEW t \in Transfers, Finalize(t) PROVE OrderInv'
  <2>1. /\ t \in onflight /\ Publish(onflight \ {t}) /\ finalized' = finalized \cup {t}
        /\ UNCHANGED <<pc, todo, keys, processed>>
    BY <1>3 DEF Finalize
  <2>2. onflight \ {t} \in SUBSET Transfers /\ (onflight \ {t}) \cap finalized' = {}
    BY <2>1 DEF TypeOK, OrderInv
  <2> QED BY <2>1, <2>2, OrderPublish
<1>4. ~(\E t \in Transfers : Fork(t))
  BY DEF Fork, Calm
<1>5. CASE EmptyBlock
  <2>1. Publish(onflight) /\ UNCHANGED <<finalized, pc, todo, keys, processed>>
    BY <1>5 DEF EmptyBlock
  <2>2. onflight \in SUBSET Transfers /\ onflight \cap finalized = {}
    BY DEF TypeOK, OrderInv
  <2> QED BY <2>1, <2>2, OrderPublish
<1>6. CASE StartRecovery
  <2>1. pc = "stopped" /\ pc' = "recover" /\ todo' = onflight \cap Standard
        /\ UNCHANGED <<onflight, finalized, stream, keys, processed>>
    BY <1>6 DEF StartRecovery
  <2>2. processed = {} /\ stream = <<>> /\ keys = {} /\ Starting /\ Starting' /\ ~Busy /\ ~Busy'
    BY <2>1 DEF OrderInv, Starting, Busy
  <2>3. \A t \in Transfers : Queued(t)' = Queued(t) /\ \A k : Fades(t, k)' = Fades(t, k)
    BY <2>1, Zenon DEF Queued, Fades
  <2> QED BY <2>1, <2>2, <2>3 DEF OrderInv
<1>7. ASSUME NEW t \in todo, Recover(t) PROVE OrderInv'
  <2>1. pc = "recover" /\ todo' = todo \ {t}
        /\ UNCHANGED <<onflight, finalized, stream, keys, pc>>
        /\ processed' \subseteq processed \cup {t}
    BY <1>7 DEF Recover, Push
  <2>2. stream = <<>> /\ Starting /\ Starting' /\ ~Busy /\ ~Busy' /\ Len(stream) = 0
    BY <2>1 DEF OrderInv, Starting, Busy
  <2>3. \A u \in Transfers : ~Queued(u)' /\ \A k \in {1} : Fades(u, k)'
    BY <2>1, <2>2 DEF Queued, Fades
  <2> QED BY <2>1, <2>2, <2>3 DEF OrderInv
<1>8. CASE Subscribe
  <2>1. pc = "recover" /\ pc' = "idle" /\ stream' = <<onflight>>
        /\ UNCHANGED <<onflight, finalized, keys, processed>>
    BY <1>8 DEF Subscribe
  <2>2. ~Starting' /\ ~Busy /\ ~Busy' /\ Len(stream') = 1 /\ stream'[1] = onflight'
    BY <2>1 DEF Starting, Busy
  <2>3. \A t \in Transfers : (Queued(t)' => t \in onflight') /\ \A k \in 1 .. 1 : Fades(t, k)'
    BY <2>2 DEF Queued, Fades
  <2> QED BY <2>1, <2>2, <2>3 DEF OrderInv
<1>9. CASE TakeBlock
  <2>1. /\ pc = "idle" /\ pc' = "check" /\ stream # <<>>
        /\ keys' = Head(stream) /\ stream' = Tail(stream)
        /\ UNCHANGED <<onflight, finalized, processed>>
    BY <1>9 DEF TakeBlock
  <2>2. /\ stream \in Seq(SUBSET Transfers) /\ Len(stream) \in Nat /\ Len(stream) >= 1
        /\ keys' = stream[1] /\ Len(stream') = Len(stream) - 1
        /\ \A i \in 1 .. Len(stream) - 1 : stream'[i] = stream[i + 1]
    BY <2>1, HeadTailProperties, LenProperties, EmptySeq DEF TypeOK
  <2>3. ~Starting' /\ Busy'
    BY <2>1 DEF Starting, Busy
  <2>4. ASSUME NEW t, NEW k \in 1 .. Len(stream) - 1, Fades(t, k) \/ Fades(t, k + 1)
        PROVE  Fades(t, k)'
    <3>1. \A i \in k + 1 .. Len(stream) :
            /\ t \in onflight => t \in stream[i]
            /\ \A j \in i .. Len(stream) : t \in stream[j] => t \in stream[i]
      BY <2>2, <2>4 DEF Fades
    <3> SUFFICES ASSUME NEW i \in k .. Len(stream) - 1
                 PROVE  /\ t \in onflight => t \in stream'[i]
                        /\ \A j \in i .. Len(stream) - 1 : t \in stream'[j] => t \in stream'[i]
      BY <2>1, <2>2 DEF Fades
    <3>2. i + 1 \in k + 1 .. Len(stream) /\ stream'[i] = stream[i + 1]
      BY <2>2
    <3>3. \A j \in i .. Len(stream) - 1 :
            j + 1 \in i + 1 .. Len(stream) /\ stream'[j] = stream[j + 1]
      BY <2>2
    <3> QED BY <3>1, <3>2, <3>3
  <2>5. \A t : Queued(t)' => Queued(t)
    BY <2>2 DEF Queued
  <2>6. ASSUME NEW t \in Transfers
        PROVE  /\ t \in keys' => t \in stream[1] /\ Queued(t)
               /\ t \in processed /\ (t \in onflight \/ Queued(t)') => t \in keys'
    <3>1. t \in keys' => t \in stream[1] /\ Queued(t)
      BY <2>2 DEF Queued
    <3>2. ASSUME t \in processed, t \in onflight \/ Queued(t)' PROVE t \in keys'
      <4>1. Fades(t, 1)
        BY <3>2 DEF OrderInv
      <4>2. 1 \in 1 .. Len(stream)
        BY <2>2
      <4>3. t \in onflight \/ Queued(t)
        BY <2>5, <3>2
      <4> QED BY <2>2, <4>1, <4>2, <4>3 DEF Fades, Queued
    <3> QED BY <3>1, <3>2
  <2>7. ASSUME NEW t \in Transfers
        PROVE  /\ \A k \in 1 .. Len(stream') : t \in stream'[k] => Fades(t, k)'
               /\ t \in processed' \cup keys' => Fades(t, 1)'
    <3>1. ASSUME NEW k \in 1 .. Len(stream'), t \in stream'[k] PROVE Fades(t, k)'
      <4>1. k \in 1 .. Len(stream) - 1 /\ k + 1 \in 1 .. Len(stream) /\ t \in stream[k + 1]
        BY <2>2, <3>1
      <4>2. Fades(t, k + 1)
        BY <4>1 DEF OrderInv
      <4> QED BY <2>4, <4>1, <4>2
    <3>2. ASSUME t \in processed \/ t \in keys' PROVE Fades(t, 1)'
      <4>1. Fades(t, 1)
        <5>1. 1 \in 1 .. Len(stream)
          BY <2>2
        <5> QED BY <2>6, <3>2, <5>1 DEF OrderInv
      <4>2. CASE Len(stream) = 1
        BY <2>2, <4>2 DEF Fades
      <4>3. CASE 1 \in 1 .. Len(stream) - 1
        BY <2>4, <4>1, <4>3
      <4> QED BY <2>2, <4>2, <4>3
    <3> QED BY <2>1, <3>1, <3>2
  <2>8. ASSUME NEW t \in Transfers
        PROVE  /\ t \notin onflight' \cap finalized'
               /\ t \in processed' \cup keys' \/ Queued(t)' => t \in onflight' \cup finalized'
    BY <2>1, <2>5, <2>6 DEF OrderInv
  <2> QED BY <2>1, <2>3, <2>6, <2>7, <2>8 DEF OrderInv
<1>10. CASE CheckHead \/ CheckReceipt
  <2>1. UNCHANGED <<onflight, finalized, stream, keys, processed>>
        /\ pc \in {"check", "verify"} /\ pc' \in {"check", "verify"}
    BY <1>10 DEF CheckHead, CheckReceipt
  <2>2. Starting' = Starting /\ Busy' = Busy
    BY <2>1 DEF Starting, Busy
  <2> QED BY <2>1, <2>2, OrderFrame
<1>11. CASE EndCheck
  <2>1. pc = "check" /\ pc' = "scan" /\ todo' = keys /\ processed' \subseteq processed
        /\ UNCHANGED <<onflight, finalized, stream, keys>>
    BY <1>11 DEF EndCheck
  <2>2. ~Starting /\ ~Starting' /\ Busy /\ Busy'
    BY <2>1 DEF Starting, Busy
  <2>3. \A t \in Transfers : Queued(t)' = Queued(t) /\ \A k : Fades(t, k)' = Fades(t, k)
    BY <2>1 DEF Queued, Fades
  <2> QED BY <2>1, <2>2, <2>3 DEF OrderInv
<1>12. ASSUME NEW t \in todo, Scan(t) PROVE OrderInv'
  <2>1. pc = "scan" /\ todo' \subseteq todo
        /\ UNCHANGED <<onflight, finalized, stream, keys, pc>>
        /\ processed' \in {processed, processed \cup {t}}
    BY <1>12 DEF Scan, Push
  <2>2. t \in keys /\ todo' \subseteq keys
    BY <2>1 DEF OrderInv
  <2>3. Starting' = Starting /\ Busy' = Busy
    BY <2>1 DEF Starting, Busy
  <2> QED BY <2>1, <2>2, <2>3, OrderMark, OrderFrame
<1>13. CASE Cleanup
  <2>1. pc = "scan" /\ pc' = "idle" /\ processed' \subseteq processed /\ keys' = {}
        /\ UNCHANGED <<onflight, finalized, stream>>
    BY <1>13 DEF Cleanup
  <2>2. ~Starting' /\ ~Busy'
    BY <2>1 DEF Starting, Busy
  <2>3. \A t \in Transfers : Queued(t)' = Queued(t) /\ \A k : Fades(t, k)' = Fades(t, k)
    BY <2>1 DEF Queued, Fades
  <2> QED BY <2>1, <2>2, <2>3 DEF OrderInv
<1>14. ~((\E rest \in SUBSET todo : RecoverError(rest)) \/ CheckError \/ ScanError
         \/ (\E t \in todo : ScanSkip(t)) \/ Rerun \/ Crash)
  BY <1>0, Zenon DEF RecoverError, CheckError, ScanError, ScanSkip, Rerun, Crash
<1> QED
  BY <1>1, <1>2, <1>3, <1>4, <1>5, <1>6, <1>7, <1>8, <1>9, <1>10, <1>11, <1>12, <1>13,
     <1>14, Zenon DEF Next, Handler

\* Steps that leave the blocks alone and keep the marks of what is tracked.
LEMMA MarkFrame ==
    ASSUME MarkInv, UNCHANGED <<finalized, stream, keys>>, Starting' = Starting,
           \A t \in Transfers : Tracked(t)' => t \in processed' \/ (Tracked(t) /\ t \notin processed)
    PROVE  MarkInv'
<1>1. \A t \in Transfers : Over(t)' = Over(t)
  BY DEF Over, Queued
<1> QED BY <1>1 DEF MarkInv

\* A best block of Bifrost: what is over stays over.
LEMMA MarkPublish ==
    ASSUME TypeOK, OrderInv, MarkInv, NEW entries \in SUBSET Transfers, Publish(entries),
           finalized \subseteq finalized', entries \cap finalized = {},
           UNCHANGED <<pc, keys, processed, handed, pending>>
    PROVE  MarkInv'
<1>1. stream \in Seq(SUBSET Transfers) /\ Len(stream) \in Nat
  BY LenProperties DEF TypeOK
<1>2. ASSUME NEW t \in Transfers, Over(t) PROVE Over(t)'
  <2>1. t \in finalized' /\ t \notin keys' /\ ~Queued(t) /\ t \notin entries
    BY <1>2 DEF Over
  <2>2. CASE stream' = stream
    BY <2>1, <2>2 DEF Over, Queued
  <2>3. CASE stream' = Append(stream, entries)
    <3>1. /\ Len(stream') = Len(stream) + 1
          /\ \A i \in 1 .. Len(stream) : stream'[i] = stream[i]
          /\ stream'[Len(stream) + 1] = entries
      BY <1>1, <2>3, AppendProperties
    <3>2. ~Queued(t)'
      BY <1>1, <2>1, <3>1 DEF Queued
    <3> QED BY <2>1, <3>2 DEF Over
  <2> QED BY <2>2, <2>3 DEF Publish
<1>3. Starting' = Starting /\ \A t \in Transfers : Tracked(t)' = Tracked(t)
  BY DEF Starting, Tracked, Listed
<1> QED BY <1>2, <1>3 DEF MarkInv

\* What is visited is listed, and a listed transfer is a Standard one.
LEMMA ListedIsStandard ==
    ASSUME NEW s \in Seq(Standard \X Nat), NEW t, Listed(s, t)
    PROVE  t \in Standard
<1>1. PICK i \in 1 .. Len(s) : s[i][1] = t
  BY DEF Listed
<1>2. s[i] \in Standard \X Nat
  BY <1>1, ElementOfSeq
<1> QED BY <1>1, <1>2

\* The end of the pass: what is tracked afterwards was tracked, and is not unmarked.
LEMMA EndOfPass ==
    ASSUME TypeOK, CountInv, HandOver(ready), pending' = kept,
           NEW t \in Transfers, Tracked(t)'
    PROVE  Tracked(t) /\ t \notin unmark
<1>1. \A u \in Standard : Visited(u) => Listed(pending, u)
  BY DEF Visited, Listed
<1>2. handed[t] \in Nat /\ (t \in Standard => ready[t] \in Nat)
      /\ unmark \subseteq Standard /\ kept \in Seq(Standard \X Nat)
  BY DEF TypeOK
<1>3. CASE Listed(kept, t)
  <2>1. t \in Standard
    BY <1>2, <1>3, ListedIsStandard, Zenon
  <2>2. Visited(t) /\ t \notin unmark
    BY <1>3, <2>1 DEF CountInv
  <2> QED BY <1>1, <2>1, <2>2 DEF Tracked
<1>4. CASE handed'[t] > 0
  <2>1. CASE t \in Standard /\ ready[t] > 0
    <3>1. Visited(t) /\ t \notin unmark
      BY <2>1 DEF CountInv
    <3> QED BY <1>1, <2>1, <3>1 DEF Tracked
  <2>2. CASE ~(t \in Standard /\ ready[t] > 0)
    <3>1. handed'[t] = handed[t]
      BY <1>2, <2>2, HandOverReady
    <3>2. handed[t] > 0
      BY <1>4, <3>1
    <3>3. t \notin unmark
      <4> SUFFICES ASSUME t \in unmark PROVE FALSE
        OBVIOUS
      <4>1. Listed(pending, t)
        BY <1>1, <1>2 DEF CountInv
      <4>2. handed[t] = 0
        BY <4>1 DEF CountInv
      <4> QED BY <3>2, <4>2
    <3> QED BY <3>2, <3>3 DEF Tracked
  <2> QED BY <2>1, <2>2
<1> QED BY <1>3, <1>4 DEF Tracked, Listed

\* Every step keeps MarkInv.
LEMMA StepMark ==
    ASSUME TypeOK, Calm, Calm', OrderInv, MarkInv, CountInv, [Next]_vars
    PROVE  MarkInv'
<1> USE DEF chainVars, storageVars, checkVars, markVars, scanVars
<1>0. ~Fail
  BY DEF Fail, Calm
<1>1. ASSUME UNCHANGED <<finalized, stream, keys, processed, pending, handed>>,
             Starting' = Starting
      PROVE  MarkInv'
  <2>1. \A t \in Transfers : Tracked(t)' = Tracked(t)
    BY <1>1 DEF Tracked, Listed
  <2> QED BY <1>1, <2>1, MarkFrame
<1>2. CASE Source \/ UNCHANGED vars
  <2>1. UNCHANGED <<finalized, stream, keys, processed, pc, pending, handed>>
    BY <1>2 DEF Source, Mining, Mine, Reorg, vars
  <2> QED BY <1>1, <2>1 DEF Starting
<1>3. ASSUME NEW t \in Transfers, Approve(t) \/ Finalize(t) PROVE MarkInv'
  <2>1. onflight \subseteq Transfers /\ onflight \cap finalized = {}
    BY DEF TypeOK, OrderInv
  <2>2. CASE Approve(t)
    <3>1. /\ Publish(onflight \cup {t}) /\ (onflight \cup {t}) \cap finalized = {}
          /\ UNCHANGED <<finalized, pc, keys, processed, handed, pending>>
      BY <2>1, <2>2 DEF Approve
    <3> QED BY <2>1, <3>1, MarkPublish
  <2>3. CASE Finalize(t)
    <3>1. /\ Publish(onflight \ {t}) /\ (onflight \ {t}) \cap finalized = {}
          /\ finalized \subseteq finalized'
          /\ UNCHANGED <<pc, keys, processed, handed, pending>>
      BY <2>1, <2>3 DEF Finalize
    <3> QED BY <2>1, <3>1, MarkPublish
  <2> QED BY <1>3, <2>2, <2>3
<1>4. ~(\E t \in Transfers : Fork(t))
  BY DEF Fork, Calm
<1>5. CASE EmptyBlock
  <2>1. Publish(onflight) /\ UNCHANGED <<finalized, pc, keys, processed, handed, pending>>
    BY <1>5 DEF EmptyBlock
  <2>2. onflight \in SUBSET Transfers /\ onflight \cap finalized = {}
    BY DEF TypeOK, OrderInv
  <2> QED BY <2>1, <2>2, MarkPublish
<1>6. CASE StartRecovery \/ CheckHead \/ CheckReceipt
  <2>1. UNCHANGED <<finalized, stream, keys, processed, pending, handed>>
    BY <1>6 DEF StartRecovery, CheckHead, CheckReceipt
  <2>2. \/ pc = "stopped" /\ pc' = "recover"
        \/ pc \in {"check", "verify"} /\ pc' \in {"check", "verify"}
    BY <1>6, Zenon DEF StartRecovery, CheckHead, CheckReceipt
  <2>3. Starting' = Starting
    BY <2>2 DEF Starting
  <2> QED BY <1>1, <2>1, <2>3
<1>7. ASSUME NEW t \in Standard, Push(t), UNCHANGED <<finalized, stream, keys, pc, handed>>
      PROVE  MarkInv'
  <2>1. pending \in Seq(Standard \X Nat) /\ <<t, txBlock[t]>> \in Standard \X Nat
    BY DEF TypeOK
  <2>2. \A u : Listed(pending', u) => u = t \/ Listed(pending, u)
    <3>1. /\ Len(pending') = Len(pending) + 1 /\ Len(pending) \in Nat
          /\ \A i \in 1 .. Len(pending) : pending'[i] = pending[i]
          /\ pending'[Len(pending) + 1] = <<t, txBlock[t]>>
      BY <1>7, <2>1, AppendProperties, LenProperties DEF Push
    <3> QED BY <3>1 DEF Listed
  <2>3. \A u \in Transfers : Tracked(u)' => u \in processed' \/ (Tracked(u) /\ u \notin processed)
    BY <1>7, <2>2 DEF Tracked, Push, Listed
  <2> QED BY <1>7, <2>3, MarkFrame DEF Starting
<1>8. ASSUME NEW t \in todo, Recover(t) PROVE MarkInv'
  <2>1. UNCHANGED <<finalized, stream, keys, pc, handed>> /\ t \in Standard
    BY <1>8 DEF Recover, TypeOK
  <2>2. CASE Push(t)
    BY <1>7, <2>1, <2>2
  <2>3. CASE UNCHANGED <<pending, processed>>
    BY <1>1, <2>1, <2>3 DEF Starting
  <2> QED BY <1>8, <2>2, <2>3 DEF Recover
<1>9. CASE Subscribe
  <2>1. pc = "recover" /\ UNCHANGED <<processed, handed, pending>>
    BY <1>9 DEF Subscribe
  <2>2. \A t \in Transfers : Tracked(t)' = Tracked(t)
    BY <2>1 DEF Tracked, Listed
  <2> QED BY <2>1, <2>2 DEF MarkInv, Starting
<1>10. CASE TakeBlock
  <2>1. /\ pc = "idle" /\ pc' = "check" /\ stream # <<>>
        /\ keys' = Head(stream) /\ stream' = Tail(stream)
        /\ UNCHANGED <<finalized, processed, handed, pending>>
    BY <1>10 DEF TakeBlock
  <2>2. /\ stream \in Seq(SUBSET Transfers) /\ Len(stream) \in Nat /\ Len(stream) >= 1
        /\ keys' = stream[1] /\ Len(stream') = Len(stream) - 1
        /\ \A i \in 1 .. Len(stream) - 1 : stream'[i] = stream[i + 1]
    BY <2>1, HeadTailProperties, LenProperties, EmptySeq DEF TypeOK
  <2>3. \A t : (Queued(t)' => Queued(t)) /\ (t \in keys' => Queued(t))
    BY <2>2 DEF Queued
  <2>4. \A t \in Transfers : Tracked(t)' = Tracked(t) /\ (Over(t) => Over(t)')
    BY <2>1, <2>3 DEF Tracked, Listed, Over
  <2> QED BY <2>1, <2>4 DEF MarkInv, Starting
<1>11. CASE EndCheck
  <2>1. pending' = kept /\ HandOver(ready) /\ processed' = processed \ unmark
        /\ UNCHANGED <<finalized, stream, keys>>
    BY <1>11 DEF EndCheck
  <2>2. \A t \in Transfers : Tracked(t)' => Tracked(t) /\ t \notin unmark
    BY <2>1, EndOfPass
  <2>3. Starting' = Starting
    BY <1>11 DEF EndCheck, Starting
  <2> QED BY <2>1, <2>2, <2>3, MarkFrame
<1>12. ASSUME NEW t \in todo, Scan(t) PROVE MarkInv'
  <2>1. UNCHANGED <<finalized, stream, keys, pc>> /\ t \in Transfers
    BY <1>12 DEF Scan, TypeOK
  <2>2. CASE UNCHANGED markVars
    BY <1>1, <2>1, <2>2 DEF Starting
  <2>3. CASE HandOver([x \in {t} |-> 1]) /\ processed' = processed \cup {t}
             /\ UNCHANGED pending
    <3>1. \A u \in Transfers : u # t => handed'[u] = handed[u]
      BY <2>1, <2>3, HandOverOne
    <3>2. \A u \in Transfers : Tracked(u)' => u \in processed' \/ (Tracked(u) /\ u \notin processed)
      BY <2>3, <3>1 DEF Tracked, Listed
    <3> QED BY <2>1, <3>2, MarkFrame DEF Starting
  <2>4. CASE t \in Standard /\ Push(t) /\ UNCHANGED handed
    BY <1>7, <2>1, <2>4
  <2> QED BY <1>12, <2>2, <2>3, <2>4 DEF Scan
<1>13. CASE Cleanup
  <2>1. /\ pc = "scan" /\ pc' = "idle" /\ processed' = processed \cap keys /\ keys' = {}
        /\ UNCHANGED <<finalized, stream, handed, pending>>
    BY <1>13 DEF Cleanup
  <2>2. \A t \in Transfers : Tracked(t)' = Tracked(t)
    BY <2>1 DEF Tracked, Listed
  <2>3. ASSUME NEW t \in Transfers, t \in processed, t \notin keys PROVE Over(t)'
    <3>1. t \notin onflight /\ ~Queued(t) /\ t \in onflight \cup finalized
      BY <2>1, <2>3 DEF OrderInv, Busy
    <3> QED BY <2>1, <3>1 DEF Over, Queued
  <2>4. \A t \in Transfers : Over(t) => Over(t)'
    BY <2>1 DEF Over, Queued
  <2> QED BY <2>1, <2>2, <2>3, <2>4 DEF MarkInv, Starting
<1>14. ~((\E rest \in SUBSET todo : RecoverError(rest)) \/ CheckError \/ ScanError
         \/ (\E t \in todo : ScanSkip(t)) \/ Rerun \/ Crash)
  BY <1>0, Zenon DEF RecoverError, CheckError, ScanError, ScanSkip, Rerun, Crash
<1> QED
  BY <1>2, <1>3, <1>4, <1>5, <1>6, <1>8, <1>9, <1>10, <1>11, <1>12, <1>13, <1>14, Zenon
  DEF Next, Handler

\* An entry is appended to a list that does not have its transfer.
LEMMA AppendUnique ==
    ASSUME NEW s \in Seq(Standard \X Nat), NEW e \in Standard \X Nat,
           Unique(s), ~Listed(s, e[1])
    PROVE  /\ Unique(Append(s, e))
           /\ \A u : Listed(Append(s, e), u) => u = e[1] \/ Listed(s, u)
<1> DEFINE n == Len(s)
           a == Append(s, e)
<1>1. n \in Nat /\ Len(a) = n + 1
  BY AppendProperties, LenProperties
<1>2. \A i \in 1 .. n : a[i] = s[i]
  BY AppendProperties
<1>3. a[n + 1] = e
  BY AppendProperties
<1>4. \A i \in 1 .. n : s[i][1] # e[1]
  BY DEF Listed
<1>5. \A i, j \in 1 .. n : s[i][1] = s[j][1] => i = j
  BY DEF Unique
<1>6. \A i \in 1 .. n + 1 : i \in 1 .. n \/ i = n + 1
  BY <1>1
<1> HIDE DEF n, a
<1>7. ASSUME NEW i \in 1 .. n + 1, NEW j \in 1 .. n + 1, a[i][1] = a[j][1]
      PROVE  i = j
  <2>1. CASE i \in 1 .. n /\ j \in 1 .. n
    BY <1>2, <1>5, <1>7, <2>1
  <2>2. CASE i = n + 1 \/ j = n + 1
    BY <1>2, <1>3, <1>4, <1>6, <1>7, <2>2
  <2> QED BY <1>6, <2>1, <2>2
<1>8. ASSUME NEW u, NEW i \in 1 .. n + 1, a[i][1] = u
      PROVE  u = e[1] \/ \E j \in 1 .. n : s[j][1] = u
  BY <1>2, <1>3, <1>6, <1>8
<1>9. Unique(a)
  BY <1>1, <1>7, Zenon DEF Unique
<1>10. \A u : Listed(a, u) => u = e[1] \/ Listed(s, u)
  BY <1>1, <1>8, Zenon DEF Listed, n
<1> QED BY <1>9, <1>10 DEF a

\* What the pass knows of a transfer.
Counted(u) ==
    /\ ready[u] <= 1
    /\ ready[u] > 0 => Visited(u) /\ u \notin unmark /\ ~Listed(kept, u)
    /\ u \in unmark => Visited(u) /\ ~Listed(kept, u)
    /\ Listed(kept, u) => Visited(u)

\* A transfer that was not visited is in none of the three lists.
LEMMA NotVisited ==
    ASSUME TypeOK, CountInv, NEW v \in Standard, ~Visited(v)
    PROVE  ready[v] = 0 /\ v \notin unmark /\ ~Listed(kept, v)
<1>1. ready[v] \in Nat
  BY DEF TypeOK
<1>2. ~(ready[v] > 0) /\ v \notin unmark /\ ~Listed(kept, v)
  BY Zenon DEF CountInv
<1> QED BY <1>1, <1>2

\* The count after an entry is pushed for a transfer that is not tracked.
LEMMA CountPush ==
    ASSUME TypeOK, CountInv, idx = 1, NEW t \in Standard, ~Tracked(t), Push(t),
           UNCHANGED <<handed, checkVars>>
    PROVE  CountInv'
<1>1. pending \in Seq(Standard \X Nat) /\ <<t, txBlock[t]>> \in Standard \X Nat
      /\ <<t, txBlock[t]>>[1] = t
  BY DEF TypeOK
<1>2. pending' = Append(pending, <<t, txBlock[t]>>) /\ ~Listed(pending, t) /\ Unique(pending)
  BY DEF Push, Tracked, CountInv
<1>3. Unique(pending') /\ \A u : Listed(pending', u) => u = t \/ Listed(pending, u)
  BY <1>1, <1>2, AppendUnique
<1>4. handed[t] = 0 /\ handed' = handed
  BY DEF Tracked, TypeOK
<1>5. \A u \in Transfers : handed[u] <= 1 /\ (Listed(pending, u) => handed[u] = 0)
  BY Zenon DEF CountInv
<1>6. ASSUME NEW u \in Transfers
      PROVE  handed'[u] <= 1 /\ (Listed(pending', u) => handed'[u] = 0)
  <2>1. handed'[u] = handed[u] /\ (u = t => handed[u] = 0)
    BY <1>4
  <2>2. handed[u] <= 1 /\ (Listed(pending, u) => handed[u] = 0)
    BY <1>5
  <2>3. Listed(pending', u) => u = t \/ Listed(pending, u)
    BY <1>3
  <2> QED BY <2>1, <2>2, <2>3
<1>7. ASSUME NEW u \in Standard PROVE ready'[u] = 0 /\ u \notin unmark' /\ ~Listed(kept', u)
  <2>1. ~Visited(u)
    BY DEF Visited
  <2>2. ready' = ready /\ unmark' = unmark /\ kept' = kept
    BY DEF checkVars
  <2> QED BY <2>1, <2>2, NotVisited, Zenon
<1>8. Unique(kept')
  BY DEF CountInv, Unique, checkVars
<1>9. \A u \in Standard : ready'[u] <= 1 /\ ~(ready'[u] > 0) /\ u \notin unmark' /\ ~Listed(kept', u)
  BY <1>7
<1> QED BY <1>3, <1>6, <1>8, <1>9, Zenon DEF CountInv, Unique, Listed

\* Going on to the next entry, the one at hand has been visited.
LEMMA EntryVisited ==
    ASSUME TypeOK, idx <= Len(pending), idx' = idx + 1, pending' = pending,
           NEW v, v = pending[idx][1]
    PROVE  Visited(v)' /\ \A u : Visited(u) => Visited(u)'
<1>1. idx \in Nat \ {0} /\ Len(pending) \in Nat /\ idx \in 1 .. Len(pending)
  BY LenProperties DEF TypeOK
<1>2. ASSUME NEW u, NEW i \in 1 .. Len(pending), i <= idx, pending[i][1] = u
      PROVE  Visited(u)'
  <2>1. i < idx + 1
    BY <1>1, <1>2
  <2> QED BY <1>2, <2>1 DEF Visited
<1>3. \A i \in 1 .. Len(pending) : i < idx => i <= idx
  BY <1>1
<1>4. idx <= idx
  BY <1>1
<1> QED BY <1>1, <1>2, <1>3, <1>4, Zenon DEF Visited

\* The entry at hand has been visited, and is in one of the three lists.
LEMMA CountVisit ==
    ASSUME TypeOK, CountInv, idx <= Len(pending), idx' = idx + 1,
           UNCHANGED <<pending, handed>>,
           NEW v \in Standard, v = pending[idx][1],
           \A u \in Standard : u # v => /\ ready'[u] = ready[u]
                                        /\ u \in unmark' => u \in unmark
                                        /\ Listed(kept', u) => Listed(kept, u),
           Unique(kept'), ready'[v] <= 1,
           ready'[v] > 0 => v \notin unmark' /\ ~Listed(kept', v),
           v \in unmark' => ~Listed(kept', v)
    PROVE  CountInv'
<1>1. UNCHANGED pending
  OBVIOUS
<1>2. Visited(v)' /\ \A u : Visited(u) => Visited(u)'
  BY <1>1, EntryVisited, Zenon
<1>3. \A u \in Transfers : handed'[u] <= 1 /\ (Listed(pending', u) => handed'[u] = 0)
  BY Zenon DEF CountInv
<1>4. Unique(pending')
  BY DEF CountInv
<1>5. \A u \in Standard : Counted(u)
  BY Zenon DEF CountInv, Counted
<1>6. ASSUME NEW u \in Standard PROVE Counted(u)'
  <2>1. CASE u = v
    BY <1>2, <2>1 DEF Counted, Listed
  <2>2. CASE u # v
    <3>1. ready'[u] = ready[u] /\ (u \in unmark' => u \in unmark)
          /\ (Listed(kept', u) => Listed(kept, u))
      BY <2>2
    <3>2. Counted(u) /\ (Visited(u) => Visited(u)')
      BY <1>2, <1>5
    <3> QED BY <3>1, <3>2, Zenon DEF Counted, Listed
  <2> QED BY <2>1, <2>2
<1> QED BY <1>3, <1>4, <1>6, Zenon DEF CountInv, Counted, Unique, Listed

\* The end of the pass: each confirmed transfer is handed over once.
LEMMA CountEnd ==
    ASSUME TypeOK, CountInv, HandOver(ready), pending' = kept, Unchecked
    PROVE  CountInv'
<1>1. /\ handed \in [Transfers -> Nat] /\ ready \in [Standard -> Nat]
      /\ kept \in Seq(Standard \X Nat)
  BY DEF TypeOK
<1>2. Unique(pending)'
  BY DEF CountInv, Unique
<1>3. kept' = <<>> /\ Len(kept') = 0 /\ unmark' = {} /\ \A u \in Standard : ready'[u] = 0
  BY DEF Unchecked
<1>4. Unique(kept)' /\ \A u : ~Listed(kept', u)
  BY <1>3 DEF Unique, Listed
<1>5. \A u \in Standard : Visited(u) => Listed(pending, u)
  BY DEF Visited, Listed
<1>6. ASSUME NEW u \in Transfers
      PROVE  handed'[u] <= 1 /\ (Listed(kept, u) => handed'[u] = 0)
  <2>1. handed[u] \in Nat /\ handed[u] <= 1
    BY <1>1 DEF CountInv
  <2>2. CASE u \in Standard
    <3>1. handed'[u] = handed[u] + ready[u]
      BY <2>2, HandOverReady
    <3>2. /\ ready[u] \in Nat /\ ready[u] <= 1
          /\ ready[u] > 0 => handed[u] = 0 /\ ~Listed(kept, u)
          /\ Listed(kept, u) => handed[u] = 0
      BY <1>1, <1>5, <2>2 DEF CountInv
    <3> QED BY <2>1, <3>1, <3>2
  <2>3. CASE u \notin Standard
    <3>1. handed'[u] = handed[u]
      BY <2>3, HandOverReady
    <3>2. ~Listed(kept, u)
      BY <1>1, <2>3, ListedIsStandard, Zenon
    <3> QED BY <2>1, <3>1, <3>2
  <2> QED BY <2>2, <2>3
<1>7. (\A u \in Transfers : handed[u] <= 1 /\ (Listed(pending, u) => handed[u] = 0))'
  BY <1>6 DEF Listed
<1>8. (\A u \in Standard :
         /\ ready[u] <= 1
         /\ ready[u] > 0 => Visited(u) /\ u \notin unmark /\ ~Listed(kept, u)
         /\ u \in unmark => Visited(u) /\ ~Listed(kept, u)
         /\ Listed(kept, u) => Visited(u))'
  BY <1>3, <1>4
<1> QED BY <1>2, <1>4, <1>7, <1>8, Zenon DEF CountInv

\* Steps that touch neither the lists nor the hand-overs.
LEMMA CountFrame ==
    ASSUME CountInv, UNCHANGED <<pending, handed, checkVars>>
    PROVE  CountInv'
<1>1. /\ Unique(pending)' = Unique(pending) /\ Unique(kept)' = Unique(kept)
      /\ \A t : Visited(t)' = Visited(t) /\ Listed(kept, t)' = Listed(kept, t)
                /\ Listed(pending, t)' = Listed(pending, t)
  BY DEF checkVars, Unique, Visited, Listed
<1> QED BY <1>1 DEF CountInv, checkVars

\* Every step keeps CountInv.
LEMMA StepCount ==
    ASSUME TypeOK, Calm, Calm', OrderInv, MarkInv, TrackInv, CountInv, [Next]_vars
    PROVE  CountInv'
<1> USE DEF chainVars, storageVars, checkVars, markVars, scanVars
<1>0. ~Fail
  BY DEF Fail, Calm
<1>1. CASE UNCHANGED <<pending, handed, checkVars>>
  BY <1>1, CountFrame
<1>2. CASE \/ Source \/ EmptyBlock \/ StartRecovery \/ Subscribe \/ TakeBlock \/ Cleanup
           \/ UNCHANGED vars \/ \E t \in Transfers : Approve(t) \/ Finalize(t)
  BY <1>1, <1>2, Zenon DEF Source, Mining, Mine, Reorg, EmptyBlock, StartRecovery, Subscribe,
                    TakeBlock, Cleanup, vars, Approve, Finalize
<1>3. ~(\E t \in Transfers : Fork(t))
  BY DEF Fork, Calm
<1>4. ASSUME NEW t \in todo, Recover(t) PROVE CountInv'
  <2>1. pc = "recover" /\ t \in Standard /\ t \in Transfers /\ UNCHANGED <<handed, checkVars>>
    BY <1>4 DEF Recover, TypeOK
  <2>2. ~Tracked(t) /\ idx = 1
    BY <2>1, Zenon DEF OrderInv, MarkInv, TrackInv, Starting
  <2>3. CASE Push(t)
    BY <2>1, <2>2, <2>3, CountPush
  <2>4. CASE UNCHANGED <<pending, processed>>
    BY <1>1, <2>1, <2>4
  <2> QED BY <1>4, <2>3, <2>4 DEF Recover
<1>5. ASSUME NEW t \in todo, Scan(t) PROVE CountInv'
  <2>1. pc = "scan" /\ t \in Transfers /\ UNCHANGED checkVars /\ idx = 1
    BY <1>5, Zenon DEF Scan, TypeOK, TrackInv
  <2>2. t \notin processed => ~Tracked(t)
    BY <2>1 DEF OrderInv, MarkInv, Over
  <2>3. CASE UNCHANGED markVars
    BY <1>1, <2>1, <2>3
  <2>4. CASE t \notin processed /\ HandOver([x \in {t} |-> 1]) /\ UNCHANGED pending
    <3>1. handed'[t] = handed[t] + 1 /\ \A u \in Transfers : u # t => handed'[u] = handed[u]
      BY <2>1, <2>4, HandOverOne
    <3>2. handed[t] = 0 /\ ~Listed(pending, t)
      BY <2>1, <2>2, <2>4 DEF Tracked, TypeOK
    <3>3. ASSUME NEW u \in Transfers
          PROVE  handed'[u] <= 1 /\ (Listed(pending, u) => handed'[u] = 0)
      <4>1. handed[u] <= 1 /\ (Listed(pending, u) => handed[u] = 0)
        BY Zenon DEF CountInv
      <4>2. CASE u = t
        BY <3>1, <3>2, <4>2
      <4>3. CASE u # t
        BY <3>1, <4>1, <4>3
      <4> QED BY <4>2, <4>3
    <3>4. (\A u \in Transfers : handed[u] <= 1 /\ (Listed(pending, u) => handed[u] = 0))'
      BY <2>4, <3>3 DEF Listed
    <3>5. /\ Unique(pending)' = Unique(pending) /\ Unique(kept)' = Unique(kept)
          /\ \A u : Visited(u)' = Visited(u) /\ Listed(kept, u)' = Listed(kept, u)
      BY <2>1, <2>4 DEF Unique, Visited, Listed
    <3> QED BY <2>1, <3>4, <3>5 DEF CountInv
  <2>5. CASE t \notin processed /\ t \in Standard /\ Push(t) /\ UNCHANGED handed
    BY <2>1, <2>2, <2>5, CountPush
  <2> QED BY <1>5, <2>3, <2>4, <2>5, Zenon DEF Scan
<1>6. ASSUME idx <= Len(pending)
      PROVE  \E v \in Standard, b \in Nat : pending[idx] = <<v, b>> /\ v = pending[idx][1]
  <2>1. idx \in Nat \ {0}
    BY DEF TypeOK
  <2>2. pending[idx] \in Standard \X Nat
    BY <1>6, <2>1, PendingEntry
  <2> QED BY <2>2
<1>7. ASSUME NEW v \in Standard, idx <= Len(pending), v = pending[idx][1]
      PROVE  ready[v] = 0 /\ v \notin unmark /\ ~Listed(kept, v)
  <2>1. idx \in 1 .. Len(pending)
    BY <1>7, LenProperties DEF TypeOK
  <2>2. ~Visited(v)
    <3>1. ASSUME NEW i \in 1 .. Len(pending), i < idx, pending[i][1] = v PROVE FALSE
      <4>1. i = idx
        BY <1>7, <2>1, <3>1, Zenon DEF CountInv, Unique
      <4> QED BY <2>1, <3>1, <4>1
    <3> QED BY <3>1, Zenon DEF Visited
  <2> QED BY <2>2, NotVisited
<1>8. ASSUME NEW v \in Standard, idx <= Len(pending), v = pending[idx][1], idx' = idx + 1,
             UNCHANGED <<pending, handed, ready, unmark>>,
             NEW b \in Nat, kept' = Append(kept, <<v, b>>)
      PROVE  CountInv'
  <2>1. ready[v] = 0 /\ v \notin unmark /\ ~Listed(kept, v)
    BY <1>7, <1>8
  <2>2. <<v, b>> \in Standard \X Nat /\ <<v, b>>[1] = v /\ kept \in Seq(Standard \X Nat)
        /\ Unique(kept)
    BY DEF TypeOK, CountInv
  <2>3. Unique(kept') /\ \A u : Listed(kept', u) => u = v \/ Listed(kept, u)
    BY <1>8, <2>1, <2>2, AppendUnique, Zenon
  <2>4. ready'[v] <= 1 /\ ~(ready'[v] > 0) /\ v \notin unmark'
    BY <1>8, <2>1
  <2> QED BY <1>8, <2>3, <2>4, CountVisit
<1>9. CASE CheckHead
  <2>1. CASE UNCHANGED checkVars
    BY <1>1, <1>9, <2>1 DEF CheckHead
  <2>2. CASE kept' = Append(kept, pending[idx]) /\ idx' = idx + 1 /\ UNCHANGED <<ready, unmark>>
    <3>1. idx <= Len(pending) /\ UNCHANGED <<pending, handed>>
      BY <1>9 DEF CheckHead
    <3>2. PICK v \in Standard, b \in Nat : pending[idx] = <<v, b>> /\ v = pending[idx][1]
      BY <1>6, <3>1
    <3>3. kept' = Append(kept, <<v, b>>)
      BY <2>2, <3>2
    <3> QED BY <1>8, <2>2, <3>1, <3>2, <3>3, Zenon
  <2> QED BY <1>9, <2>1, <2>2 DEF CheckHead
<1>10. CASE CheckReceipt
  <2>1. idx <= Len(pending) /\ idx' = idx + 1 /\ UNCHANGED <<pending, handed>>
    BY <1>10 DEF CheckReceipt
  <2>2. PICK v \in Standard : v = pending[idx][1]
    BY <1>6, <2>1
  <2>3. ready[v] = 0 /\ v \notin unmark /\ ~Listed(kept, v)
    BY <1>7, <2>1, <2>2
  <2>4. txBlock[v] \in Nat /\ ready \in [Standard -> Nat] /\ Unique(kept)
    BY DEF TypeOK, CountInv
  <2>5. CASE ready' = [ready EXCEPT ![v] = @ + 1] /\ UNCHANGED <<kept, unmark>>
    <3>1. ready'[v] = 1 /\ \A u \in Standard : u # v => ready'[u] = ready[u]
      BY <2>3, <2>4, <2>5
    <3>2. ready'[v] <= 1 /\ v \notin unmark' /\ ~Listed(kept', v) /\ Unique(kept')
      BY <2>3, <2>4, <2>5, <3>1
    <3>3. \A u \in Standard : u # v => /\ ready'[u] = ready[u]
                                       /\ u \in unmark' => u \in unmark
                                       /\ Listed(kept', u) => Listed(kept, u)
      BY <2>5, <3>1, Zenon
    <3> QED BY <2>1, <2>2, <3>2, <3>3, CountVisit, Zenon
  <2>6. CASE kept' = Append(kept, <<v, txBlock[v]>>) /\ UNCHANGED <<ready, unmark>>
    BY <1>8, <2>1, <2>2, <2>4, <2>6, Zenon
  <2>7. CASE unmark' = unmark \cup {v} /\ UNCHANGED <<kept, ready>>
    <3>1. ready'[v] <= 1 /\ ~(ready'[v] > 0) /\ ~Listed(kept', v) /\ Unique(kept')
      BY <2>3, <2>4, <2>7
    <3>2. \A u \in Standard : u # v => /\ ready'[u] = ready[u]
                                       /\ u \in unmark' => u \in unmark
                                       /\ Listed(kept', u) => Listed(kept, u)
      BY <2>7, Zenon
    <3> QED BY <2>1, <2>2, <3>1, <3>2, CountVisit, Zenon
  <2> QED BY <1>10, <2>2, <2>5, <2>6, <2>7, Zenon DEF CheckReceipt
<1>11. CASE EndCheck
  BY <1>11, CountEnd DEF EndCheck
<1>12. ~((\E rest \in SUBSET todo : RecoverError(rest)) \/ CheckError \/ ScanError
         \/ (\E t \in todo : ScanSkip(t)) \/ Rerun \/ Crash)
  BY <1>0, Zenon DEF RecoverError, CheckError, ScanError, ScanSkip, Rerun, Crash
<1> QED
  BY <1>2, <1>3, <1>4, <1>5, <1>9, <1>10, <1>11, <1>12, Zenon DEF Next, Handler

\* As long as nothing fails and Bifrost does not fork, no transfer is handed over a
\* second time, however its source transaction is reorganised and its entry waits,
\* is unmarked and is marked again.
THEOREM HandedOverAtMostOnce == Spec => []HandedOverOnce
<1>1. Init => OnceInv
  <2> SUFFICES ASSUME Init PROVE OrderInv /\ MarkInv /\ CountInv
    BY DEF OnceInv
  <2>1. stream = <<>> /\ Len(stream) = 0 /\ Len(pending) = 0 /\ Len(kept) = 0
    BY DEF Init
  <2>2. \A t \in Transfers : ~Queued(t) /\ ~Listed(pending, t) /\ ~Listed(kept, t) /\ handed[t] = 0
    <3>0. 1 .. 0 = {}
      OBVIOUS
    <3>1. \A t : ~Queued(t) /\ ~Listed(pending, t) /\ ~Listed(kept, t)
      BY <2>1, <3>0, Zenon DEF Queued, Listed
    <3>2. \A t \in Transfers : handed[t] = 0
      BY DEF Init
    <3> QED BY <3>1, <3>2
  <2>3. \A t \in Standard : ready[t] = 0 /\ t \notin unmark
    BY DEF Init
  <2>4. OrderInv
    BY <2>1, <2>2 DEF Init, OrderInv, Busy, Starting
  <2>5. MarkInv
    BY <2>2 DEF MarkInv, Tracked
  <2>6. Unique(pending) /\ Unique(kept)
    BY <2>1 DEF Unique
  <2>7. (\A t \in Transfers : handed[t] <= 1) /\ \A t \in Standard : ready[t] <= 1 /\ ~(ready[t] > 0)
    BY <2>2, <2>3
  <2>8. CountInv
    BY <2>2, <2>3, <2>6, <2>7, Zenon DEF CountInv
  <2> QED BY <2>4, <2>5, <2>8
<1>2. TypeOK /\ TrackInv /\ OnceInv /\ [Next]_vars => OnceInv'
  <2> SUFFICES ASSUME TypeOK, TrackInv, OnceInv, [Next]_vars, Calm'
               PROVE  OrderInv' /\ MarkInv' /\ CountInv'
    BY DEF OnceInv
  <2>1. faults' = 0 => faults = 0
    <3>1. faults' = faults \/ faults' = faults + 1
      BY Zenon DEF Next, Handler, Source, Mining, Mine, Reorg, EmptyBlock, StartRecovery, Subscribe,
             TakeBlock, CheckHead, CheckReceipt, EndCheck, Cleanup, Recover, Scan, Approve,
             Finalize, Fork, RecoverError, CheckError, ScanError, ScanSkip, Rerun, Crash, Fail, vars
    <3>2. faults \in Nat
      BY DEF TypeOK
    <3> QED BY <3>1, <3>2
  <2>2. forks' = 0 => forks = 0
    <3>1. forks' = forks \/ forks' = forks + 1
      BY Zenon DEF Next, Handler, Source, Mining, Mine, Reorg, EmptyBlock, StartRecovery, Subscribe,
             TakeBlock, CheckHead, CheckReceipt, EndCheck, Cleanup, Recover, Scan, Approve,
             Finalize, Fork, RecoverError, CheckError, ScanError, ScanSkip, Rerun, Crash, vars,
             storageVars
    <3>2. forks \in Nat
      BY DEF TypeOK
    <3> QED BY <3>1, <3>2
  <2>3. Calm /\ OrderInv /\ MarkInv /\ CountInv
    BY <2>1, <2>2 DEF Calm, OnceInv
  <2> QED BY <2>3, StepOrder, StepMark, StepCount
<1>3. OnceInv => HandedOverOnce
  BY Zenon DEF OnceInv, Calm, CountInv, HandedOverOnce
<1>4. Init => TrackInv
  BY DEF Init, TrackInv, MarkedIsTracked
<1> QED BY <1>1, <1>2, <1>3, <1>4, StepTrack, TypeCorrect, PTL DEF Spec
=============================================================================
