-------------------------- MODULE EventRelayProofs --------------------------
(***************************************************************************)
(* Proofs about EventRelay, for every set of events, every batch size,     *)
(* every number of confirmations and every bound: its types, that what is  *)
(* relayed is final, that nothing is dropped without a reorganisation, and *)
(* that no event is missed or relayed twice.                               *)
(***************************************************************************)
EXTENDS EventRelay, SequenceTheorems, TLAPS

\* What Vec::remove does to pending_events: one entry less, the others kept.
LEMMA RemoveAtFacts ==
    ASSUME NEW S, NEW s \in Seq(S), NEW i \in 1 .. Len(s)
    PROVE  /\ RemoveAt(s, i) \in Seq(S)
           /\ Len(RemoveAt(s, i)) = Len(s) - 1
           /\ \A k \in 1 .. Len(s) - 1 :
                RemoveAt(s, i)[k] = IF k < i THEN s[k] ELSE s[k + 1]
<1> DEFINE a == SubSeq(s, 1, i - 1)
           b == SubSeq(s, i + 1, Len(s))
<1>1. Len(s) \in Nat /\ \A j \in 1 .. Len(s) : s[j] \in S
  BY LenProperties, ElementOfSeq
<1>2. /\ a \in Seq(S)
      /\ Len(a) = i - 1
      /\ \A k \in 1 .. i - 1 : a[k] = s[k]
  BY <1>1, SubSeqProperties
<1>3. /\ b \in Seq(S)
      /\ Len(b) = Len(s) - i
      /\ \A k \in 1 .. Len(s) - i : b[k] = s[k + i]
  BY <1>1, SubSeqProperties
<1> DEFINE c == a \o b
<1>4. /\ c \in Seq(S)
      /\ Len(c) = Len(a) + Len(b)
      /\ \A k \in 1 .. Len(a) + Len(b) :
           c[k] = IF k <= Len(a) THEN a[k] ELSE b[k - Len(a)]
  BY <1>2, <1>3, ConcatProperties, Zenon
<1>5. RemoveAt(s, i) = c
  BY DEF RemoveAt
<1> HIDE DEF a, b, c
<1>6. ASSUME NEW k \in 1 .. Len(s) - 1
      PROVE  c[k] = IF k < i THEN s[k] ELSE s[k + 1]
  <2>1. k \in 1 .. Len(a) + Len(b)
    BY <1>1, <1>2, <1>3
  <2>2. c[k] = IF k <= Len(a) THEN a[k] ELSE b[k - Len(a)]
    BY <2>1, <1>4
  <2>3. CASE k < i
    <3>1. k <= Len(a) /\ k \in 1 .. i - 1
      BY <2>3, <1>1, <1>2
    <3> QED BY <2>2, <2>3, <3>1, <1>2
  <2>4. CASE ~(k < i)
    <3>1. /\ ~(k <= Len(a))
          /\ k - Len(a) \in 1 .. Len(s) - i
          /\ k - Len(a) + i = k + 1
      BY <2>4, <1>1, <1>2
    <3>2. b[k - Len(a)] = s[k - Len(a) + i]
      BY <3>1, <1>3, Zenon
    <3> QED BY <2>2, <2>4, <3>1, <3>2
  <2> QED BY <2>3, <2>4
<1>7. Len(c) = Len(s) - 1
  BY <1>1, <1>2, <1>3, <1>4
<1> QED BY <1>4, <1>5, <1>6, <1>7

\* Rewriting one entry keeps the list a list of the same length.
LEMMA UpdateEntry ==
    ASSUME NEW s \in Seq(PendingEvent), NEW i \in DOMAIN s, NEW p \in PendingEvent
    PROVE  /\ [s EXCEPT ![i] = p] \in Seq(PendingEvent)
           /\ DOMAIN [s EXCEPT ![i] = p] = DOMAIN s
BY ExceptSeq, LenProperties

\* Pushing an entry leaves the others in place.
LEMMA PushEntry ==
    ASSUME NEW s \in Seq(PendingEvent), NEW p \in PendingEvent
    PROVE  /\ Append(s, p) \in Seq(PendingEvent)
           /\ DOMAIN Append(s, p) = DOMAIN s \cup {Len(s) + 1}
           /\ \A i \in DOMAIN s : Append(s, p)[i] = s[i]
           /\ Append(s, p)[Len(s) + 1] = p
<1>1. /\ Append(s, p) \in Seq(PendingEvent)
      /\ Len(Append(s, p)) = Len(s) + 1
      /\ \A i \in 1 .. Len(s) : Append(s, p)[i] = s[i]
      /\ Append(s, p)[Len(s) + 1] = p
  BY AppendProperties
<1>2. /\ Len(s) \in Nat /\ DOMAIN s = 1 .. Len(s)
      /\ DOMAIN Append(s, p) = 1 .. Len(s) + 1
  BY <1>1, LenProperties
<1> QED BY <1>1, <1>2

\* Absent and Found write only the fields of the entry they were called for.
LEMMA AbsentType ==
    ASSUME TypeOK, NEW i \in todo, Absent(i)
    PROVE  /\ pending' \in Seq(PendingEvent)
           /\ DOMAIN pending' = DOMAIN pending
           /\ removals' \subseteq DOMAIN pending
           /\ dropped' \subseteq Events
           /\ confirmed' = confirmed
<1>1. i \in DOMAIN pending /\ pending[i] \in PendingEvent
  BY LenProperties, ElementOfSeq DEF TypeOK
<1>2. CASE pending[i].absent + 1 >= MAX_ABSENT_CHECKS
  BY <1>1, <1>2, Zenon DEF TypeOK, Absent, PendingEvent
<1>3. CASE ~(pending[i].absent + 1 >= MAX_ABSENT_CHECKS)
  <2> DEFINE p == [pending[i] EXCEPT !.absent = @ + 1]
  <2>1. p \in PendingEvent
    BY <1>1 DEF PendingEvent
  <2>2. pending' = [pending EXCEPT ![i] = p]
    BY <1>3 DEF Absent
  <2> QED BY <1>1, <1>3, <2>1, <2>2, UpdateEntry DEF TypeOK, Absent
<1> QED BY <1>2, <1>3

\* An entry that was found keeps its place; only its block may change.
LEMMA FoundType ==
    ASSUME TypeOK, NEW i \in todo, Found(i, txBlock)
    PROVE  /\ pending' \in Seq(PendingEvent)
           /\ DOMAIN pending' = DOMAIN pending
           /\ removals' \subseteq DOMAIN pending
           /\ dropped' = dropped
           /\ confirmed' \subseteq Events \X Nat
<1>1. i \in DOMAIN pending /\ pending[i] \in PendingEvent
  BY LenProperties, ElementOfSeq DEF TypeOK
<1>2. CASE txBlock = pending[i].block
  <2>1. <<pending[i].ev, txBlock>> \in Events \X Nat
    BY <1>1 DEF TypeOK, PendingEvent
  <2>2. /\ removals' = removals \cup {i}
        /\ confirmed' = confirmed \cup {<<pending[i].ev, txBlock>>}
        /\ pending' = pending /\ dropped' = dropped
    BY <1>2 DEF Found
  <2>3. confirmed' \subseteq Events \X Nat
    BY <2>1, <2>2 DEF TypeOK
  <2> QED BY <1>1, <2>2, <2>3 DEF TypeOK
<1>3. CASE txBlock # pending[i].block
  <2> DEFINE p == [pending[i] EXCEPT !.block = txBlock, !.absent = 0]
  <2>1. p \in PendingEvent
    BY <1>1, Zenon DEF PendingEvent, TypeOK
  <2>2. pending' = [pending EXCEPT ![i] = p]
    BY <1>3, Zenon DEF Found
  <2> QED BY <1>1, <1>3, <2>1, <2>2, UpdateEntry DEF TypeOK, Found
<1> QED BY <1>2, <1>3

\* The initial state is well typed.
LEMMA InitType == Init => TypeOK
<1> SUFFICES ASSUME Init PROVE TypeOK
  OBVIOUS
<1>1. NoMessage \in Message
  BY DEF NoMessage, Message
<1>2. <<>> \in Seq(Message) /\ <<>> \in Seq(PendingEvent)
  BY EmptySeq
<1> QED BY <1>1, <1>2, Zenon DEF Init, TypeOK

\* No step of the chain, of the EventManager, of the handler or of the start of
\* the process leaves the types.
LEMMA StepType == TypeOK /\ [Next]_vars => TypeOK'
<1> SUFFICES ASSUME TypeOK, [Next]_vars PROVE TypeOK'
  OBVIOUS
<1> USE ConstantsAssumption
<1>1. CASE Mine
  BY <1>1 DEF TypeOK, Mine, scanVars, streamVars, bootVars, relayVars
<1>2. CASE Reorg
  BY <1>2 DEF TypeOK, Reorg, scanVars, streamVars, bootVars, relayVars
<1>3. CASE process_new_block
  <2>1. [block |-> waiting, logs |-> LogsOfBatch] \in Message
    BY DEF TypeOK, Message, LogsOfBatch
  <2>2. channel' \in Seq(Message) /\ lagged' \in BOOLEAN /\ lost' \subseteq Events
    <3>1. CASE LogsOfBatch = {}
      BY <1>3, <3>1 DEF process_new_block, TypeOK
    <3>2. CASE LogsOfBatch # {} /\ Len(channel) < ChannelCapacity
      <4>1. /\ channel' = Append(channel, [block |-> waiting, logs |-> LogsOfBatch])
            /\ lagged' = lagged /\ lost' = lost
        BY <1>3, <3>2 DEF process_new_block, Broadcast
      <4>2. channel' \in Seq(Message)
        BY <2>1, <4>1, AppendProperties DEF TypeOK
      <4> QED BY <4>1, <4>2 DEF TypeOK
    <3>3. CASE LogsOfBatch # {} /\ ~(Len(channel) < ChannelCapacity)
      <4>1. channel # <<>>
        BY <3>3, EmptySeq DEF TypeOK
      <4>2. Tail(channel) \in Seq(Message) /\ Head(channel) \in Message
        BY <4>1, HeadTailProperties DEF TypeOK
      <4>3. /\ channel' = Append(Tail(channel),
                                 [block |-> waiting, logs |-> LogsOfBatch])
            /\ lagged' = TRUE /\ lost' = lost \cup Head(channel).logs
        BY <1>3, <3>3 DEF process_new_block, Broadcast
      <4>4. channel' \in Seq(Message)
        BY <2>1, <4>2, <4>3, AppendProperties
      <4> QED BY <4>2, <4>3, <4>4 DEF TypeOK, Message
    <3> QED BY <3>1, <3>2, <3>3
  <2>3. waiting' \in Nat
    BY <1>3 DEF process_new_block, BatchEnd, TypeOK
  <2> QED
    BY <1>3, <2>2, <2>3
    DEF process_new_block, TypeOK, chainVars, scanVars, bootVars, relayVars
<1>4. CASE ReceiveLagged
  BY <1>4, Zenon DEF TypeOK, ReceiveLagged, chainVars, scanVars, bootVars, relayVars
<1>5. CASE Receive
  <2>1. Tail(channel) \in Seq(Message) /\ Head(channel) \in Message
    BY <1>5, HeadTailProperties DEF TypeOK, Receive
  <2> QED
    BY <1>5, <2>1 DEF TypeOK, Receive, chainVars, scanVars, bootVars, relayVars
<1>6. CASE HandleLog
  <2> PICK e \in inbox.logs : HandleLog!(e)
    BY <1>6, Zenon DEF HandleLog
  <2>1. e \in Events /\ inbox \in Message
    BY DEF TypeOK, Message
  <2>2. inbox' \in Message
    BY <2>1 DEF Message
  <2>3. /\ pending' \in Seq(PendingEvent)
        /\ DOMAIN pending \subseteq DOMAIN pending'
        /\ unconfirmed' \subseteq Events
    <3>1. [ev |-> e, block |-> inbox.block, absent |-> 0] \in PendingEvent
      BY <2>1 DEF PendingEvent, Message
    <3>2. CASE e \in Immediate
      BY <3>2, <2>1 DEF TypeOK
    <3>3. CASE e \notin Immediate
      <4>1. /\ pending' = Append(pending, [ev |-> e, block |-> inbox.block,
                                          absent |-> 0])
            /\ unconfirmed' = unconfirmed
        BY <3>3
      <4>2. unconfirmed' \subseteq Events /\ pending \in Seq(PendingEvent)
        BY <4>1 DEF TypeOK
      <4> QED BY <3>1, <4>1, <4>2, PushEntry
    <3> QED BY <3>2, <3>3
  <2> QED BY <2>2, <2>3, Zenon DEF TypeOK, chainVars, scanVars, bootVars
<1>7. CASE StartScan
  BY <1>7 DEF TypeOK, StartScan, chainVars, streamVars, bootVars, relayVars
<1>8. CASE VerifyTransaction
  <2> PICK i \in todo : VerifyTransaction!(i)
    BY <1>8 DEF VerifyTransaction
  <2>1. pending[i] \in PendingEvent
    BY LenProperties, ElementOfSeq DEF TypeOK
  <2>2. CASE loc[pending[i].ev] # 0
    BY <2>1, <2>2, Zenon DEF TypeOK, PendingEvent, chainVars, streamVars, bootVars
  <2>3. CASE loc[pending[i].ev] = 0
    <3>1. /\ pending' \in Seq(PendingEvent)
          /\ DOMAIN pending' = DOMAIN pending
          /\ removals' \subseteq DOMAIN pending
          /\ dropped' \subseteq Events
          /\ confirmed' = confirmed
      BY <2>3, AbsentType
    <3> QED BY <2>3, <3>1 DEF TypeOK, chainVars, streamVars, bootVars
  <2> QED BY <2>2, <2>3
<1>9. CASE VerifyLogs
  <2> PICK i \in todo : VerifyLogs!(i)
    BY <1>9 DEF VerifyLogs
  <2>1. /\ pending' \in Seq(PendingEvent)
        /\ DOMAIN pending' = DOMAIN pending
        /\ removals' \subseteq DOMAIN pending
        /\ dropped' \subseteq Events
        /\ confirmed' \subseteq Events \X Nat
    <3>1. CASE loc[pending[i].ev] = txBlock
      BY <3>1, FoundType DEF TypeOK
    <3>2. CASE loc[pending[i].ev] # txBlock
      BY <3>2, AbsentType DEF TypeOK
    <3> QED BY <3>1, <3>2
  <2> QED BY <2>1 DEF TypeOK, chainVars, streamVars, bootVars
<1>10. CASE VerifyError
  BY <1>10 DEF TypeOK, VerifyError, chainVars, streamVars, bootVars, relayVars
<1>11. CASE Remove
  <2>1. PICK i \in removals :
          /\ RemoveFirst(i)
          /\ pending' = IF i <= Len(pending) THEN RemoveAt(pending, i) ELSE pending
          /\ removals' = removals \ {i}
    BY <1>11 DEF Remove
  <2>2. i \in 1 .. Len(pending) /\ DOMAIN pending = 1 .. Len(pending)
        /\ Len(pending) \in Nat
    BY <2>1, LenProperties DEF TypeOK
  <2>3. pending' = RemoveAt(pending, i)
    BY <2>1, <2>2
  <2>4. pending' \in Seq(PendingEvent) /\ Len(pending') = Len(pending) - 1
    BY <2>2, <2>3, RemoveAtFacts, Zenon DEF TypeOK
  <2>5. DOMAIN pending' = 1 .. Len(pending) - 1
    BY <2>4, LenProperties
  <2>6. removals' \subseteq DOMAIN pending'
    BY <2>1, <2>2, <2>5 DEF TypeOK, RemoveFirst
  <2> QED
    BY <1>11, <2>4, <2>6
    DEF Remove, TypeOK, chainVars, streamVars, bootVars, relayVars
<1>12. CASE EndScan
  BY <1>12 DEF TypeOK, EndScan, chainVars, streamVars, bootVars, relayVars
<1>13. CASE Initialize
  BY <1>13 DEF TypeOK, Initialize, chainVars, scanVars, relayVars
<1>14. CASE FetchBootstrapLogs
  BY <1>14 DEF TypeOK, FetchBootstrapLogs, BootstrapFrom, chainVars, scanVars,
               relayVars, streamVars
<1>15. CASE ProcessBootstrapLog
  BY <1>15 DEF TypeOK, ProcessBootstrapLog, chainVars, scanVars, streamVars
<1>16. CASE BootstrapError
  BY <1>16 DEF TypeOK, BootstrapError, chainVars, scanVars, relayVars, streamVars
<1>17. CASE BootstrapDone
  BY <1>17 DEF TypeOK, BootstrapDone, chainVars, scanVars, relayVars, streamVars
<1>18. CASE Crash
  <2>1. NoMessage \in Message
    BY DEF NoMessage, Message
  <2>2. <<>> \in Seq(Message) /\ <<>> \in Seq(PendingEvent)
    BY EmptySeq
  <2>3. /\ channel' = <<>> /\ inbox' = NoMessage /\ pending' = <<>>
        /\ lagged' = FALSE /\ stage' = "down"
    BY <1>18 DEF Crash
  <2>4. bootLogs' = {} /\ latest' = 0 /\ todo' = {} /\ txBlock' = 0 /\ removals' = {}
    BY <1>18 DEF Crash
  <2>5. crashes' \in Nat
    BY <1>18 DEF Crash, TypeOK
  <2>6. UNCHANGED <<floor, waiting, lost, chainVars, relayVars, errors>>
    BY <1>18 DEF Crash
  <2> QED BY <2>1, <2>2, <2>3, <2>4, <2>5, <2>6, Zenon DEF TypeOK, chainVars, relayVars
<1>19. CASE UNCHANGED vars
  BY <1>19 DEF TypeOK, vars, chainVars, scanVars, streamVars, bootVars, relayVars
<1> QED
  BY <1>1, <1>2, <1>3, <1>4, <1>5, <1>6, <1>7, <1>8, <1>9, <1>10, <1>11, <1>12,
     <1>13, <1>14, <1>15, <1>16, <1>17, <1>18, <1>19
  DEF Next, Chain, Scan, Stream, Boot

\* The state of the EventManager, of the handler and of its scan is always well
\* formed; in particular the indices a scan collected stay indices of
\* pending_events until the removal loop is through with them.
THEOREM TypeCorrect == Spec => []TypeOK
BY InitType, StepType, PTL DEF Spec

---------------------------------------------------------------------------
(* Relays from pending_events are final.  The invariant has to know that   *)
(* the entries still to be verified were deep enough when the scan read    *)
(* the head, and that what was relayed is still that deep.                 *)

DueEntries ==
    /\ latest <= height
    /\ \A i \in todo : pending[i].block + BlockConfirmations <= latest

DeepRelays ==
    \A r \in confirmed : /\ r[2] # 0
                         /\ r[2] + BlockConfirmations <= height
                         /\ loc[r[1]] = r[2]

FinalInv == DueEntries /\ DeepRelays

\* A step that leaves the chain and the history of relays alone keeps the
\* relays as deep as they were.
LEMMA DeepRelaysStutter ==
    ASSUME DeepRelays, UNCHANGED <<height, loc, confirmed>>
    PROVE  DeepRelays'
BY DEF DeepRelays

\* The index the scan is at leaves todo; every other entry is as it was.
LEMMA DueEntriesVerify ==
    ASSUME TypeOK, DueEntries, NEW i \in todo,
           todo' = todo \ {i}, UNCHANGED <<latest, height>>,
           \A j \in todo \ {i} : pending'[j] = pending[j]
    PROVE  DueEntries'
BY DEF DueEntries, BlockConfirmations

\* A check of one entry leaves the others of the scan as they are (absent).
LEMMA AbsentOthers ==
    ASSUME TypeOK, NEW i \in todo, Absent(i)
    PROVE  \A j \in todo \ {i} : pending'[j] = pending[j]
BY LenProperties DEF Absent, TypeOK

\* A check of one entry leaves the others of the scan as they are (found).
LEMMA FoundOthers ==
    ASSUME TypeOK, NEW i \in todo, Found(i, txBlock)
    PROVE  \A j \in todo \ {i} : pending'[j] = pending[j]
BY LenProperties DEF Found, TypeOK

\* The depth that the operator configured reaches below every fork.
LEMMA ReorgKeepsRelays ==
    ASSUME TypeOK, DeepRelays, Reorg
    PROVE  DeepRelays'
<1>1. PICK fork \in {f \in 0 .. height : f < height /\ height <= f + MaxReorgDepth} :
        \E l \in [Events -> {0} \cup fork + 1 .. height] :
          loc' = [e \in Events |-> IF loc[e] \in 1 .. fork THEN loc[e] ELSE l[e]]
  BY DEF Reorg
<1>2. height' = height /\ confirmed' = confirmed
  BY DEF Reorg, relayVars
<1> SUFFICES ASSUME NEW r \in confirmed
             PROVE  loc'[r[1]] = r[2]
  BY <1>2 DEF DeepRelays
<1>3. r[1] \in Events /\ r[2] \in Nat /\ height \in Nat
  BY DEF TypeOK
<1>4. r[2] # 0 /\ r[2] + BlockConfirmations <= height /\ loc[r[1]] = r[2]
  BY DEF DeepRelays
<1>5. MaxReorgDepth <= BlockConfirmations /\ MaxReorgDepth \in Nat
      /\ BlockConfirmations \in Nat
  BY ConstantsAssumption, DepthAssumption DEF BlockConfirmations
<1>6. loc[r[1]] \in 1 .. fork
  BY <1>3, <1>4, <1>5
<1> QED BY <1>1, <1>3, <1>4, <1>6

\* Every step keeps FinalInv.
LEMMA StepFinal == TypeOK /\ FinalInv /\ [Next]_vars => FinalInv'
<1> SUFFICES ASSUME TypeOK, DueEntries, DeepRelays, [Next]_vars PROVE FinalInv'
  BY DEF FinalInv
<1> USE DEF FinalInv
<1>0. BlockConfirmations \in Nat
  BY ConstantsAssumption DEF BlockConfirmations
<1>1. CASE Mine
  <2>1. height' = height + 1 /\ confirmed' = confirmed
        /\ UNCHANGED <<latest, todo, pending>>
    BY <1>1 DEF Mine, relayVars, scanVars
  <2>2. \A e \in Events : loc[e] # 0 => loc'[e] = loc[e]
    BY <1>1 DEF Mine
  <2>3. DueEntries'
    BY <2>1, <1>0 DEF DueEntries, TypeOK
  <2>4. DeepRelays'
    BY <2>1, <2>2, <1>0 DEF DeepRelays, TypeOK
  <2> QED BY <2>3, <2>4
<1>2. CASE Reorg
  <2>1. DueEntries'
    BY <1>2 DEF DueEntries, Reorg, scanVars
  <2> QED BY <1>2, <2>1, ReorgKeepsRelays
<1>3. CASE process_new_block
  BY <1>3, DeepRelaysStutter
  DEF process_new_block, DueEntries, chainVars, scanVars, relayVars
<1>4. CASE ReceiveLagged
  BY <1>4, DeepRelaysStutter
  DEF ReceiveLagged, DueEntries, chainVars, scanVars, relayVars
<1>5. CASE Receive
  BY <1>5, DeepRelaysStutter DEF Receive, DueEntries, chainVars, scanVars, relayVars
<1>6. CASE HandleLog
  <2> PICK e \in inbox.logs : HandleLog!(e)
    BY <1>6, Zenon DEF HandleLog
  <2>1. UNCHANGED <<height, loc, confirmed, latest, todo>>
    BY DEF chainVars, scanVars
  <2>2. \A i \in DOMAIN pending : pending'[i] = pending[i]
    <3>1. [ev |-> e, block |-> inbox.block, absent |-> 0] \in PendingEvent
      BY DEF TypeOK, PendingEvent, Message
    <3>2. CASE e \in Immediate
      BY <3>2
    <3>3. CASE e \notin Immediate
      BY <3>1, <3>3, PushEntry DEF TypeOK
    <3> QED BY <3>2, <3>3
  <2> QED BY <2>1, <2>2, DeepRelaysStutter DEF DueEntries, TypeOK
<1>7. CASE StartScan
  <2>1. DueEntries'
    BY <1>7 DEF StartScan, HasConfirmations, DueEntries, TypeOK, chainVars
  <2> QED BY <1>7, <2>1, DeepRelaysStutter DEF StartScan, chainVars, relayVars
<1>8. CASE VerifyTransaction
  <2> PICK i \in todo : VerifyTransaction!(i)
    BY <1>8 DEF VerifyTransaction
  <2>1. UNCHANGED <<height, loc, latest>>
    BY DEF chainVars
  <2>2. CASE loc[pending[i].ev] # 0
    BY <2>1, <2>2, DeepRelaysStutter DEF DueEntries
  <2>3. CASE loc[pending[i].ev] = 0
    <3>1. confirmed' = confirmed
      BY <2>3, AbsentType
    <3>2. \A j \in todo \ {i} : pending'[j] = pending[j]
      BY <2>3, AbsentOthers
    <3> QED BY <2>1, <2>3, <3>1, <3>2, DeepRelaysStutter, DueEntriesVerify
  <2> QED BY <2>2, <2>3
<1>9. CASE VerifyLogs
  <2> PICK i \in todo : VerifyLogs!(i)
    BY <1>9 DEF VerifyLogs
  <2>1. UNCHANGED <<height, loc, latest>> /\ todo' = todo \ {i}
    BY DEF chainVars
  <2>2. DueEntries'
    <3>1. \A j \in todo \ {i} : pending'[j] = pending[j]
      BY AbsentOthers, FoundOthers
    <3> QED BY <2>1, <3>1, DueEntriesVerify
  <2>3. DeepRelays'
    <3>1. CASE loc[pending[i].ev] = txBlock /\ txBlock = pending[i].block
      <4>1. confirmed' = confirmed \cup {<<pending[i].ev, txBlock>>}
        BY <3>1 DEF Found
      <4>2. txBlock # 0 /\ txBlock + BlockConfirmations <= height
        BY <3>1, <1>0 DEF DueEntries, TypeOK
      <4> QED BY <2>1, <3>1, <4>1, <4>2 DEF DeepRelays
    <3>2. CASE ~(loc[pending[i].ev] = txBlock /\ txBlock = pending[i].block)
      <4>1. confirmed' = confirmed
        BY <3>2 DEF Found, Absent
      <4> QED BY <2>1, <4>1, DeepRelaysStutter
    <3> QED BY <3>1, <3>2
  <2> QED BY <2>2, <2>3
<1>10. CASE VerifyError
  BY <1>10, DeepRelaysStutter DEF VerifyError, DueEntries, chainVars, relayVars
<1>11. CASE Remove
  BY <1>11, DeepRelaysStutter DEF Remove, DueEntries, chainVars, relayVars
<1>12. CASE EndScan
  BY <1>12, DeepRelaysStutter DEF EndScan, DueEntries, TypeOK, chainVars, relayVars
<1>13. CASE Initialize
  BY <1>13, DeepRelaysStutter, Zenon
  DEF Initialize, DueEntries, chainVars, scanVars, relayVars
<1>14. CASE FetchBootstrapLogs
  BY <1>14, DeepRelaysStutter
  DEF FetchBootstrapLogs, DueEntries, chainVars, scanVars, relayVars
<1>15. CASE ProcessBootstrapLog
  BY <1>15, DeepRelaysStutter DEF ProcessBootstrapLog, DueEntries, chainVars, scanVars
<1>16. CASE BootstrapError
  BY <1>16, DeepRelaysStutter
  DEF BootstrapError, DueEntries, chainVars, scanVars, relayVars
<1>17. CASE BootstrapDone
  BY <1>17, DeepRelaysStutter
  DEF BootstrapDone, DueEntries, chainVars, scanVars, relayVars
<1>18. CASE Crash
  BY <1>18, DeepRelaysStutter DEF Crash, DueEntries, TypeOK, chainVars, relayVars
<1>19. CASE UNCHANGED vars
  BY <1>19, DeepRelaysStutter DEF vars, DueEntries, chainVars, scanVars, relayVars
<1> QED
  BY <1>1, <1>2, <1>3, <1>4, <1>5, <1>6, <1>7, <1>8, <1>9, <1>10, <1>11, <1>12,
     <1>13, <1>14, <1>15, <1>16, <1>17, <1>18, <1>19
  DEF Next, Chain, Scan, Stream, Boot

\* Whatever the chain does to the events before, between and after the RPCs of
\* process_confirmed_pending_events, an event it relays stays in the block it
\* was relayed from, for every reorganisation depth up to block_confirmations.
THEOREM RelaysAreFinal == Spec => []ConfirmedRelaysAreFinal
<1>1. Init => FinalInv
  BY DEF Init, FinalInv, DueEntries, DeepRelays
<1>2. FinalInv => ConfirmedRelaysAreFinal
  BY DEF FinalInv, DeepRelays, ConfirmedRelaysAreFinal
<1> QED BY <1>1, <1>2, StepFinal, TypeCorrect, PTL DEF Spec

---------------------------------------------------------------------------
(* Only events that a reorganisation moved are dropped.  The invariant     *)
(* follows an event from the batch it was read in, through the channel and *)
(* the list, to the two RPCs that look for it.                             *)

Alive(e) == e \in touched \/ loc[e] # 0

EntryAlive(p) == Alive(p.ev) /\ (p.ev \in touched \/ p.absent = 0)

ChannelAlive == \A i \in DOMAIN channel : \A e \in channel[i].logs : Alive(e)
InboxAlive   == \A e \in inbox.logs : Alive(e)
ListAlive    == \A i \in DOMAIN pending : EntryAlive(pending[i])

TxFresh ==
    /\ latest = 0 => todo = {} /\ removals = {}
    /\ todo = {} => txBlock = 0
    /\ \A i \in todo : (AtIndex(i) /\ txBlock # 0) =>
         pending[i].ev \in touched \/ txBlock = loc[pending[i].ev]

WaitingBound == stage # "down" => waiting # 0 /\ waiting <= height + 1

DropInv ==
    /\ ChannelAlive /\ InboxAlive /\ ListAlive
    /\ TxFresh /\ WaitingBound
    /\ DroppedOnlyIfReorged

\* Mining moves only events that are in no block; a reorganisation records the
\* events it moves.
LEMMA ChainKeepsUntouched ==
    ASSUME TypeOK, Chain
    PROVE  /\ touched \subseteq touched'
           /\ height <= height'
           /\ \A e \in Events :
                loc[e] # 0 => e \in touched' \/ loc'[e] = loc[e]
           /\ \A e \in Events : e \notin touched' /\ loc[e] = 0 =>
                loc'[e] = 0 \/ loc'[e] = height + 1
           /\ UNCHANGED <<scanVars, streamVars, bootVars, relayVars, pending, errors>>
<1>1. CASE Mine
  BY <1>1 DEF Mine, TypeOK
<1>2. CASE Reorg
  BY <1>2 DEF Reorg, TypeOK
<1> QED BY <1>1, <1>2 DEF Chain

\* A step of the chain keeps an event alive, or touches it.
LEMMA AliveChain ==
    ASSUME TypeOK, Chain, NEW e \in Events, Alive(e)
    PROVE  Alive(e)'
BY ChainKeepsUntouched DEF Alive

\* Whether an event is alive depends on the chain only.
LEMMA AliveStutter ==
    ASSUME UNCHANGED chainVars, NEW e
    PROVE  Alive(e)' = Alive(e)
BY DEF Alive, chainVars

\* Every element of the lists has its type.
LEMMA Elements ==
    ASSUME TypeOK
    PROVE  /\ \A i \in DOMAIN pending : pending[i] \in PendingEvent
           /\ \A i \in DOMAIN channel : channel[i] \in Message
           /\ \A e \in inbox.logs : e \in Events
<1>1. \A i \in DOMAIN pending : pending[i] \in PendingEvent
  BY LenProperties, ElementOfSeq DEF TypeOK
<1>2. \A i \in DOMAIN channel : channel[i] \in Message
  BY LenProperties, ElementOfSeq DEF TypeOK
<1>3. \A e \in inbox.logs : e \in Events
  BY DEF TypeOK, Message
<1> QED BY <1>1, <1>2, <1>3

\* Where neither the chain nor the list, the channel and the inbox change, what
\* was alive is alive.
LEMMA ListAliveStutter ==
    ASSUME ListAlive, UNCHANGED chainVars, pending' = pending
    PROVE  ListAlive'
BY AliveStutter DEF ListAlive, EntryAlive, chainVars

\* Steps that change neither the chain nor the stream.
LEMMA StreamAliveStutter ==
    ASSUME ChannelAlive, InboxAlive, UNCHANGED chainVars,
           channel' = channel, inbox' = inbox
    PROVE  ChannelAlive' /\ InboxAlive'
BY AliveStutter DEF ChannelAlive, InboxAlive

\* Steps that change neither the chain nor the scan.
LEMMA TxFreshStutter ==
    ASSUME TypeOK, TxFresh, UNCHANGED chainVars, UNCHANGED scanVars,
           \A i \in todo : pending'[i] = pending[i]
    PROVE  TxFresh'
BY DEF TxFresh, chainVars, scanVars, AtIndex

\* The scan is at one index at a time.
LEMMA FirstIndexUnique ==
    ASSUME TypeOK, NEW i \in todo, NEW j \in todo, AtIndex(i), AtIndex(j)
    PROVE  i = j
<1>1. todo \subseteq DOMAIN pending /\ DOMAIN pending \subseteq Nat
  BY LenProperties DEF TypeOK
<1>2. i \in Nat /\ j \in Nat /\ i <= j /\ j <= i
  BY <1>1 DEF AtIndex
<1> QED BY <1>2

\* Arithmetic used for waiting_block.
LEMMA NatLeqTrans ==
    ASSUME NEW a \in Nat, NEW b \in Nat, NEW c \in Nat, b <= c, a <= b + 1
    PROVE  a <= c + 1
OBVIOUS

\* Chain steps.
LEMMA DropChain ==
    ASSUME TypeOK, DropInv, Chain
    PROVE  DropInv'
<1> USE DEF DropInv
<1>1. UNCHANGED <<scanVars, streamVars, bootVars, relayVars, pending, errors>>
  BY ChainKeepsUntouched
<1>2. ChannelAlive' /\ InboxAlive'
  BY <1>1, Elements, AliveChain DEF ChannelAlive, InboxAlive, Message, streamVars
<1>3. ListAlive'
  BY <1>1, Elements, AliveChain, ChainKeepsUntouched
  DEF ListAlive, EntryAlive, PendingEvent
<1>4. TxFresh'
  <2>1. UNCHANGED <<latest, todo, removals, txBlock, pending>>
    BY <1>1 DEF scanVars
  <2>2. ASSUME NEW i \in todo, AtIndex(i), txBlock # 0
        PROVE  pending[i].ev \in touched' \/ txBlock = loc'[pending[i].ev]
    <3>1. pending[i].ev \in Events
      BY Elements DEF TypeOK, PendingEvent
    <3> QED BY <2>2, <3>1, ChainKeepsUntouched DEF TxFresh
  <2> QED BY <2>1, <2>2 DEF TxFresh, AtIndex
<1>5. WaitingBound'
  <2>1. UNCHANGED <<stage, waiting>>
    BY <1>1 DEF streamVars, bootVars
  <2>2. height <= height' /\ height' \in Nat
    BY ChainKeepsUntouched, StepType, Zenon DEF Next, TypeOK
  <2>3. waiting \in Nat /\ height \in Nat
    BY DEF TypeOK
  <2>4. waiting <= height + 1 => waiting <= height' + 1
    BY <2>2, <2>3, NatLeqTrans, Zenon
  <2> QED BY <2>1, <2>4 DEF WaitingBound
<1>6. DroppedOnlyIfReorged'
  BY <1>1, ChainKeepsUntouched DEF DroppedOnlyIfReorged, relayVars
<1> QED BY <1>2, <1>3, <1>4, <1>5, <1>6

\* The EventManager publishes only events it found in a block.
LEMMA DropPublish ==
    ASSUME TypeOK, DropInv, process_new_block
    PROVE  DropInv'
<1> USE DEF DropInv
<1> DEFINE msg == [block |-> waiting, logs |-> LogsOfBatch]
<1>1. UNCHANGED <<inbox, chainVars, scanVars, bootVars, relayVars, pending>>
  BY DEF process_new_block
<1>2. waiting # 0 /\ BatchEnd <= height /\ waiting' = BatchEnd + 1
  BY DEF process_new_block, WaitingBound, is_batch_ready, TypeOK, BatchEnd
<1>3. msg \in Message /\ \A e \in msg.logs : Alive(e)
  BY <1>2 DEF Message, LogsOfBatch, Alive, TypeOK
<1>4. ChannelAlive'
  <2>1. CASE LogsOfBatch = {}
    BY <1>1, <2>1, StreamAliveStutter DEF process_new_block
  <2>2. CASE LogsOfBatch # {} /\ Len(channel) < ChannelCapacity
    <3>1. channel' = Append(channel, msg)
      BY <2>2 DEF process_new_block, Broadcast
    <3> HIDE DEF msg
    <3>2. /\ Len(channel') = Len(channel) + 1 /\ channel' \in Seq(Message)
          /\ \A i \in 1 .. Len(channel) : channel'[i] = channel[i]
          /\ channel'[Len(channel) + 1] = msg
      BY <1>3, <3>1, AppendProperties DEF TypeOK
    <3>3. /\ DOMAIN channel = 1 .. Len(channel) /\ Len(channel) \in Nat
          /\ DOMAIN channel' = 1 .. Len(channel) + 1
      BY <3>2, LenProperties DEF TypeOK
    <3>4. \A i \in DOMAIN channel' : \A e \in channel'[i].logs : Alive(e)
      BY <1>3, <3>2, <3>3 DEF ChannelAlive
    <3> QED BY <1>1, <3>4, AliveStutter DEF ChannelAlive
  <2>3. CASE LogsOfBatch # {} /\ ~(Len(channel) < ChannelCapacity)
    <3>1. channel' = Append(Tail(channel), msg)
      BY <2>3 DEF process_new_block, Broadcast
    <3>2. channel # <<>>
      BY <2>3, EmptySeq, ConstantsAssumption DEF TypeOK
    <3> HIDE DEF msg
    <3>3. /\ Tail(channel) \in Seq(Message) /\ Len(Tail(channel)) = Len(channel) - 1
          /\ \A i \in 1 .. Len(Tail(channel)) : Tail(channel)[i] = channel[i + 1]
      BY <3>2, HeadTailProperties DEF TypeOK
    <3>4. /\ Len(channel') = Len(channel) /\ channel' \in Seq(Message)
          /\ \A i \in 1 .. Len(channel) - 1 : channel'[i] = channel[i + 1]
          /\ channel'[Len(channel)] = msg
      <4>1. Len(channel) \in Nat
        BY LenProperties DEF TypeOK
      <4>2. /\ channel' \in Seq(Message) /\ Len(channel') = Len(Tail(channel)) + 1
            /\ \A i \in 1 .. Len(Tail(channel)) : channel'[i] = Tail(channel)[i]
            /\ channel'[Len(Tail(channel)) + 1] = msg
        BY <1>3, <3>1, <3>3, AppendProperties
      <4> QED BY <3>3, <4>1, <4>2
    <3>5. /\ DOMAIN channel = 1 .. Len(channel) /\ Len(channel) \in Nat
          /\ DOMAIN channel' = 1 .. Len(channel)
      BY <3>4, LenProperties DEF TypeOK
    <3>6. \A i \in DOMAIN channel' : \A e \in channel'[i].logs : Alive(e)
      <4> SUFFICES ASSUME NEW i \in 1 .. Len(channel), NEW e \in channel'[i].logs
                   PROVE  Alive(e)
        BY <3>5
      <4>1. CASE i = Len(channel)
        BY <1>3, <3>4, <4>1
      <4>2. CASE i # Len(channel)
        <5>1. channel'[i] = channel[i + 1] /\ i + 1 \in DOMAIN channel
          BY <3>4, <3>5, <4>2
        <5> QED BY <5>1 DEF ChannelAlive
      <4> QED BY <4>1, <4>2
    <3> QED BY <1>1, <3>6, AliveStutter DEF ChannelAlive
  <2> QED BY <2>1, <2>2, <2>3
<1>5. InboxAlive' /\ ListAlive'
  BY <1>1, AliveStutter, ListAliveStutter DEF InboxAlive
<1>6. TxFresh'
  BY <1>1, TxFreshStutter
<1>7. WaitingBound'
  <2>1. BatchEnd \in Nat /\ height \in Nat
    BY ConstantsAssumption DEF BatchEnd, TypeOK
  <2>2. waiting' # 0 /\ waiting' <= height + 1
    BY <1>2, <2>1
  <2> QED BY <1>1, <2>2 DEF WaitingBound, chainVars
<1>8. DroppedOnlyIfReorged'
  BY <1>1 DEF DroppedOnlyIfReorged, chainVars, relayVars
<1> QED BY <1>4, <1>5, <1>6, <1>7, <1>8

\* From the channel to the list.
LEMMA DropStream ==
    ASSUME TypeOK, DropInv, Stream
    PROVE  DropInv'
<1> USE DEF DropInv
<1>1. UNCHANGED <<chainVars, scanVars, bootVars, waiting, dropped>>
  BY Zenon DEF Stream, ReceiveLagged, Receive, HandleLog, relayVars
<1>2. WaitingBound' /\ DroppedOnlyIfReorged'
  BY <1>1 DEF WaitingBound, DroppedOnlyIfReorged, chainVars, bootVars
<1>3. CASE ReceiveLagged
  BY <1>1, <1>2, <1>3, StreamAliveStutter, ListAliveStutter, TxFreshStutter
  DEF ReceiveLagged
<1>4. CASE Receive
  <2>1. inbox' = Head(channel) /\ channel' = Tail(channel) /\ pending' = pending
        /\ channel # <<>>
    BY <1>4 DEF Receive
  <2>2. /\ channel' \in Seq(Message) /\ Len(channel') = Len(channel) - 1
        /\ \A i \in 1 .. Len(channel') : channel'[i] = channel[i + 1]
    BY <2>1, HeadTailProperties DEF TypeOK
  <2>3. /\ DOMAIN channel = 1 .. Len(channel) /\ Len(channel) \in Nat
        /\ DOMAIN channel' = 1 .. Len(channel')
    BY <2>2, LenProperties DEF TypeOK
  <2>4. Len(channel) # 0
    BY <2>1, EmptySeq DEF TypeOK
  <2>5. Head(channel) = channel[1]
    BY <2>1 DEF TypeOK
  <2>6. /\ \A i \in DOMAIN channel' : \A e \in channel'[i].logs : Alive(e)
        /\ \A e \in inbox'.logs : Alive(e)
    BY <2>1, <2>2, <2>3, <2>4, <2>5 DEF ChannelAlive
  <2>7. ChannelAlive' /\ InboxAlive'
    BY <1>1, <2>6, AliveStutter DEF ChannelAlive, InboxAlive
  <2> QED BY <1>1, <1>2, <2>1, <2>7, ListAliveStutter, TxFreshStutter
<1>5. CASE HandleLog
  <2> PICK e \in inbox.logs : HandleLog!(e)
    BY <1>5, Zenon DEF HandleLog
  <2>1. ChannelAlive' /\ InboxAlive'
    <3>1. channel' = channel /\ inbox'.logs \subseteq inbox.logs
      BY DEF TypeOK, Message
    <3> QED BY <1>1, <3>1, AliveStutter DEF ChannelAlive, InboxAlive
  <2>2. CASE e \in Immediate
    BY <1>1, <1>2, <2>1, <2>2, ListAliveStutter, TxFreshStutter
  <2>3. CASE e \notin Immediate
    <3> DEFINE p == [ev |-> e, block |-> inbox.block, absent |-> 0]
    <3>1. p \in PendingEvent /\ p.ev = e /\ p.absent = 0
      BY Elements DEF TypeOK, PendingEvent, Message
    <3>2. EntryAlive(p)
      BY <3>1 DEF EntryAlive, InboxAlive
    <3>3. pending' = Append(pending, p)
      BY <2>3
    <3> HIDE DEF p
    <3>4. /\ DOMAIN pending' = DOMAIN pending \cup {Len(pending) + 1}
          /\ \A i \in DOMAIN pending : pending'[i] = pending[i]
          /\ pending'[Len(pending) + 1] = p
      BY <3>1, <3>3, PushEntry DEF TypeOK
    <3>5. \A i \in DOMAIN pending' : EntryAlive(pending'[i])
      BY <3>2, <3>4 DEF ListAlive
    <3>6. ListAlive'
      BY <1>1, <3>5, AliveStutter DEF ListAlive, EntryAlive, chainVars
    <3>7. TxFresh'
      BY <1>1, <3>4, TxFreshStutter DEF TypeOK
    <3> QED BY <1>2, <2>1, <3>6, <3>7
  <2> QED BY <2>2, <2>3
<1> QED BY <1>3, <1>4, <1>5 DEF Stream

\* What verify_event_on_chain finds: an entry that was not moved is in the block
\* the first RPC reported, so its counter never rises.
LEMMA AbsentMoved ==
    ASSUME TypeOK, DropInv, NEW i \in todo, AtIndex(i), Absent(i),
           \/ loc[pending[i].ev] = 0
           \/ txBlock # 0 /\ loc[pending[i].ev] # txBlock
    PROVE  /\ pending[i].ev \in touched
           /\ dropped' \subseteq touched
           /\ \A j \in DOMAIN pending : EntryAlive(pending'[j])
<1>1. i \in DOMAIN pending /\ pending[i] \in PendingEvent
  BY Elements DEF TypeOK
<1>2. pending[i].ev \in touched
  BY <1>1 DEF DropInv, ListAlive, EntryAlive, Alive, TxFresh
<1>3. CASE pending[i].absent + 1 >= MAX_ABSENT_CHECKS
  BY <1>2, <1>3 DEF Absent, DropInv, DroppedOnlyIfReorged, ListAlive
<1>4. CASE ~(pending[i].absent + 1 >= MAX_ABSENT_CHECKS)
  <2>1. pending' = [pending EXCEPT ![i].absent = @ + 1] /\ dropped' = dropped
    BY <1>4 DEF Absent
  <2>2. \A j \in DOMAIN pending : j # i => pending'[j] = pending[j]
    BY <2>1 DEF TypeOK
  <2>3. pending'[i].ev = pending[i].ev
    BY <1>1, <2>1 DEF PendingEvent
  <2>4. EntryAlive(pending'[i])
    BY <1>2, <2>3 DEF EntryAlive, Alive
  <2> QED
    BY <1>2, <2>1, <2>2, <2>4 DEF DropInv, ListAlive, DroppedOnlyIfReorged
<1> QED BY <1>2, <1>3, <1>4

\* An entry that was found refers to the block its event is in.
LEMMA FoundAlive ==
    ASSUME TypeOK, DropInv, NEW i \in todo, Found(i, txBlock)
    PROVE  \A j \in DOMAIN pending : EntryAlive(pending'[j])
<1>1. i \in DOMAIN pending /\ pending[i] \in PendingEvent
  BY Elements DEF TypeOK
<1>2. CASE txBlock = pending[i].block
  BY <1>2 DEF Found, DropInv, ListAlive
<1>3. CASE txBlock # pending[i].block
  <2>1. pending' = [pending EXCEPT ![i].block = txBlock, ![i].absent = 0]
    BY <1>3 DEF Found
  <2>2. \A j \in DOMAIN pending : j # i => pending'[j] = pending[j]
    BY <2>1 DEF TypeOK
  <2>3. pending'[i].ev = pending[i].ev /\ pending'[i].absent = 0
    BY <1>1, <2>1, Zenon DEF PendingEvent
  <2> QED BY <1>1, <2>2, <2>3 DEF DropInv, ListAlive, EntryAlive
<1> QED BY <1>2, <1>3

\* The scan: an entry counts as absent only if its event was moved.
LEMMA DropScan ==
    ASSUME TypeOK, TypeOK', DropInv, Scan
    PROVE  DropInv'
<1> USE DEF DropInv
<1>1. UNCHANGED <<chainVars, streamVars, bootVars>>
  BY Zenon DEF Scan, StartScan, VerifyTransaction, VerifyLogs, VerifyError, Remove, EndScan
<1>2. ChannelAlive' /\ InboxAlive' /\ WaitingBound'
  BY <1>1, StreamAliveStutter DEF WaitingBound, chainVars, streamVars, bootVars
<1>3. CASE StartScan
  <2>1. pending' = pending /\ dropped' = dropped /\ latest = 0 /\ txBlock' = txBlock
        /\ removals' = removals /\ latest' = height /\ todo' # {}
    BY <1>3 DEF StartScan, Idle, relayVars
  <2>2. txBlock' = 0
    BY <2>1 DEF TxFresh
  <2>3. latest' # 0
    <3>1. PICK i \in DOMAIN pending : HasConfirmations(pending[i])
      BY <1>3 DEF StartScan
    <3>2. pending[i].block \in Nat
      BY Elements DEF PendingEvent
    <3> QED
      BY <2>1, <3>1, <3>2, ConstantsAssumption
      DEF HasConfirmations, BlockConfirmations, TypeOK
  <2>4. TxFresh'
    BY <2>1, <2>2, <2>3 DEF TxFresh
  <2> QED
    BY <1>1, <1>2, <2>1, <2>4, ListAliveStutter DEF DroppedOnlyIfReorged, chainVars
<1>4. CASE VerifyTransaction
  <2> PICK i \in todo : VerifyTransaction!(i)
    BY <1>4, Zenon DEF VerifyTransaction
  <2>1. CASE loc[pending[i].ev] # 0
    <3>1. txBlock' = loc[pending[i].ev] /\ pending' = pending /\ dropped' = dropped
          /\ todo' = todo /\ removals' = removals /\ latest' = latest
      BY <2>1
    <3>2. \A j \in todo : AtIndex(j) => j = i
      BY FirstIndexUnique
    <3>3. TxFresh'
      BY <1>1, <3>1, <3>2 DEF TxFresh, AtIndex, chainVars
    <3> QED
      BY <1>1, <1>2, <3>1, <3>3, ListAliveStutter DEF DroppedOnlyIfReorged, chainVars
  <2>2. CASE loc[pending[i].ev] = 0
    <3>1. Absent(i) /\ todo' = todo \ {i} /\ txBlock' = 0 /\ latest' = latest
      BY <2>2, Zenon
    <3>2. dropped' \subseteq touched /\ \A j \in DOMAIN pending : EntryAlive(pending'[j])
      BY <2>2, <3>1, AbsentMoved
    <3>3. DOMAIN pending' = DOMAIN pending
      BY <3>1, AbsentType
    <3>4. latest # 0
      BY DEF TxFresh
    <3>5. ListAlive'
      BY <1>1, <3>2, <3>3, AliveStutter DEF ListAlive, EntryAlive, chainVars
    <3>6. TxFresh'
      BY <3>1, <3>4 DEF TxFresh
    <3> QED BY <1>1, <1>2, <3>2, <3>5, <3>6, Zenon DEF DroppedOnlyIfReorged, chainVars
  <2> QED BY <2>1, <2>2, Zenon
<1>5. CASE VerifyLogs
  <2> PICK i \in todo : VerifyLogs!(i)
    BY <1>5 DEF VerifyLogs
  <2>1. todo' = todo \ {i} /\ txBlock' = 0 /\ latest' = latest /\ latest # 0
    BY DEF TxFresh
  <2>2. TxFresh'
    BY <2>1 DEF TxFresh
  <2>3. /\ dropped' \subseteq touched
        /\ DOMAIN pending' = DOMAIN pending
        /\ \A j \in DOMAIN pending : EntryAlive(pending'[j])
    <3>1. CASE loc[pending[i].ev] = txBlock
      BY <3>1, FoundAlive, FoundType DEF DroppedOnlyIfReorged
    <3>2. CASE loc[pending[i].ev] # txBlock
      BY <3>2, AbsentMoved, AbsentType
    <3> QED BY <3>1, <3>2, Zenon
  <2>4. ListAlive'
    BY <1>1, <2>3, AliveStutter DEF ListAlive, EntryAlive, chainVars
  <2> QED BY <1>1, <1>2, <2>2, <2>3, <2>4 DEF DroppedOnlyIfReorged, chainVars
<1>6. CASE VerifyError
  <2>1. PICK i \in todo : VerifyError!(i)
    BY <1>6 DEF VerifyError
  <2>2. TxFresh'
    BY <2>1 DEF TxFresh
  <2> QED
    BY <1>1, <1>2, <2>1, <2>2, ListAliveStutter
    DEF DroppedOnlyIfReorged, chainVars, relayVars
<1>7. CASE Remove
  <2>1. PICK i \in removals :
          /\ RemoveFirst(i)
          /\ pending' = IF i <= Len(pending) THEN RemoveAt(pending, i) ELSE pending
          /\ removals' = removals \ {i}
    BY <1>7 DEF Remove
  <2>2. i \in 1 .. Len(pending) /\ DOMAIN pending = 1 .. Len(pending)
        /\ Len(pending) \in Nat
    BY <2>1, LenProperties DEF TypeOK
  <2>3. pending' = RemoveAt(pending, i)
    BY <2>1, <2>2
  <2>4. /\ pending' \in Seq(PendingEvent) /\ Len(pending') = Len(pending) - 1
        /\ \A k \in 1 .. Len(pending) - 1 :
             pending'[k] = IF k < i THEN pending[k] ELSE pending[k + 1]
    BY <2>2, <2>3, RemoveAtFacts, Zenon DEF TypeOK
  <2>5. DOMAIN pending' = 1 .. Len(pending) - 1
    BY <2>4, LenProperties
  <2>6. \A k \in DOMAIN pending' : EntryAlive(pending'[k])
    BY <2>2, <2>4, <2>5 DEF ListAlive
  <2>7. ListAlive'
    BY <1>1, <2>6, AliveStutter DEF ListAlive, EntryAlive, chainVars
  <2>8. todo = {} /\ todo' = {} /\ txBlock' = txBlock /\ latest' = latest
        /\ dropped' = dropped
    BY <1>7 DEF Remove, relayVars
  <2>9. TxFresh'
    BY <2>1, <2>8 DEF TxFresh
  <2> QED BY <1>1, <1>2, <2>7, <2>8, <2>9 DEF DroppedOnlyIfReorged, chainVars
<1>8. CASE EndScan
  <2>1. TxFresh'
    BY <1>8 DEF EndScan, TxFresh
  <2> QED
    BY <1>1, <1>2, <1>8, <2>1, ListAliveStutter
    DEF EndScan, DroppedOnlyIfReorged, chainVars, relayVars
<1> QED BY <1>3, <1>4, <1>5, <1>6, <1>7, <1>8 DEF Scan

\* Starting the process touches neither the channel nor the list.
LEMMA DropBoot ==
    ASSUME TypeOK, DropInv, Boot
    PROVE  DropInv'
<1> USE DEF DropInv
<1>1. /\ UNCHANGED <<chainVars, scanVars, pending, channel, inbox, dropped>>
      /\ stage = "down" => waiting' = height + 1
      /\ stage # "down" => waiting' = waiting
  BY Zenon DEF Boot, Initialize, FetchBootstrapLogs, ProcessBootstrapLog, BootstrapError,
         BootstrapDone, streamVars, relayVars
<1>2. WaitingBound'
  BY <1>1 DEF WaitingBound, chainVars, TypeOK
<1> QED
  BY <1>1, <1>2, StreamAliveStutter, ListAliveStutter, TxFreshStutter
  DEF DroppedOnlyIfReorged, chainVars

\* A crash empties the channel and the list.
LEMMA DropCrash ==
    ASSUME TypeOK, DropInv, Crash
    PROVE  DropInv'
<1>1. /\ channel' = <<>> /\ inbox' = NoMessage /\ pending' = <<>>
      /\ stage' = "down" /\ latest' = 0 /\ todo' = {} /\ txBlock' = 0 /\ removals' = {}
      /\ UNCHANGED <<dropped, touched>>
  BY DEF Crash, relayVars, chainVars
<1>0. DOMAIN channel' = {} /\ DOMAIN pending' = {}
  BY <1>1
<1>2. ChannelAlive'
  BY <1>0 DEF ChannelAlive
<1>3. InboxAlive'
  BY <1>1 DEF InboxAlive, NoMessage
<1>4. ListAlive'
  BY <1>0 DEF ListAlive
<1>5. TxFresh' /\ WaitingBound'
  BY <1>1 DEF TxFresh, WaitingBound
<1>6. DroppedOnlyIfReorged'
  BY <1>1 DEF DropInv, DroppedOnlyIfReorged
<1> QED BY <1>2, <1>3, <1>4, <1>5, <1>6 DEF DropInv

\* Every step keeps DropInv.
LEMMA StepDrop == TypeOK /\ TypeOK' /\ DropInv /\ [Next]_vars => DropInv'
<1> SUFFICES ASSUME TypeOK, TypeOK', DropInv, [Next]_vars PROVE DropInv'
  OBVIOUS
<1>1. CASE UNCHANGED vars
  <2>1. UNCHANGED <<chainVars, scanVars, streamVars, bootVars, relayVars, pending>>
    BY <1>1 DEF vars
  <2> QED
    BY <2>1, StreamAliveStutter, ListAliveStutter, TxFreshStutter
    DEF DropInv, WaitingBound, DroppedOnlyIfReorged, streamVars, bootVars, relayVars,
        chainVars
<1> QED
  BY <1>1, DropChain, DropPublish, DropStream, DropScan, DropBoot, DropCrash DEF Next

\* The initial states satisfy DropInv.
LEMMA InitDrop == Init => DropInv
<1> SUFFICES ASSUME Init PROVE DropInv
  OBVIOUS
<1>1. DOMAIN channel = {} /\ DOMAIN pending = {} /\ inbox.logs = {} /\ todo = {}
  BY DEF Init, NoMessage
<1>2. ChannelAlive /\ InboxAlive /\ ListAlive
  BY <1>1 DEF ChannelAlive, InboxAlive, ListAlive
<1>3. TxFresh /\ WaitingBound /\ DroppedOnlyIfReorged
  BY DEF Init, TxFresh, WaitingBound, DroppedOnlyIfReorged
<1> QED BY <1>2, <1>3 DEF DropInv

\* absent_checks counts only checks of an event that really left its block: no
\* RPC error, no batch and no interleaving of the two RPCs with the chain makes
\* the handler drop an event that no reorganisation moved.
THEOREM DropsAreReorgs == Spec => []DroppedOnlyIfReorged
<1>1. DropInv => DroppedOnlyIfReorged
  BY DEF DropInv
<1> QED BY <1>1, InitDrop, StepDrop, TypeCorrect, PTL DEF Spec

---------------------------------------------------------------------------
(* Nothing is missed.  The invariant speaks of one event at a time: where  *)
(* it is, and that the blocks this run of the process has covered end      *)
(* below waiting_block.  First the facts about the lists it may be in.     *)

Carries(c, e) == \E i \in DOMAIN c : e \in c[i].logs

CarriesOnce(c, e) == \A i, j \in DOMAIN c : e \in c[i].logs /\ e \in c[j].logs => i = j

Lists(s, e) == \E i \in DOMAIN s : s[i].ev = e

ListsOnce(s, e) == \A i, j \in DOMAIN s : s[i].ev = e /\ s[j].ev = e => i = j

\* A message is sent on the channel.
LEMMA AppendCarries ==
    ASSUME NEW c \in Seq(Message), NEW m \in Message, NEW e
    PROVE  /\ Carries(Append(c, m), e) <=> Carries(c, e) \/ e \in m.logs
           /\ CarriesOnce(c, e) /\ ~(Carries(c, e) /\ e \in m.logs)
              => CarriesOnce(Append(c, m), e)
<1> DEFINE n == Len(c)
           a == Append(c, m)
<1>1. n \in Nat /\ DOMAIN c = 1 .. n /\ DOMAIN a = 1 .. n + 1
  BY AppendProperties, LenProperties
<1>2. (\A i \in 1 .. n : a[i] = c[i]) /\ a[n + 1] = m
  BY AppendProperties
<1>3. \A i \in 1 .. n + 1 : i \in 1 .. n \/ i = n + 1
  BY <1>1
<1>4. n + 1 \in 1 .. n + 1 /\ \A i \in 1 .. n : i \in 1 .. n + 1
  BY <1>1
<1> HIDE DEF n, a
<1>5. Carries(a, e) <=> Carries(c, e) \/ e \in m.logs
  BY <1>1, <1>2, <1>3, <1>4 DEF Carries
<1>6. ASSUME CarriesOnce(c, e), ~(Carries(c, e) /\ e \in m.logs),
             NEW i \in 1 .. n + 1, NEW j \in 1 .. n + 1, e \in a[i].logs, e \in a[j].logs
      PROVE  i = j
  <2>1. CASE i \in 1 .. n /\ j \in 1 .. n
    BY <1>1, <1>2, <1>6, <2>1 DEF CarriesOnce
  <2>2. CASE i = n + 1 \/ j = n + 1
    BY <1>1, <1>2, <1>3, <1>6, <2>2 DEF Carries
  <2> QED BY <1>3, <2>1, <2>2
<1>7. CarriesOnce(c, e) /\ ~(Carries(c, e) /\ e \in m.logs) => CarriesOnce(a, e)
  BY <1>1, <1>6, Zenon DEF CarriesOnce
<1> QED BY <1>5, <1>7 DEF a

\* A message leaves the channel.
LEMMA TailCarries ==
    ASSUME NEW c \in Seq(Message), c # <<>>, NEW e
    PROVE  /\ Tail(c) \in Seq(Message) /\ Head(c) \in Message
           /\ Carries(c, e) <=> e \in Head(c).logs \/ Carries(Tail(c), e)
           /\ CarriesOnce(c, e) => CarriesOnce(Tail(c), e)
                                   /\ ~(e \in Head(c).logs /\ Carries(Tail(c), e))
<1> DEFINE n == Len(c)
           t == Tail(c)
<1>1. t \in Seq(Message) /\ Head(c) \in Message /\ Head(c) = c[1]
  BY HeadTailProperties
<1>2. n \in Nat /\ n >= 1 /\ DOMAIN c = 1 .. n /\ DOMAIN t = 1 .. n - 1
  BY HeadTailProperties, LenProperties, EmptySeq
<1>3. \A i \in 1 .. n - 1 : t[i] = c[i + 1]
  BY HeadTailProperties
<1>4. /\ \A i \in 1 .. n - 1 : i + 1 \in 1 .. n /\ i + 1 # 1
      /\ \A i, j \in 1 .. n - 1 : i + 1 = j + 1 => i = j
      /\ \A i \in 1 .. n : i = 1 \/ \E j \in 1 .. n - 1 : i = j + 1
      /\ 1 \in 1 .. n
  <2>1. ASSUME NEW i \in 1 .. n, i # 1 PROVE \E j \in 1 .. n - 1 : i = j + 1
    <3>1. i - 1 \in 1 .. n - 1 /\ i = (i - 1) + 1
      BY <1>2, <2>1
    <3> QED BY <3>1
  <2> QED BY <1>2, <2>1
<1> HIDE DEF n, t
<1>5. Carries(c, e) <=> e \in Head(c).logs \/ Carries(t, e)
  <2>1. ASSUME NEW i \in 1 .. n, e \in c[i].logs
        PROVE  e \in Head(c).logs \/ Carries(t, e)
    <3>1. CASE i = 1
      BY <1>1, <2>1, <3>1, Zenon
    <3>2. ASSUME NEW j \in 1 .. n - 1, i = j + 1 PROVE Carries(t, e)
      <4>1. e \in t[j].logs
        BY <1>3, <2>1, <3>2, Zenon
      <4> QED BY <1>2, <4>1, Zenon DEF Carries
    <3> QED BY <1>4, <3>1, <3>2, Zenon
  <2>2. ASSUME NEW j \in 1 .. n - 1, e \in t[j].logs PROVE Carries(c, e)
    <3>1. j + 1 \in 1 .. n /\ e \in c[j + 1].logs
      BY <1>3, <1>4, <2>2, Zenon
    <3> QED BY <1>2, <3>1, Zenon DEF Carries
  <2>3. e \in Head(c).logs => Carries(c, e)
    BY <1>1, <1>2, <1>4, Zenon DEF Carries
  <2> QED BY <1>2, <2>1, <2>2, <2>3, Zenon DEF Carries
<1>6. ASSUME CarriesOnce(c, e) PROVE CarriesOnce(t, e)
  <2>1. ASSUME NEW i \in 1 .. n - 1, NEW j \in 1 .. n - 1, e \in t[i].logs, e \in t[j].logs
        PROVE  i = j
    <3>1. /\ i + 1 \in 1 .. n /\ e \in c[i + 1].logs
          /\ j + 1 \in 1 .. n /\ e \in c[j + 1].logs
      BY <1>3, <1>4, <2>1, Zenon
    <3>2. i + 1 = j + 1
      BY <1>2, <1>6, <3>1, Zenon DEF CarriesOnce
    <3> QED BY <1>4, <3>2, Zenon
  <2> QED BY <1>2, <2>1, Zenon DEF CarriesOnce
<1>7. ASSUME CarriesOnce(c, e), e \in Head(c).logs, NEW j \in 1 .. n - 1, e \in t[j].logs
      PROVE  FALSE
  <2>1. e \in c[1].logs /\ j + 1 \in 1 .. n /\ e \in c[j + 1].logs
    BY <1>1, <1>3, <1>4, <1>7, Zenon
  <2>2. j + 1 = 1
    BY <1>2, <1>4, <1>7, <2>1, Zenon DEF CarriesOnce
  <2> QED BY <1>4, <2>2, Zenon
<1>8. CarriesOnce(c, e) => ~(e \in Head(c).logs /\ Carries(t, e))
  BY <1>2, <1>7, Zenon DEF Carries
<1> QED BY <1>1, <1>5, <1>6, <1>8, Zenon DEF t

\* An entry is pushed to pending_events.
LEMMA PushLists ==
    ASSUME NEW s \in Seq(PendingEvent), NEW p \in PendingEvent, NEW e
    PROVE  /\ Lists(Append(s, p), e) <=> Lists(s, e) \/ p.ev = e
           /\ ListsOnce(s, e) /\ ~(Lists(s, e) /\ p.ev = e) => ListsOnce(Append(s, p), e)
<1> DEFINE n == Len(s) + 1
           a == Append(s, p)
<1>1. DOMAIN a = DOMAIN s \cup {n} /\ (\A i \in DOMAIN s : a[i] = s[i]) /\ a[n] = p
  BY PushEntry
<1> HIDE DEF n, a
<1>2. Lists(a, e) <=> Lists(s, e) \/ p.ev = e
  BY <1>1 DEF Lists
<1>3. ListsOnce(s, e) /\ ~(Lists(s, e) /\ p.ev = e) => ListsOnce(a, e)
  BY <1>1 DEF Lists, ListsOnce
<1> QED BY <1>2, <1>3 DEF a

\* An entry is removed from it.
LEMMA RemoveLists ==
    ASSUME NEW s \in Seq(PendingEvent), NEW i \in DOMAIN s, NEW e
    PROVE  /\ Lists(RemoveAt(s, i), e) => Lists(s, e)
           /\ Lists(s, e) => s[i].ev = e \/ Lists(RemoveAt(s, i), e)
           /\ ListsOnce(s, e) => ListsOnce(RemoveAt(s, i), e)
           /\ ListsOnce(s, e) /\ s[i].ev = e => ~Lists(RemoveAt(s, i), e)
<1> DEFINE n == Len(s)
           r == RemoveAt(s, i)
           From(k) == IF k < i THEN k ELSE k + 1
<1>1. n \in Nat /\ DOMAIN s = 1 .. n /\ i \in 1 .. n
  BY LenProperties
<1>2. /\ r \in Seq(PendingEvent) /\ Len(r) = n - 1
      /\ \A k \in 1 .. n - 1 : r[k] = IF k < i THEN s[k] ELSE s[k + 1]
  BY <1>1, RemoveAtFacts, Zenon
<1>3. DOMAIN r = 1 .. n - 1
  BY <1>2, LenProperties
<1>4. \A k \in 1 .. n - 1 : r[k] = s[From(k)]
  BY <1>2
<1>5. /\ \A k \in 1 .. n - 1 : From(k) \in 1 .. n /\ From(k) # i
      /\ \A k, l \in 1 .. n - 1 : From(k) = From(l) => k = l
  BY <1>1
<1>6. ASSUME NEW j \in 1 .. n, j # i PROVE \E k \in 1 .. n - 1 : From(k) = j
  <2>1. CASE j < i
    <3>1. j \in 1 .. n - 1 /\ From(j) = j
      BY <1>1, <2>1
    <3> QED BY <3>1
  <2>2. CASE j > i
    <3>1. j - 1 \in 1 .. n - 1 /\ From(j - 1) = j
      BY <1>1, <2>2
    <3> QED BY <3>1
  <2> QED BY <1>1, <1>6, <2>1, <2>2
<1> HIDE DEF n, r, From
<1>7. Lists(r, e) => Lists(s, e)
  BY <1>1, <1>3, <1>4, <1>5 DEF Lists
<1>8. Lists(s, e) => s[i].ev = e \/ Lists(r, e)
  <2>1. ASSUME NEW j \in 1 .. n, s[j].ev = e, j # i PROVE Lists(r, e)
    <3>1. PICK k \in 1 .. n - 1 : From(k) = j
      BY <1>6, <2>1, Zenon
    <3>2. r[k].ev = e
      BY <1>4, <2>1, <3>1, Zenon
    <3> QED BY <1>3, <3>2, Zenon DEF Lists
  <2> QED BY <1>1, <2>1, Zenon DEF Lists
<1>9. ListsOnce(s, e) => ListsOnce(r, e)
  BY <1>1, <1>3, <1>4, <1>5 DEF ListsOnce
<1>10. ListsOnce(s, e) /\ s[i].ev = e => ~Lists(r, e)
  BY <1>1, <1>3, <1>4, <1>5 DEF Lists, ListsOnce
<1> QED BY <1>7, <1>8, <1>9, <1>10 DEF r

Relayed(e) == <<e, loc[e]>> \in confirmed

\* Where an event may be once its block has been covered.
Covered(e) ==
    \/ e \in bootLogs \/ Carries(channel, e) \/ e \in inbox.logs \/ Lists(pending, e)
    \/ e \in unconfirmed \/ e \in lost \/ Relayed(e)

InWindow(e) == loc[e] # 0 /\ loc[e] >= floor /\ loc[e] < waiting

AllCovered ==
    stage \in {"fetched", "live"} =>
      \A e \in Events : e \notin touched /\ InWindow(e) => Covered(e)

\* An index marked for removal belongs to an entry that was relayed, or moved.
RemovalsDone == \A i \in removals : pending[i].ev \in touched \/ Relayed(pending[i].ev)

MissInv ==
    /\ waiting <= height + 1
    /\ stage # "fetched" => bootLogs = {}
    /\ RemovalsDone
    /\ AllCovered

\* Steps that move no event on the chain and leave the window as it is: it is
\* enough that the events it holds stay covered.
LEMMA CoveredFrame ==
    ASSUME UNCHANGED <<chainVars, waiting, floor, stage>>, AllCovered,
           \A e \in Events : e \notin touched /\ Covered(e) => Covered(e)'
    PROVE  AllCovered'
BY Zenon DEF AllCovered, InWindow, chainVars

\* Chain steps: an event that was not moved and lies in the window was there before.
LEMMA MissChain ==
    ASSUME TypeOK, TypeOK', DropInv, MissInv, Chain
    PROVE  MissInv'
<1>1. UNCHANGED <<scanVars, streamVars, bootVars, relayVars, pending>>
  BY ChainKeepsUntouched
<1>2. UNCHANGED <<waiting, stage, bootLogs, floor, channel, inbox, lost, removals,
                  confirmed, unconfirmed, pending>>
  BY <1>1 DEF scanVars, streamVars, bootVars, relayVars
<1>3. waiting \in Nat /\ height \in Nat /\ height' \in Nat /\ loc \in [Events -> Nat]
      /\ touched \subseteq touched' /\ height <= height' /\ waiting <= height + 1
  BY ChainKeepsUntouched DEF TypeOK, MissInv
<1>4. (waiting <= height + 1)'
  <2>1. waiting' = waiting
    BY <1>2, Zenon
  <2> QED BY <1>3, <2>1, NatLeqTrans
<1>5. ASSUME NEW e \in Events, e \notin touched', loc[e] # 0
      PROVE  loc'[e] = loc[e] /\ e \notin touched
  BY <1>3, <1>5, ChainKeepsUntouched
<1>6. RemovalsDone'
  <2> SUFFICES ASSUME NEW i \in removals, pending[i].ev \notin touched'
               PROVE  <<pending[i].ev, loc'[pending[i].ev]>> \in confirmed
    BY <1>2, Zenon DEF RemovalsDone, Relayed
  <2>1. pending[i].ev \in Events /\ EntryAlive(pending[i])
    BY Elements DEF TypeOK, PendingEvent, DropInv, ListAlive
  <2>2. pending[i].ev \notin touched /\ loc[pending[i].ev] # 0
    BY <1>3, <2>1 DEF EntryAlive, Alive
  <2> QED BY <1>5, <2>1, <2>2 DEF MissInv, RemovalsDone, Relayed
<1>7. AllCovered'
  <2> SUFFICES ASSUME stage \in {"fetched", "live"}, NEW e \in Events,
                      e \notin touched', InWindow(e)'
               PROVE  Covered(e)'
    BY <1>2, Zenon DEF AllCovered
  <2>1. loc[e] # 0
    <3>1. loc'[e] # 0 /\ loc'[e] < waiting
      BY <1>2 DEF InWindow
    <3>2. CASE loc[e] = 0
      <4>1. loc'[e] = height + 1
        BY <3>1, <3>2, ChainKeepsUntouched
      <4> QED BY <1>3, <3>1, <4>1
    <3> QED BY <3>2
  <2>2. loc'[e] = loc[e] /\ e \notin touched
    BY <1>5, <2>1
  <2>3. Covered(e)
    BY <1>2, <2>2, Zenon DEF InWindow, MissInv, AllCovered
  <2> QED BY <1>2, <2>2, <2>3, Zenon DEF Covered, Relayed
<1> QED BY <1>2, <1>4, <1>6, <1>7, Zenon DEF MissInv

\* What a published batch does to the channel, for one event.
LEMMA PublishMoves ==
    ASSUME TypeOK, process_new_block, NEW e \in Events
    PROVE  /\ Carries(channel, e) => Carries(channel', e) \/ e \in lost'
           /\ e \in LogsOfBatch => Carries(channel', e)
           /\ Carries(channel', e) => Carries(channel, e) \/ e \in LogsOfBatch
           /\ CarriesOnce(channel, e) /\ ~(Carries(channel, e) /\ e \in LogsOfBatch)
              => CarriesOnce(channel', e)
           /\ lost \subseteq lost'
<1> DEFINE msg == [block |-> waiting, logs |-> LogsOfBatch]
<1>1. msg \in Message /\ msg.logs = LogsOfBatch /\ channel \in Seq(Message)
  BY DEF Message, LogsOfBatch, TypeOK
<1> HIDE DEF msg
<1>2. CASE LogsOfBatch = {}
  BY <1>2, Zenon DEF process_new_block
<1>3. CASE LogsOfBatch # {} /\ Len(channel) < ChannelCapacity
  <2>1. channel' = Append(channel, msg) /\ lost' = lost
    BY <1>3, Zenon DEF process_new_block, Broadcast, msg
  <2> QED BY <1>1, <2>1, AppendCarries, Zenon
<1>4. CASE LogsOfBatch # {} /\ ~(Len(channel) < ChannelCapacity)
  <2>1. channel' = Append(Tail(channel), msg) /\ lost' = lost \cup Head(channel).logs
    BY <1>4, Zenon DEF process_new_block, Broadcast, msg
  <2>2. channel # <<>>
    BY <1>4, EmptySeq, ConstantsAssumption DEF TypeOK
  <2>3. /\ Tail(channel) \in Seq(Message)
        /\ Carries(channel, e) <=> e \in Head(channel).logs \/ Carries(Tail(channel), e)
        /\ CarriesOnce(channel, e) => CarriesOnce(Tail(channel), e)
    BY <1>1, <2>2, TailCarries, Zenon
  <2>4. /\ Carries(channel', e) <=> Carries(Tail(channel), e) \/ e \in LogsOfBatch
        /\ CarriesOnce(Tail(channel), e) /\ ~(Carries(Tail(channel), e) /\ e \in LogsOfBatch)
           => CarriesOnce(channel', e)
    BY <1>1, <2>1, <2>3, AppendCarries, Zenon
  <2> QED BY <2>1, <2>3, <2>4, Zenon
<1> QED BY <1>2, <1>3, <1>4, Zenon

\* Publishing a batch widens the window by exactly the blocks of the batch.
LEMMA MissPublish ==
    ASSUME TypeOK, MissInv, process_new_block
    PROVE  MissInv'
<1>1. /\ UNCHANGED <<inbox, chainVars, scanVars, bootVars, relayVars, pending>>
      /\ stage = "live" /\ height >= BatchEnd /\ waiting' = BatchEnd + 1
  BY DEF process_new_block, is_batch_ready
<1>2. UNCHANGED <<inbox, height, loc, touched, removals, stage, floor, bootLogs,
                  confirmed, unconfirmed, pending>>
  BY <1>1 DEF chainVars, scanVars, bootVars, relayVars
<1>3. BatchEnd \in Nat /\ waiting \in Nat /\ height \in Nat /\ loc \in [Events -> Nat]
  BY ConstantsAssumption DEF TypeOK, BatchEnd
<1>4. (waiting <= height + 1)'
  BY <1>1, <1>2, <1>3
<1>5. RemovalsDone'
  BY <1>2, Zenon DEF MissInv, RemovalsDone, Relayed
<1>6. AllCovered'
  <2> SUFFICES ASSUME NEW e \in Events, e \notin touched, InWindow(e)'
               PROVE  Covered(e)'
    BY <1>2, Zenon DEF AllCovered
  <2>1. CASE loc[e] < waiting
    <3>1. Covered(e)
      BY <1>1, <1>2, <2>1 DEF MissInv, AllCovered, InWindow
    <3> QED BY <1>2, <3>1, PublishMoves, Zenon DEF Covered, Relayed
  <2>2. CASE ~(loc[e] < waiting)
    <3>1. loc[e] \in waiting .. BatchEnd
      BY <1>1, <1>2, <1>3, <2>2 DEF InWindow
    <3>2. Carries(channel', e)
      BY <3>1, PublishMoves, Zenon DEF LogsOfBatch
    <3> QED BY <3>2, Zenon DEF Covered
  <2> QED BY <2>1, <2>2
<1> QED BY <1>2, <1>4, <1>5, <1>6, Zenon DEF MissInv

\* From the channel to the inbox.
LEMMA ReceiveMoves ==
    ASSUME TypeOK, Receive, NEW e \in Events
    PROVE  /\ Carries(channel, e) <=> Carries(channel', e) \/ e \in inbox'.logs
           /\ CarriesOnce(channel, e) => CarriesOnce(channel', e)
                                         /\ ~(Carries(channel', e) /\ e \in inbox'.logs)
           /\ inbox.logs = {}
<1>1. channel \in Seq(Message) /\ channel # <<>> /\ inbox.logs = {}
      /\ inbox' = Head(channel) /\ channel' = Tail(channel)
  BY DEF TypeOK, Receive, Idle
<1> QED BY <1>1, TailCarries, Zenon

\* From the inbox to the list, or to the relay.
LEMMA HandleMoves ==
    ASSUME TypeOK, NEW d \in inbox.logs, HandleLog!(d), NEW e \in Events
    PROVE  /\ e \in inbox'.logs <=> e \in inbox.logs /\ e # d
           /\ unconfirmed \subseteq unconfirmed'
           /\ \/ d \in unconfirmed' /\ pending' = pending
              \/ /\ Lists(pending', e) <=> Lists(pending, e) \/ d = e
                 /\ ListsOnce(pending, e) /\ ~(Lists(pending, e) /\ d = e)
                    => ListsOnce(pending', e)
                 /\ \A i \in DOMAIN pending : pending'[i] = pending[i]
                 /\ \A i \in DOMAIN pending' \ DOMAIN pending : pending'[i].ev = d
           /\ channel' = channel
<1>1. inbox'.logs = inbox.logs \ {d}
  BY DEF TypeOK, Message
<1>2. CASE d \in Immediate
  BY <1>1, <1>2
<1>3. CASE d \notin Immediate
  <2> DEFINE p == [ev |-> d, block |-> inbox.block, absent |-> 0]
  <2>1. p \in PendingEvent /\ p.ev = d /\ pending \in Seq(PendingEvent)
    BY Elements DEF TypeOK, PendingEvent, Message
  <2>2. pending' = Append(pending, p) /\ unconfirmed' = unconfirmed /\ channel' = channel
    BY <1>3, Zenon
  <2> HIDE DEF p
  <2>3. /\ Lists(pending', e) <=> Lists(pending, e) \/ d = e
        /\ ListsOnce(pending, e) /\ ~(Lists(pending, e) /\ d = e) => ListsOnce(pending', e)
    BY <2>1, <2>2, PushLists, Zenon
  <2>4. /\ \A i \in DOMAIN pending : pending'[i] = pending[i]
        /\ \A i \in DOMAIN pending' \ DOMAIN pending : pending'[i].ev = d
    <3>1. /\ DOMAIN pending' = DOMAIN pending \cup {Len(pending) + 1}
          /\ \A i \in DOMAIN pending : pending'[i] = pending[i]
          /\ pending'[Len(pending) + 1] = p
      BY <2>1, <2>2, PushEntry
    <3> QED BY <2>1, <3>1, Zenon
  <2> QED BY <1>1, <2>2, <2>3, <2>4, Zenon
<1> QED BY <1>2, <1>3

\* The stream hands every event on.
LEMMA MissStream ==
    ASSUME TypeOK, MissInv, Stream
    PROVE  MissInv'
<1>1. UNCHANGED <<chainVars, waiting, floor, stage, bootLogs, lost, removals, confirmed>>
  BY Zenon DEF Stream, ReceiveLagged, Receive, HandleLog, bootVars, scanVars, relayVars
<1>2. UNCHANGED <<height, loc, touched, waiting, stage, bootLogs, lost, removals, confirmed>>
  BY <1>1 DEF chainVars
<1>3. CASE ReceiveLagged
  <2>1. UNCHANGED <<channel, inbox, pending, unconfirmed>>
    BY <1>3 DEF ReceiveLagged, relayVars
  <2>2. RemovalsDone'
    BY <1>2, <2>1, Zenon DEF MissInv, RemovalsDone, Relayed
  <2>3. AllCovered'
    BY <1>1, <1>2, <2>1, CoveredFrame, Zenon DEF MissInv, Covered, Relayed
  <2> QED BY <1>2, <2>2, <2>3, Zenon DEF MissInv
<1>4. CASE Receive
  <2>1. UNCHANGED <<pending, unconfirmed>>
    BY <1>4 DEF Receive, relayVars
  <2>2. RemovalsDone'
    BY <1>2, <2>1, Zenon DEF MissInv, RemovalsDone, Relayed
  <2>3. \A e \in Events : Covered(e) => Covered(e)'
    BY <1>2, <1>4, <2>1, ReceiveMoves, Zenon DEF Covered, Relayed
  <2>4. AllCovered'
    BY <1>1, <2>3, CoveredFrame, Zenon DEF MissInv
  <2> QED BY <1>2, <2>2, <2>4, Zenon DEF MissInv
<1>5. CASE HandleLog
  <2>1. PICK d \in inbox.logs : HandleLog!(d)
    BY <1>5, Zenon DEF HandleLog
  <2>2. d \in Events
    BY Elements
  <2>3. \A i \in removals : pending'[i] = pending[i]
    BY <2>1, <2>2, HandleMoves, Zenon DEF TypeOK
  <2>4. RemovalsDone'
    BY <1>2, <2>3, Zenon DEF MissInv, RemovalsDone, Relayed
  <2>5. \A e \in Events : Covered(e) => Covered(e)'
    BY <1>2, <2>1, HandleMoves, Zenon DEF Covered, Relayed
  <2>6. AllCovered'
    BY <1>1, <2>5, CoveredFrame, Zenon DEF MissInv
  <2> QED BY <1>2, <2>4, <2>6, Zenon DEF MissInv
<1> QED BY <1>3, <1>4, <1>5 DEF Stream

\* A check that does not find the event gives up only what was moved; it leaves
\* every entry its event.
LEMMA AbsentKeepsEvents ==
    ASSUME TypeOK, NEW i \in todo, Absent(i)
    PROVE  /\ DOMAIN pending' = DOMAIN pending
           /\ \A j \in DOMAIN pending : pending'[j].ev = pending[j].ev
           /\ \A j \in removals' : j \in removals \/ j = i
           /\ removals \subseteq removals'
           /\ confirmed' = confirmed
<1>1. i \in DOMAIN pending /\ pending[i] \in PendingEvent
  BY Elements DEF TypeOK
<1>2. CASE pending[i].absent + 1 >= MAX_ABSENT_CHECKS
  BY <1>2 DEF Absent
<1>3. CASE ~(pending[i].absent + 1 >= MAX_ABSENT_CHECKS)
  <2>1. pending' = [pending EXCEPT ![i].absent = @ + 1] /\ UNCHANGED <<removals, confirmed>>
    BY <1>3 DEF Absent
  <2>2. DOMAIN pending' = DOMAIN pending /\ \A j \in DOMAIN pending : j # i => pending'[j] = pending[j]
    BY <2>1 DEF TypeOK
  <2>3. pending'[i].ev = pending[i].ev
    BY <1>1, <2>1 DEF PendingEvent
  <2> QED BY <2>1, <2>2, <2>3, Zenon
<1> QED BY <1>2, <1>3, Zenon

\* A check that finds the event relays it from the block it is in, or leaves the
\* entry in the list.
LEMMA FoundKeepsEvents ==
    ASSUME TypeOK, NEW i \in todo, Found(i, txBlock), loc[pending[i].ev] = txBlock
    PROVE  /\ DOMAIN pending' = DOMAIN pending
           /\ \A j \in DOMAIN pending : pending'[j].ev = pending[j].ev
           /\ \/ /\ removals' = removals \cup {i}
                 /\ confirmed' = confirmed \cup {<<pending[i].ev, loc[pending[i].ev]>>}
              \/ UNCHANGED <<removals, confirmed>>
<1>1. i \in DOMAIN pending /\ pending[i] \in PendingEvent
  BY Elements DEF TypeOK
<1>2. CASE txBlock = pending[i].block
  BY <1>2, Zenon DEF Found
<1>3. CASE txBlock # pending[i].block
  <2>1. /\ pending' = [pending EXCEPT ![i].block = txBlock, ![i].absent = 0]
        /\ UNCHANGED <<removals, confirmed>>
    BY <1>3 DEF Found
  <2>2. DOMAIN pending' = DOMAIN pending /\ \A j \in DOMAIN pending : j # i => pending'[j] = pending[j]
    BY <2>1 DEF TypeOK
  <2>3. pending'[i].ev = pending[i].ev
    BY <1>1, <2>1, Zenon DEF PendingEvent
  <2> QED BY <2>1, <2>2, <2>3, Zenon
<1> QED BY <1>2, <1>3, Zenon

\* The steps of a scan before its removals: entries keep their events, and an
\* index is marked for removal when its event was moved, or with its relay.
LEMMA CheckMoves ==
    ASSUME TypeOK, DropInv,
           StartScan \/ VerifyTransaction \/ VerifyLogs \/ VerifyError \/ EndScan
    PROVE  /\ UNCHANGED <<chainVars, streamVars, bootVars, unconfirmed>>
           /\ DOMAIN pending' = DOMAIN pending
           /\ \A j \in DOMAIN pending : pending'[j].ev = pending[j].ev
           /\ removals \subseteq removals'
           /\ \/ /\ confirmed' = confirmed
                 /\ \A j \in removals' : j \in removals \/ pending[j].ev \in touched
              \/ \E i \in todo :
                   /\ removals' = removals \cup {i}
                   /\ confirmed' = confirmed \cup {<<pending[i].ev, loc[pending[i].ev]>>}
<1>1. CASE StartScan
  BY <1>1, Zenon DEF StartScan, relayVars
<1>2. CASE VerifyError
  BY <1>2, Zenon DEF VerifyError, relayVars
<1>3. CASE EndScan
  BY <1>3, Zenon DEF EndScan, relayVars
<1>4. CASE VerifyTransaction
  <2>1. PICK i \in todo : VerifyTransaction!(i)
    BY <1>4, Zenon DEF VerifyTransaction
  <2>2. UNCHANGED <<chainVars, streamVars, bootVars, unconfirmed>>
    BY <2>1, Zenon
  <2>3. CASE loc[pending[i].ev] # 0
    BY <2>1, <2>2, <2>3, Zenon
  <2>4. CASE loc[pending[i].ev] = 0
    <3>1. Absent(i) /\ AtIndex(i)
      BY <2>1, <2>4, Zenon
    <3>2. pending[i].ev \in touched
      BY <2>4, <3>1, AbsentMoved, Zenon
    <3> QED BY <2>2, <3>1, <3>2, AbsentKeepsEvents, Zenon
  <2> QED BY <2>3, <2>4
<1>5. CASE VerifyLogs
  <2>1. PICK i \in todo : VerifyLogs!(i)
    BY <1>5, Zenon DEF VerifyLogs
  <2>2. UNCHANGED <<chainVars, streamVars, bootVars, unconfirmed>>
    BY <2>1, Zenon
  <2>3. CASE loc[pending[i].ev] = txBlock
    <3>1. Found(i, txBlock)
      BY <2>1, <2>3, Zenon
    <3> QED BY <2>2, <2>3, <3>1, FoundKeepsEvents, Zenon
  <2>4. CASE loc[pending[i].ev] # txBlock
    <3>1. Absent(i) /\ AtIndex(i) /\ txBlock # 0
      BY <2>1, <2>4, Zenon
    <3>2. pending[i].ev \in touched
      BY <2>4, <3>1, AbsentMoved, Zenon
    <3> QED BY <2>2, <3>1, <3>2, AbsentKeepsEvents, Zenon
  <2> QED BY <2>3, <2>4
<1> QED BY <1>1, <1>2, <1>3, <1>4, <1>5, Zenon

\* Entries that keep their events list the same events.
LEMMA SameLists ==
    ASSUME DOMAIN pending' = DOMAIN pending,
           \A j \in DOMAIN pending : pending'[j].ev = pending[j].ev, NEW e
    PROVE  Lists(pending', e) = Lists(pending, e) /\ ListsOnce(pending', e) = ListsOnce(pending, e)
<1>1. Lists(pending', e) <=> Lists(pending, e)
  BY Zenon DEF Lists
<1>2. ListsOnce(pending', e) <=> ListsOnce(pending, e)
  BY Zenon DEF ListsOnce
<1>3. /\ Lists(pending', e) \in BOOLEAN /\ Lists(pending, e) \in BOOLEAN
      /\ ListsOnce(pending', e) \in BOOLEAN /\ ListsOnce(pending, e) \in BOOLEAN
  BY Zenon DEF Lists, ListsOnce
<1> QED BY <1>1, <1>2, <1>3

\* The removal of one index, from the end of the list: the indices that are still
\* to be removed stay valid.
LEMMA RemoveMoves ==
    ASSUME TypeOK, Remove
    PROVE  /\ UNCHANGED <<chainVars, streamVars, bootVars, relayVars>>
           /\ \E i \in removals :
                /\ pending' = RemoveAt(pending, i)
                /\ removals' = removals \ {i}
                /\ \A j \in removals' : pending'[j] = pending[j]
                /\ \A k \in DOMAIN pending' \ removals' :
                     \E j \in DOMAIN pending \ removals : pending'[k] = pending[j]
<1>1. UNCHANGED <<chainVars, streamVars, bootVars, relayVars>>
  BY DEF Remove
<1>2. PICK i \in removals :
        /\ RemoveFirst(i)
        /\ pending' = IF i <= Len(pending) THEN RemoveAt(pending, i) ELSE pending
        /\ removals' = removals \ {i}
  BY DEF Remove
<1> DEFINE n == Len(pending)
<1>3. n \in Nat /\ DOMAIN pending = 1 .. n /\ i \in 1 .. n /\ removals \subseteq 1 .. n
  BY <1>2, LenProperties DEF TypeOK
<1>4. pending' = RemoveAt(pending, i)
  BY <1>2, <1>3
<1>5. /\ pending' \in Seq(PendingEvent) /\ Len(pending') = n - 1
      /\ \A k \in 1 .. n - 1 : pending'[k] = IF k < i THEN pending[k] ELSE pending[k + 1]
  BY <1>3, <1>4, RemoveAtFacts, Zenon DEF TypeOK
<1>6. DOMAIN pending' = 1 .. n - 1
  BY <1>5, LenProperties
<1>7. \A j \in removals : j <= i
  BY <1>2, Zenon DEF RemoveFirst
<1> HIDE DEF n
<1>8. ASSUME NEW j \in removals' PROVE pending'[j] = pending[j]
  <2>1. j \in 1 .. n - 1 /\ j < i
    BY <1>2, <1>3, <1>7
  <2> QED BY <1>5, <2>1
<1>9. ASSUME NEW k \in DOMAIN pending', k \notin removals'
      PROVE  \E j \in DOMAIN pending \ removals : pending'[k] = pending[j]
  <2>1. k \in 1 .. n - 1
    BY <1>6, <1>9
  <2>2. CASE k < i
    <3>1. k \in 1 .. n /\ k # i /\ pending'[k] = pending[k]
      BY <1>3, <1>5, <2>1, <2>2
    <3> QED BY <1>2, <1>3, <1>9, <3>1, Zenon
  <2>3. CASE ~(k < i)
    <3>1. k + 1 \in 1 .. n /\ ~(k + 1 <= i) /\ pending'[k] = pending[k + 1]
      BY <1>3, <1>5, <2>1, <2>3
    <3> QED BY <1>3, <1>7, <3>1, Zenon
  <2> QED BY <2>2, <2>3
<1> QED BY <1>1, <1>2, <1>4, <1>8, <1>9, Zenon

\* The scan lets go only of what it relayed, or of what was moved.
LEMMA MissScan ==
    ASSUME TypeOK, TypeOK', DropInv, MissInv, Scan
    PROVE  MissInv'
<1>1. UNCHANGED <<chainVars, streamVars, bootVars, unconfirmed>> /\ confirmed \subseteq confirmed'
  BY CheckMoves, RemoveMoves, Zenon DEF Scan, relayVars
<1>2. UNCHANGED <<height, loc, touched, waiting, stage, floor, bootLogs, lost, channel,
                  inbox, unconfirmed>>
  BY <1>1 DEF chainVars, streamVars, bootVars
<1>3. \A e : Relayed(e) => Relayed(e)'
  BY <1>1, <1>2, Zenon DEF Relayed
<1>4. CASE Remove
  <2>1. PICK i \in removals :
          /\ pending' = RemoveAt(pending, i)
          /\ removals' = removals \ {i}
          /\ \A j \in removals' : pending'[j] = pending[j]
    BY <1>4, RemoveMoves, Zenon
  <2>2. i \in DOMAIN pending /\ pending \in Seq(PendingEvent)
    BY DEF TypeOK
  <2>3. RemovalsDone'
    BY <1>2, <1>3, <2>1, Zenon DEF MissInv, RemovalsDone
  <2>4. \A e \in Events : e \notin touched /\ Covered(e) => Covered(e)'
    <3> SUFFICES ASSUME NEW e \in Events, e \notin touched, Covered(e) PROVE Covered(e)'
      BY Zenon
    <3>1. pending[i].ev = e => Relayed(e)'
      BY <1>3, Zenon DEF MissInv, RemovalsDone
    <3>2. Lists(pending, e) => pending[i].ev = e \/ Lists(pending', e)
      BY <2>1, <2>2, RemoveLists, Zenon
    <3> QED BY <1>2, <1>3, <3>1, <3>2, Zenon DEF Covered
  <2>5. AllCovered'
    BY <1>1, <1>2, <2>4, CoveredFrame, Zenon DEF MissInv
  <2> QED BY <1>2, <2>3, <2>5, Zenon DEF MissInv
<1>5. CASE StartScan \/ VerifyTransaction \/ VerifyLogs \/ VerifyError \/ EndScan
  <2>1. \A j \in DOMAIN pending : pending'[j].ev = pending[j].ev
    BY <1>5, CheckMoves, Zenon
  <2>2. \A e : Lists(pending', e) = Lists(pending, e)
    BY <1>5, CheckMoves, SameLists, Zenon
  <2>3. \A e \in Events : Covered(e) => Covered(e)'
    BY <1>2, <1>3, <2>2, Zenon DEF Covered
  <2>4. ASSUME NEW j \in removals' PROVE pending[j].ev \in touched \/ Relayed(pending[j].ev)
                                         \/ <<pending[j].ev, loc[pending[j].ev]>> \in confirmed'
    BY <1>5, CheckMoves, Zenon DEF MissInv, RemovalsDone
  <2>5. removals' \subseteq DOMAIN pending
    BY <1>5, CheckMoves, Zenon DEF TypeOK
  <2>6. RemovalsDone'
    BY <1>1, <1>2, <2>1, <2>4, <2>5, Zenon DEF RemovalsDone, Relayed
  <2>7. AllCovered'
    BY <1>1, <1>2, <2>3, CoveredFrame, Zenon DEF MissInv
  <2> QED BY <1>2, <2>6, <2>7, Zenon DEF MissInv
<1> QED BY <1>4, <1>5, Zenon DEF Scan

\* Starting the process opens a new window, which the bootstrap range covers.
LEMMA MissBoot ==
    ASSUME TypeOK, MissInv, Boot
    PROVE  MissInv'
<1>1. UNCHANGED <<chainVars, scanVars, pending, channel, inbox, lost, confirmed>>
  BY Zenon DEF Boot, Initialize, FetchBootstrapLogs, ProcessBootstrapLog, BootstrapError,
         BootstrapDone, streamVars, relayVars
<1>2. UNCHANGED <<height, loc, touched, removals, pending, channel, inbox, lost, confirmed>>
  BY <1>1 DEF chainVars, scanVars
<1>3. RemovalsDone'
  BY <1>2, Zenon DEF MissInv, RemovalsDone, Relayed
<1>4. waiting \in Nat /\ height \in Nat /\ loc \in [Events -> Nat] /\ waiting <= height + 1
  BY DEF TypeOK, MissInv
<1>5. CASE Initialize
  <2>1. stage = "down" /\ waiting' = height + 1 /\ floor' = height + 1 /\ bootLogs' = bootLogs
    BY <1>5, Zenon DEF Initialize
  <2>2. \A e \in Events : ~InWindow(e)'
    BY <1>2, <1>4, <2>1 DEF InWindow
  <2>3. AllCovered'
    BY <2>2, Zenon DEF AllCovered
  <2>4. bootLogs' = {}
    BY <2>1 DEF MissInv
  <2>5. (waiting <= height + 1)'
    BY <1>2, <1>4, <2>1
  <2> QED BY <1>3, <2>3, <2>4, <2>5, Zenon DEF MissInv
<1>6. CASE FetchBootstrapLogs
  <2>1. /\ stage' = "fetched" /\ waiting' = waiting /\ floor' = BootstrapFrom
        /\ bootLogs' = {e \in Events : loc[e] # 0 /\ loc[e] \in BootstrapRange}
    BY <1>6 DEF FetchBootstrapLogs, streamVars
  <2>2. BootstrapFrom \in Nat
    BY <1>4, ConstantsAssumption DEF BootstrapFrom
  <2>3. ASSUME NEW e \in Events, InWindow(e)' PROVE Covered(e)'
    <3>1. loc[e] # 0 /\ loc[e] >= BootstrapFrom /\ loc[e] < waiting
      BY <1>2, <2>1, <2>3 DEF InWindow
    <3>2. loc[e] \in BootstrapFrom .. height
      BY <1>4, <2>2, <3>1
    <3>3. e \in bootLogs'
      BY <2>1, <3>1, <3>2, Zenon DEF BootstrapRange
    <3> QED BY <3>3, Zenon DEF Covered
  <2>4. AllCovered'
    BY <2>3, Zenon DEF AllCovered
  <2>5. (waiting <= height + 1)'
    BY <1>2, <1>4, <2>1
  <2> QED BY <1>3, <2>1, <2>4, <2>5, Zenon DEF MissInv
<1>7. CASE ProcessBootstrapLog
  <2>1. PICK d \in bootLogs : bootLogs' = bootLogs \ {d} /\ unconfirmed' = unconfirmed \cup {d}
    BY <1>7, Zenon DEF ProcessBootstrapLog
  <2>2. UNCHANGED <<waiting, stage, floor>> /\ stage = "fetched"
    BY <1>7 DEF ProcessBootstrapLog, streamVars
  <2>3. \A e \in Events : Covered(e) => Covered(e)'
    BY <1>2, <2>1, Zenon DEF Covered, Relayed
  <2>4. AllCovered'
    BY <1>1, <2>2, <2>3, CoveredFrame, Zenon DEF MissInv
  <2> QED BY <1>2, <1>3, <1>4, <2>2, <2>4, Zenon DEF MissInv
<1>8. CASE BootstrapError
  <2>1. stage' = "init" /\ bootLogs' = {} /\ waiting' = waiting
    BY <1>8 DEF BootstrapError, streamVars
  <2>2. AllCovered'
    BY <2>1 DEF AllCovered
  <2> QED BY <1>2, <1>3, <1>4, <2>1, <2>2, Zenon DEF MissInv
<1>9. CASE BootstrapDone
  <2>1. UNCHANGED <<waiting, floor, bootLogs, unconfirmed>> /\ stage = "fetched" /\ bootLogs = {}
    BY <1>9 DEF BootstrapDone, streamVars, relayVars
  <2>2. \A e \in Events : Covered(e) => Covered(e)'
    BY <1>2, <2>1, Zenon DEF Covered, Relayed
  <2>3. \A e \in Events : e \notin touched /\ InWindow(e) => Covered(e)
    BY <2>1, Zenon DEF MissInv, AllCovered
  <2>4. AllCovered'
    BY <1>2, <2>1, <2>2, <2>3, Zenon DEF AllCovered, InWindow
  <2> QED BY <1>2, <1>3, <1>4, <2>1, <2>4, Zenon DEF MissInv
<1> QED BY <1>5, <1>6, <1>7, <1>8, <1>9, Zenon DEF Boot

\* Every step keeps MissInv.
LEMMA StepMiss == TypeOK /\ TypeOK' /\ DropInv /\ MissInv /\ [Next]_vars => MissInv'
<1> SUFFICES ASSUME TypeOK, TypeOK', DropInv, MissInv, [Next]_vars PROVE MissInv'
  OBVIOUS
<1>1. CASE Crash
  <2>1. stage' = "down" /\ bootLogs' = {} /\ removals' = {} /\ waiting' = waiting /\ height' = height
    BY <1>1 DEF Crash, chainVars
  <2>2. RemovalsDone' /\ AllCovered'
    BY <2>1 DEF RemovalsDone, AllCovered
  <2> QED BY <2>1, <2>2, Zenon DEF MissInv
<1>2. CASE UNCHANGED vars
  <2>1. UNCHANGED <<height, loc, touched, waiting, floor, stage, bootLogs, channel, inbox,
                    pending, removals, lost, confirmed, unconfirmed>>
    BY <1>2 DEF vars, chainVars, scanVars, streamVars, bootVars, relayVars
  <2>2. RemovalsDone' /\ AllCovered'
    BY <2>1, Zenon DEF MissInv, RemovalsDone, AllCovered, InWindow, Covered, Relayed
  <2> QED BY <2>1, <2>2, Zenon DEF MissInv
<1> QED
  BY <1>1, <1>2, MissChain, MissPublish, MissStream, MissScan, MissBoot, Zenon DEF Next

\* InFlight collects what the channel and the inbox carry.
LEMMA InFlightIs ==
    ASSUME NEW e
    PROVE  e \in InFlight <=> Carries(channel, e) \/ e \in inbox.logs
<1> DEFINE sent == UNION {channel[i].logs : i \in DOMAIN channel}
<1>1. e \in sent <=> Carries(channel, e)
  BY Zenon DEF Carries
<1>2. InFlight = sent \cup inbox.logs
  BY Zenon DEF InFlight
<1> HIDE DEF sent
<1> QED BY <1>1, <1>2, Zenon

\* No event falls between the bootstrap range and the live stream, between two
\* batches, or out of the list when entries are removed by index: whatever was mined
\* in the blocks this run of the process has covered, and was not moved, is on its
\* way, relayed, or was overwritten in the full broadcast channel.
THEOREM NothingIsMissed == Spec => []NothingMissed
<1>1. Init => MissInv
  <2> SUFFICES ASSUME Init PROVE MissInv
    OBVIOUS
  <2>1. RemovalsDone /\ AllCovered
    BY DEF Init, RemovalsDone, AllCovered
  <2> QED BY <2>1 DEF Init, MissInv
<1>2. MissInv => NothingMissed
  <2> SUFFICES ASSUME MissInv, stage = "live", NEW e \in Events \ touched, InWindow(e)
               PROVE  \/ e \in InFlight \cup PendingEvents \cup unconfirmed \cup lost
                      \/ <<e, loc[e]>> \in confirmed
    BY Zenon DEF NothingMissed, InWindow
  <2>1. Covered(e) /\ bootLogs = {}
    BY DEF MissInv, AllCovered
  <2>2. Carries(channel, e) \/ e \in inbox.logs => e \in InFlight
    BY InFlightIs, Zenon
  <2>3. Lists(pending, e) => e \in PendingEvents
    BY Zenon DEF Lists, PendingEvents
  <2> QED BY <2>1, <2>2, <2>3, Zenon DEF Covered, Relayed
<1> QED BY <1>1, <1>2, InitDrop, StepDrop, StepMiss, TypeCorrect, PTL DEF Spec

---------------------------------------------------------------------------
(* Nothing is relayed twice.  Until the process crashes, an event that was *)
(* not moved is in one place only, and in none of them before              *)
(* waiting_block has passed its block.                                     *)

Handled(e) == Carries(channel, e) \/ e \in inbox.logs \/ Lists(pending, e) \/ Relayed(e)

OnceOf(e) ==
    /\ Handled(e) => loc[e] # 0 /\ loc[e] < waiting
    /\ CarriesOnce(channel, e) /\ ListsOnce(pending, e)
    /\ Carries(channel, e) => e \notin inbox.logs
    /\ Carries(channel, e) \/ e \in inbox.logs => ~Lists(pending, e) /\ ~Relayed(e)
    /\ \A i \in DOMAIN pending \ removals : pending[i].ev = e => ~Relayed(e)

OnceInv == crashes = 0 => \A e \in Events : e \notin touched => OnceOf(e)

\* A step that moves nothing keeps OnceOf.
LEMMA OnceFrame ==
    ASSUME NEW e, OnceOf(e), loc'[e] = loc[e], waiting' = waiting,
           UNCHANGED <<channel, inbox, pending, removals, confirmed>>
    PROVE  OnceOf(e)'
BY Zenon DEF OnceOf, Handled, Relayed

\* Chain steps: what was not moved is where it was, or is in a new block.
LEMMA OnceChain ==
    ASSUME TypeOK, FinalInv, Chain, NEW e \in Events, e \notin touched', OnceOf(e)
    PROVE  OnceOf(e)'
<1>1. UNCHANGED <<scanVars, streamVars, relayVars, pending>>
  BY ChainKeepsUntouched
<1>2. UNCHANGED <<waiting, channel, inbox, removals, confirmed, pending>>
  BY <1>1 DEF scanVars, streamVars, relayVars
<1>3. CASE loc[e] # 0
  <2>1. loc'[e] = loc[e]
    BY <1>3, ChainKeepsUntouched
  <2> QED BY <1>2, <2>1, OnceFrame, Zenon
<1>4. CASE loc[e] = 0
  <2>1. ~Carries(channel, e) /\ e \notin inbox.logs /\ ~Lists(pending, e)
    BY <1>4 DEF OnceOf, Handled
  <2>2. \A b : <<e, b>> \notin confirmed
    BY <1>4 DEF FinalInv, DeepRelays
  <2>3. ~Relayed(e)'
    BY <1>2, <2>2, Zenon DEF Relayed
  <2> QED BY <1>2, <2>1, <2>3, Zenon DEF OnceOf, Handled
<1> QED BY <1>3, <1>4

\* A batch holds only events of blocks that were not read before.
LEMMA OncePublish ==
    ASSUME TypeOK, DropInv, process_new_block, NEW e \in Events, OnceOf(e)
    PROVE  OnceOf(e)'
<1>1. UNCHANGED <<inbox, chainVars, scanVars, relayVars, pending>> /\ waiting' = BatchEnd + 1
  BY DEF process_new_block
<1>2. UNCHANGED <<inbox, loc, removals, confirmed, pending>>
  BY <1>1 DEF chainVars, scanVars, relayVars
<1>3. /\ BatchEnd \in Nat /\ waiting \in Nat /\ waiting <= BatchEnd
      /\ loc[e] \in Nat
  BY ConstantsAssumption DEF TypeOK, BatchEnd
<1>a. e \in LogsOfBatch => loc[e] \in waiting .. BatchEnd
  BY Zenon DEF LogsOfBatch
<1>b. Handled(e) => loc[e] # 0 /\ loc[e] < waiting
  BY Zenon DEF OnceOf
<1>c. waiting # 0
  BY DEF process_new_block, DropInv, WaitingBound
<1>4. e \in LogsOfBatch => ~Handled(e)
  BY <1>3, <1>a, <1>b
<1>5. Handled(e) \/ e \in LogsOfBatch => loc[e] < waiting'
  BY <1>1, <1>3, <1>a, <1>b
<1>6. Handled(e) \/ e \in LogsOfBatch => loc[e] # 0
  BY <1>3, <1>a, <1>b, <1>c
<1> QED
  BY <1>2, <1>4, <1>5, <1>6, PublishMoves, Zenon DEF OnceOf, Handled, Relayed

\* The stream moves an event from one place to the next.
LEMMA OnceStream ==
    ASSUME TypeOK, Stream, NEW e \in Events, OnceOf(e)
    PROVE  OnceOf(e)'
<1>1. UNCHANGED <<chainVars, waiting, removals, confirmed>>
  BY Zenon DEF Stream, ReceiveLagged, Receive, HandleLog, bootVars, scanVars, relayVars
<1>2. UNCHANGED <<loc, waiting, removals, confirmed>>
  BY <1>1 DEF chainVars
<1>3. CASE ReceiveLagged
  <2>1. UNCHANGED <<channel, inbox, pending>>
    BY <1>3 DEF ReceiveLagged
  <2> QED BY <1>2, <2>1, OnceFrame, Zenon
<1>4. CASE Receive
  <2>1. pending' = pending
    BY <1>4 DEF Receive
  <2> QED BY <1>2, <1>4, <2>1, ReceiveMoves, Zenon DEF OnceOf, Handled, Relayed
<1>5. CASE HandleLog
  <2>1. PICK d \in inbox.logs : HandleLog!(d)
    BY <1>5, Zenon DEF HandleLog
  <2>2. Relayed(e)' <=> Relayed(e)
    BY <1>2, Zenon DEF Relayed
  <2>3. CASE d = e
    BY <1>2, <2>1, <2>2, <2>3, HandleMoves, Zenon DEF OnceOf, Handled
  <2>4. CASE d # e
    BY <1>2, <2>1, <2>2, <2>4, HandleMoves, Zenon DEF OnceOf, Handled
  <2> QED BY <2>3, <2>4
<1> QED BY <1>3, <1>4, <1>5 DEF Stream

\* The scan marks the entry it relays, and removes the entries it marked.
LEMMA OnceScan ==
    ASSUME TypeOK, DropInv, Scan, NEW e \in Events, OnceOf(e)
    PROVE  OnceOf(e)'
<1>1. CASE Remove
  <2>1. UNCHANGED <<chainVars, streamVars, relayVars>>
    BY <1>1, RemoveMoves, Zenon
  <2>2. UNCHANGED <<loc, waiting, channel, inbox, confirmed>>
    BY <2>1 DEF chainVars, streamVars, relayVars
  <2>3. PICK i \in removals :
          /\ pending' = RemoveAt(pending, i)
          /\ \A k \in DOMAIN pending' \ removals' :
               \E j \in DOMAIN pending \ removals : pending'[k] = pending[j]
    BY <1>1, RemoveMoves, Zenon
  <2>4. i \in DOMAIN pending /\ pending \in Seq(PendingEvent)
    BY DEF TypeOK
  <2>5. (Lists(pending', e) => Lists(pending, e)) /\ (ListsOnce(pending, e) => ListsOnce(pending', e))
    BY <2>3, <2>4, RemoveLists, Zenon
  <2>6. Relayed(e)' <=> Relayed(e)
    BY <2>2, Zenon DEF Relayed
  <2>7. \A k \in DOMAIN pending' \ removals' : pending'[k].ev = e => ~Relayed(e)
    BY <2>3, Zenon DEF OnceOf
  <2> QED BY <2>2, <2>5, <2>6, <2>7, Zenon DEF OnceOf, Handled
<1>2. CASE StartScan \/ VerifyTransaction \/ VerifyLogs \/ VerifyError \/ EndScan
  <2>1. UNCHANGED <<chainVars, streamVars>>
    BY <1>2, CheckMoves, Zenon
  <2>2. UNCHANGED <<loc, waiting, channel, inbox>>
    BY <2>1 DEF chainVars, streamVars
  <2>3. /\ DOMAIN pending' = DOMAIN pending /\ removals \subseteq removals'
        /\ \A j \in DOMAIN pending : pending'[j].ev = pending[j].ev
    BY <1>2, CheckMoves, Zenon
  <2>4. Lists(pending', e) = Lists(pending, e) /\ ListsOnce(pending', e) = ListsOnce(pending, e)
    BY <2>3, SameLists, Zenon
  <2>5. CASE Relayed(e)' <=> Relayed(e)
    BY <2>2, <2>3, <2>4, <2>5, Zenon DEF OnceOf, Handled
  <2>6. CASE Relayed(e)' /\ ~Relayed(e)
    <3>1. PICK i \in todo : /\ removals' = removals \cup {i}
                            /\ confirmed' = confirmed \cup {<<pending[i].ev, loc[pending[i].ev]>>}
      BY <1>2, <2>2, <2>6, CheckMoves, Zenon DEF Relayed
    <3>2. pending[i].ev = e /\ i \in DOMAIN pending
      BY <2>2, <2>6, <3>1 DEF Relayed, TypeOK
    <3>3. Lists(pending, e) /\ \A j \in DOMAIN pending : pending[j].ev = e => j = i
      BY <3>2, Zenon DEF Lists, OnceOf, ListsOnce
    <3>4. \A j \in DOMAIN pending' \ removals' : pending'[j].ev # e
      BY <2>3, <3>1, <3>3, Zenon
    <3> QED BY <2>2, <2>4, <3>3, <3>4, Zenon DEF OnceOf, Handled
  <2>7. Relayed(e) => Relayed(e)'
    BY <1>2, <2>2, CheckMoves, Zenon DEF Relayed
  <2> QED BY <2>5, <2>6, <2>7, Zenon
<1> QED BY <1>1, <1>2, Zenon DEF Scan

\* Starting the process only moves waiting_block forward.
LEMMA OnceBoot ==
    ASSUME TypeOK, MissInv, Boot, NEW e \in Events, OnceOf(e)
    PROVE  OnceOf(e)'
<1>1. /\ UNCHANGED <<chainVars, scanVars, pending, channel, inbox, confirmed>>
      /\ waiting' = waiting \/ waiting' = height + 1
  BY Zenon DEF Boot, Initialize, FetchBootstrapLogs, ProcessBootstrapLog, BootstrapError,
         BootstrapDone, streamVars, relayVars
<1>2. UNCHANGED <<loc, removals, pending, channel, inbox, confirmed>>
  BY <1>1 DEF chainVars, scanVars
<1>3. waiting \in Nat /\ height \in Nat /\ loc[e] \in Nat /\ waiting <= height + 1
  BY DEF TypeOK, MissInv
<1>4. loc[e] < waiting => loc[e] < waiting'
  BY <1>1, <1>3
<1> QED BY <1>2, <1>4, Zenon DEF OnceOf, Handled, Relayed

\* Every step keeps OnceInv.
LEMMA StepOnce ==
    TypeOK /\ FinalInv /\ DropInv /\ MissInv /\ OnceInv /\ [Next]_vars => OnceInv'
<1> SUFFICES ASSUME TypeOK, FinalInv, DropInv, MissInv, OnceInv, [Next]_vars,
                    crashes' = 0, NEW e \in Events, e \notin touched'
             PROVE  OnceOf(e)'
  BY Zenon DEF OnceInv
<1>1. ~Crash
  BY DEF Crash, TypeOK
<1>2. crashes = 0 /\ touched \subseteq touched'
  <2>1. CASE Chain
    BY <2>1, ChainKeepsUntouched DEF bootVars
  <2>2. CASE process_new_block \/ Stream \/ Scan
    BY <2>2, Zenon DEF process_new_block, Stream, ReceiveLagged, Receive, HandleLog, Scan,
       StartScan, VerifyTransaction, VerifyLogs, VerifyError, Remove, EndScan, bootVars,
       chainVars
  <2>3. CASE Boot \/ UNCHANGED vars
    BY <2>3, Zenon DEF Boot, Initialize, FetchBootstrapLogs, ProcessBootstrapLog,
       BootstrapError, BootstrapDone, bootVars, chainVars, vars
  <2> QED BY <1>1, <2>1, <2>2, <2>3, Zenon DEF Next
<1>3. OnceOf(e)
  BY <1>2, Zenon DEF OnceInv
<1>4. CASE UNCHANGED vars
  <2>1. UNCHANGED <<loc, waiting, channel, inbox, pending, removals, confirmed>>
    BY <1>4 DEF vars, chainVars, scanVars, streamVars, relayVars
  <2> QED BY <1>3, <2>1, OnceFrame, Zenon
<1> QED
  BY <1>1, <1>3, <1>4, OnceChain, OncePublish, OnceStream, OnceScan, OnceBoot, Zenon DEF Next

\* The EventManager reads no block twice, and the scan removes exactly the entries it
\* relayed: in a run without a crash, a relayed event that was not moved is not
\* waiting to be relayed again.
THEOREM RelayedAtMostOnce == Spec => []RelayedOnce
<1>1. Init => OnceInv
  <2> SUFFICES ASSUME Init, NEW e \in Events PROVE OnceOf(e)
    BY Zenon DEF OnceInv
  <2>1. /\ DOMAIN channel = {} /\ DOMAIN pending = {} /\ inbox.logs = {}
        /\ confirmed = {}
    BY DEF Init, NoMessage
  <2> QED
    BY <2>1 DEF OnceOf, Handled, Carries, CarriesOnce, Lists, ListsOnce, Relayed
<1>2. OnceInv => RelayedOnce
  <2> SUFFICES ASSUME OnceInv, crashes = 0, NEW e \in Events \ touched, Relayed(e)
               PROVE  ~Waiting(e)
    BY Zenon DEF RelayedOnce, Relayed
  <2>1. OnceOf(e)
    BY Zenon DEF OnceInv
  <2>2. ~Carries(channel, e) /\ e \notin inbox.logs
    BY <2>1, Zenon DEF OnceOf
  <2>3. e \notin InFlight
    BY <2>2, InFlightIs, Zenon
  <2> QED BY <2>1, <2>3, Zenon DEF Waiting, OnceOf
<1>3. Init => FinalInv
  BY DEF Init, FinalInv, DueEntries, DeepRelays
<1>4. Init => MissInv
  BY DEF Init, MissInv, RemovalsDone, AllCovered
<1> QED
  BY <1>1, <1>2, <1>3, <1>4, InitDrop, StepFinal, StepDrop, StepMiss, StepOnce, TypeCorrect,
     PTL DEF Spec
=============================================================================
