------------------------ MODULE RoundupRelayProofs ------------------------
(***************************************************************************)
(* Proofs about RoundupRelay, for any set of external chains and any       *)
(* number of rounds, errors and lost transactions: its types, that         *)
(* pending_relays forgets no round its chain does not have, and that a     *)
(* broadcast stores its round for every chain; and about TxSender, which   *)
(* carries the transactions of this relay and of the others, for any       *)
(* requests: its types with martial_law, and that no transaction is lost.  *)
(***************************************************************************)
EXTENDS RoundupRelay, TxSender, SequenceTheorems, FiniteSetTheorems, TLAPS

\* Every step keeps the types.
LEMMA StepType == TypeOK /\ [Next]_vars => TypeOK'
<1> SUFFICES ASSUME TypeOK, [Next]_vars PROVE TypeOK'
  OBVIOUS
<1> USE DEF TypeOK
<1>1. CASE NewRound
  BY <1>1 DEF NewRound, taskVars
<1>2. CASE Commit
  BY <1>2 DEF Commit, taskVars
<1>3. ASSUME NEW x \in External, RelayedByOthers(x) PROVE TypeOK'
  BY <1>3 DEF RelayedByOthers, taskVars
<1>4. ASSUME NEW tx \in inflight, Execute(tx[1], tx[2]) \/ Lose(tx[1], tx[2])
      PROVE  TypeOK'
  <2>1. tx[1] \in External /\ tx[2] \in Nat
    OBVIOUS
  <2>2. CASE Execute(tx[1], tx[2])
    BY <2>1, <2>2 DEF Execute, taskVars
  <2>3. CASE Lose(tx[1], tx[2])
    BY <2>1, <2>3 DEF Lose, chainVars, taskVars
  <2> QED BY <1>4, <2>2, <2>3
<1>5. CASE Receive \/ ReceiveError
  <2>1. Head(stream) \in Nat /\ Tail(stream) \in Seq(Nat)
    BY <1>5, HeadTailProperties DEF Receive, ReceiveError
  <2>2. CASE Receive
    BY <2>1, <2>2, Zenon DEF Receive, chainVars, taskVars
  <2>3. CASE ReceiveError
    BY <2>1, <2>3 DEF ReceiveError, Fail, chainVars, taskVars
  <2> QED BY <1>5, <2>2, <2>3
<1>6. ASSUME NEW x \in External, Broadcast(x) \/ BroadcastError(x) PROVE TypeOK'
  <2>1. pending' \in [External -> SUBSET Nat] /\ stored' \subseteq External \X Nat
    <3>1. Store(x)
      BY <1>6 DEF Broadcast, BroadcastError
    <3>2. pending' = [pending EXCEPT ![x] = @ \cup {round}]
          /\ stored' = stored \cup {<<x, round>>}
      BY <3>1 DEF Store
    <3>3. pending[x] \cup {round} \in SUBSET Nat
      OBVIOUS
    <3> QED BY <3>2, <3>3
  <2>2. CASE Broadcast(x)
    BY <2>1, <2>2 DEF Broadcast, chainVars
  <2>3. CASE BroadcastError(x)
    BY <2>1, <2>3 DEF BroadcastError, Fail, EndTask, chainVars
  <2> QED BY <1>6, <2>2, <2>3
<1>7. CASE RetryTick
  BY <1>7 DEF RetryTick, chainVars
<1>8. ASSUME NEW x \in External, RetryChain(x) PROVE TypeOK'
  <2>1. {<<x, r>> : r \in {s \in pending[x] : s > extRound[x]}} \subseteq External \X Nat
    OBVIOUS
  <2>2. pending' \in [External -> SUBSET Nat] /\ inflight' \subseteq External \X Nat
    BY <1>8, <2>1 DEF RetryChain
  <2> QED BY <1>8, <2>2 DEF RetryChain, chainVars
<1>9. CASE RetryError \/ Finish
  <2>1. task' = "idle" /\ left' = {}
        /\ UNCHANGED <<chainVars, stream, pending, round, bifrostLatest, inflight,
                       lost, begun, stored>>
    BY <1>9 DEF RetryError, Finish, EndTask
  <2>2. errors' \in Nat
    BY <1>9 DEF RetryError, Finish, Fail
  <2> QED BY <2>1, <2>2 DEF chainVars
<1>10. CASE UNCHANGED vars
  BY <1>10 DEF vars, chainVars, taskVars
<1> QED
  BY <1>1, <1>2, <1>3, <1>4, <1>5, <1>6, <1>7, <1>8, <1>9, <1>10, Zenon DEF Next, Loop

\* The variables keep their types.
THEOREM TypeCorrect == Spec => []TypeOK
<1>1. Init => TypeOK
  BY DEF Init, TypeOK
<1> QED BY <1>1, StepType, PTL DEF Spec

---------------------------------------------------------------------------
(* A chain is dropped from pending_relays when it has the round Bifrost    *)
(* had when the retry began.  No stored round is newer than that, because  *)
(* rounds are stored and retried by the same loop and an event is never    *)
(* ahead of the latest round.                                              *)

KeepInv ==
    /\ committed <= latest
    /\ \A i \in DOMAIN stream : stream[i] <= latest
    /\ task = "broadcast" => round <= latest
    /\ \A s \in stored : s[2] <= latest
    /\ task = "retry" => \A s \in stored : s[2] <= bifrostLatest
    /\ NothingForgotten

\* Steps of the chains: rounds only grow.
LEMMA KeepGrows ==
    ASSUME TypeOK, TypeOK', KeepInv,
           latest <= latest', committed' <= latest',
           \A x \in External : extRound[x] <= extRound'[x],
           \A i \in DOMAIN stream' : stream'[i] <= latest',
           task' = "broadcast" => task = "broadcast" /\ round' = round,
           task' = "retry" => task = "retry" /\ bifrostLatest' = bifrostLatest,
           UNCHANGED <<pending, stored>>
    PROVE  KeepInv'
<1> USE DEF TypeOK, KeepInv
<1>1. \A s \in stored : s[1] \in External /\ s[2] \in Nat
  OBVIOUS
<1>2. (task = "broadcast" => round <= latest)'
  OBVIOUS
<1>3. \A s \in stored' : s[2] <= latest'
  <2>1. stored' = stored /\ latest \in Nat /\ latest' \in Nat /\ latest <= latest'
    OBVIOUS
  <2>2. \A s \in stored : s[2] <= latest
    OBVIOUS
  <2> HIDE DEF TypeOK, KeepInv
  <2> QED BY <1>1, <2>1, <2>2
<1>4. (task = "retry" => \A s \in stored : s[2] <= bifrostLatest)'
  OBVIOUS
<1>5. NothingForgotten'
  <2> SUFFICES ASSUME NEW s \in stored
               PROVE  extRound'[s[1]] >= s[2] \/ s[2] \in pending[s[1]]
    BY DEF NothingForgotten
  <2>1. extRound[s[1]] >= s[2] \/ s[2] \in pending[s[1]]
    BY DEF NothingForgotten
  <2>2. extRound[s[1]] \in Nat /\ extRound'[s[1]] \in Nat
        /\ extRound[s[1]] <= extRound'[s[1]]
    BY <1>1
  <2> QED BY <1>1, <2>1, <2>2
<1> QED BY <1>2, <1>3, <1>4, <1>5

\* Every step keeps KeepInv.
LEMMA StepKeep == TypeOK /\ TypeOK' /\ KeepInv /\ [Next]_vars => KeepInv'
<1> SUFFICES ASSUME TypeOK, TypeOK', KeepInv, [Next]_vars PROVE KeepInv'
  OBVIOUS
<1> USE DEF TypeOK
<1>0. \A s \in stored : s[1] \in External /\ s[2] \in Nat
  OBVIOUS
<1>00. committed <= latest /\ \A i \in DOMAIN stream : stream[i] <= latest
  BY DEF KeepInv
<1>1. CASE NewRound
  <2>1. \A i \in DOMAIN stream' : stream'[i] <= latest'
    <3>1. \A i \in DOMAIN stream : stream[i] \in Nat /\ stream[i] <= latest
      BY ElementOfSeq, LenProperties DEF KeepInv
    <3> QED BY <1>1, <3>1 DEF NewRound
  <2>2. latest <= latest' /\ committed' <= latest'
        /\ \A x \in External : extRound[x] <= extRound'[x]
    BY <1>00, <1>1 DEF NewRound
  <2>3. UNCHANGED <<task, round, bifrostLatest, pending, stored>>
    BY <1>1 DEF NewRound, taskVars
  <2> HIDE DEF TypeOK
  <2> QED BY <2>1, <2>2, <2>3, KeepGrows
<1>2. CASE Commit
  <2>1. stream' = Append(stream, committed + 1) /\ committed + 1 <= latest
        /\ latest' = latest
    BY <1>2 DEF Commit
  <2>2. \A i \in DOMAIN stream' : stream'[i] <= latest'
    <3>1. /\ Len(stream') = Len(stream) + 1 /\ Len(stream) \in Nat
          /\ DOMAIN stream' = 1 .. Len(stream') /\ DOMAIN stream = 1 .. Len(stream)
          /\ \A i \in 1 .. Len(stream) : stream'[i] = stream[i]
          /\ stream'[Len(stream) + 1] = committed + 1
      BY <2>1, AppendProperties, LenProperties
    <3> HIDE DEF TypeOK
    <3> QED BY <1>00, <2>1, <3>1
  <2>3. latest <= latest' /\ committed' <= latest'
        /\ \A x \in External : extRound[x] <= extRound'[x]
    BY <1>2, <2>1 DEF Commit
  <2>4. UNCHANGED <<task, round, bifrostLatest, pending, stored>>
    BY <1>2 DEF Commit, taskVars
  <2> HIDE DEF TypeOK
  <2> QED BY <2>2, <2>3, <2>4, KeepGrows
<1>3. ASSUME NEW x \in External, RelayedByOthers(x) PROVE KeepInv'
  <2>1. extRound' = [extRound EXCEPT ![x] = @ + 1]
        /\ UNCHANGED <<latest, committed, stream, pending, taskVars, stored>>
    BY <1>3 DEF RelayedByOthers
  <2>2. \A y \in External : extRound[y] <= extRound'[y]
    BY <2>1
  <2>3. latest <= latest' /\ committed' <= latest'
    BY <1>00, <2>1
  <2> HIDE DEF TypeOK
  <2> QED BY <1>00, <2>1, <2>2, <2>3, KeepGrows DEF taskVars
<1>4. ASSUME NEW tx \in inflight, Execute(tx[1], tx[2]) \/ Lose(tx[1], tx[2])
      PROVE  KeepInv'
  <2>1. tx[1] \in External /\ tx[2] \in Nat
    OBVIOUS
  <2>2. CASE Execute(tx[1], tx[2])
    <3>1. extRound' = [extRound EXCEPT ![tx[1]] = IF tx[2] = @ + 1 THEN tx[2] ELSE @]
          /\ UNCHANGED <<latest, committed, stream, pending, taskVars, stored>>
      BY <2>2 DEF Execute
    <3>2. \A x \in External : extRound[x] <= extRound'[x]
      BY <2>1, <3>1
    <3>3. latest <= latest' /\ committed' <= latest'
      BY <1>00, <3>1
    <3> HIDE DEF TypeOK
    <3> QED BY <1>00, <3>1, <3>2, <3>3, KeepGrows DEF taskVars
  <2>3. CASE Lose(tx[1], tx[2])
    <3>1. UNCHANGED <<latest, committed, extRound, stream, pending, taskVars, stored>>
      BY <2>3 DEF Lose, chainVars
    <3>2. \A x \in External : extRound[x] <= extRound'[x]
      BY <3>1
    <3>3. latest <= latest' /\ committed' <= latest'
      BY <1>00, <3>1
    <3> HIDE DEF TypeOK
    <3> QED BY <1>00, <3>1, <3>2, <3>3, KeepGrows DEF taskVars
  <2> QED BY <1>4, <2>2, <2>3
<1>5. CASE Receive \/ ReceiveError
  <2>1. stream # <<>> /\ stream' = Tail(stream)
        /\ UNCHANGED <<chainVars, pending, stored>>
    BY <1>5, Zenon DEF Receive, ReceiveError
  <2>2. \A i \in DOMAIN stream' : stream'[i] <= latest'
    <3>1. latest' = latest
      BY <2>1, Zenon DEF chainVars
    <3>2. \A i \in DOMAIN stream' : i + 1 \in DOMAIN stream /\ stream'[i] = stream[i + 1]
      BY <2>1, HeadTailProperties, LenProperties
    <3> QED BY <3>1, <3>2, Zenon DEF KeepInv
  <2>3. Head(stream) <= latest
    BY <2>1, HeadTailProperties, LenProperties DEF KeepInv
  <2>4. task' # "retry" /\ (task' = "broadcast" => round' = Head(stream))
    BY <1>5 DEF Receive, ReceiveError, taskVars
  <2> QED BY <2>1, <2>2, <2>3, <2>4 DEF KeepInv, NothingForgotten, chainVars
<1>6. ASSUME NEW x \in External, Broadcast(x) \/ BroadcastError(x) PROVE KeepInv'
  <2>1. /\ task = "broadcast" /\ task' # "retry" /\ UNCHANGED <<chainVars, stream>>
        /\ round' = round
        /\ pending' = [pending EXCEPT ![x] = @ \cup {round}]
        /\ stored' = stored \cup {<<x, round>>}
    BY <1>6 DEF Broadcast, BroadcastError, Store, EndTask
  <2>2. \A s \in stored' : s[2] <= latest'
    BY <2>1 DEF KeepInv, chainVars
  <2>3. NothingForgotten'
    <3> SUFFICES ASSUME NEW s \in stored'
                 PROVE  extRound'[s[1]] >= s[2] \/ s[2] \in pending'[s[1]]
      BY DEF NothingForgotten
    <3>1. CASE s \in stored
      BY <1>0, <2>1, <3>1 DEF KeepInv, NothingForgotten, chainVars
    <3>2. CASE s = <<x, round>>
      BY <2>1, <3>2
    <3> QED BY <2>1, <3>1, <3>2
  <2> QED BY <2>1, <2>2, <2>3 DEF KeepInv, chainVars
<1>7. CASE RetryTick
  <2>1. task' = "retry" /\ bifrostLatest' = latest
        /\ UNCHANGED <<chainVars, stream, pending, stored>>
    BY <1>7 DEF RetryTick
  <2> QED BY <2>1 DEF KeepInv, NothingForgotten, chainVars
<1>8. ASSUME NEW x \in External, RetryChain(x) PROVE KeepInv'
  <2>1. task = "retry"
        /\ UNCHANGED <<chainVars, stream, task, round, bifrostLatest, stored>>
    BY <1>8 DEF RetryChain
  <2>2. NothingForgotten'
    <3> SUFFICES ASSUME NEW s \in stored
                 PROVE  extRound'[s[1]] >= s[2] \/ s[2] \in pending'[s[1]]
      BY <2>1 DEF NothingForgotten
    <3>1. extRound[s[1]] >= s[2] \/ s[2] \in pending[s[1]]
      BY DEF KeepInv, NothingForgotten
    <3>2. CASE Synced(x) /\ s[1] = x
      <4>1. extRound[x] = bifrostLatest /\ s[2] <= bifrostLatest
        BY <2>1, <3>2 DEF Synced, KeepInv
      <4> QED BY <1>0, <2>1, <3>2, <4>1 DEF chainVars
    <3>3. CASE ~(Synced(x) /\ s[1] = x)
      <4>1. pending'[s[1]] = pending[s[1]]
        BY <1>0, <1>8, <3>3 DEF RetryChain
      <4> QED BY <2>1, <3>1, <4>1 DEF chainVars
    <3> QED BY <3>2, <3>3
  <2> QED BY <2>1, <2>2 DEF KeepInv, chainVars
<1>9. CASE RetryError \/ Finish
  <2>1. task' = "idle" /\ UNCHANGED <<chainVars, stream, pending, stored>>
    BY <1>9 DEF RetryError, Finish, EndTask
  <2> QED BY <2>1 DEF KeepInv, NothingForgotten, chainVars
<1>10. CASE UNCHANGED vars
  BY <1>10 DEF vars, chainVars, taskVars, KeepInv, NothingForgotten
<1> QED
  BY <1>1, <1>2, <1>3, <1>4, <1>5, <1>6, <1>7, <1>8, <1>9, <1>10 DEF Next, Loop

\* pending_relays forgets no round its chain does not have, whatever fails.
THEOREM RetriesForgetNothing == Spec => []NothingForgotten
<1>1. Init => KeepInv
  BY DEF Init, KeepInv, NothingForgotten
<1>2. KeepInv => NothingForgotten
  BY DEF KeepInv
<1> QED BY <1>1, <1>2, StepKeep, TypeCorrect, PTL DEF Spec

---------------------------------------------------------------------------
(* A round broadcast_roundup was called for is stored for every chain the  *)
(* loop over the chains has visited, as long as no call has failed.        *)

VisitInv ==
    errors = 0 =>
      \A r \in begun, x \in External :
        <<x, r>> \in stored \/ (task = "broadcast" /\ r = round /\ x \in left)

\* Every step keeps VisitInv: an event is received, and a tick taken, only when
\* the broadcast before it has visited every chain.
LEMMA StepVisit == TypeOK /\ VisitInv /\ [Next]_vars => VisitInv'
<1> SUFFICES ASSUME TypeOK, VisitInv, [Next]_vars, errors' = 0,
                    NEW r \in begun', NEW x \in External
             PROVE  <<x, r>> \in stored'
                    \/ (task' = "broadcast" /\ r = round' /\ x \in left')
  BY DEF VisitInv
<1> DEFINE Visited(q) == <<x, q>> \in stored \/ (task = "broadcast" /\ q = round /\ x \in left)
           Goal == <<x, r>> \in stored' \/ (task' = "broadcast" /\ r = round' /\ x \in left')
<1>0. errors = 0 => \A q \in begun : Visited(q)
  BY DEF VisitInv
<1>1. ASSUME UNCHANGED <<taskVars, errors, begun, stored>> PROVE Goal
  BY <1>0, <1>1 DEF taskVars
<1>2. CASE Fail
  BY <1>2 DEF Fail, TypeOK
<1>3. CASE Receive
  <2>1. task = "idle" /\ UNCHANGED <<errors, stored>>
    BY <1>3 DEF Receive
  <2>2. \A q \in begun : <<x, q>> \in stored
    BY <1>0, <2>1
  <2>3. CASE Head(stream) - 1 \in SelectedIn
    <3>1. task' = "broadcast" /\ round' = Head(stream) /\ left' = External
          /\ begun' = begun \cup {Head(stream)}
      BY <1>3, <2>3 DEF Receive
    <3> QED BY <2>1, <2>2, <3>1
  <2>4. CASE Head(stream) - 1 \notin SelectedIn
    BY <1>3, <2>1, <2>2, <2>4 DEF Receive
  <2> QED BY <2>3, <2>4
<1>4. ASSUME NEW y \in External, Broadcast(y) PROVE Goal
  <2>1. /\ stored' = stored \cup {<<y, round>>} /\ left' = left \ {y}
        /\ UNCHANGED <<task, round, errors, begun>>
    BY <1>4 DEF Broadcast, Store
  <2> QED BY <1>0, <2>1
<1>5. CASE RetryTick
  <2>1. task = "idle" /\ UNCHANGED <<errors, begun, stored>>
    BY <1>5 DEF RetryTick
  <2> QED BY <1>0, <2>1
<1>6. ASSUME NEW y \in External, RetryChain(y) PROVE Goal
  <2>1. task = "retry" /\ UNCHANGED <<errors, begun, stored>>
    BY <1>6 DEF RetryChain
  <2> QED BY <1>0, <2>1
<1>7. CASE Finish
  <2>1. left = {} /\ UNCHANGED <<errors, begun, stored>>
    BY <1>7 DEF Finish
  <2> QED BY <1>0, <2>1
<1>8. CASE NewRound \/ Commit \/ \E y \in External : RelayedByOthers(y)
  BY <1>1, <1>8 DEF NewRound, Commit, RelayedByOthers
<1>9. ASSUME NEW tx \in inflight, Execute(tx[1], tx[2]) \/ Lose(tx[1], tx[2]) PROVE Goal
  BY <1>1, <1>9 DEF Execute, Lose
<1>10. CASE ReceiveError \/ RetryError \/ \E y \in External : BroadcastError(y)
  BY <1>2, <1>10 DEF ReceiveError, RetryError, BroadcastError
<1>11. CASE UNCHANGED vars
  BY <1>1, <1>11 DEF vars
<1> QED
  BY <1>3, <1>4, <1>5, <1>6, <1>7, <1>8, <1>9, <1>10, <1>11, Zenon DEF Next, Loop

\* Once a broadcast is over without a failed call, every external chain has the
\* round or it is in pending_relays for the chain (broadcast_roundup).
THEOREM BroadcastStoresEverywhere == Spec => []StoredForEveryChain
<1>1. Init => KeepInv /\ VisitInv
  BY DEF Init, KeepInv, NothingForgotten, VisitInv
<1>2. TypeOK /\ KeepInv /\ VisitInv => StoredForEveryChain
  <2> SUFFICES ASSUME KeepInv, VisitInv, task = "idle", errors = 0,
                      NEW r \in begun, NEW x \in External
               PROVE  extRound[x] >= r \/ r \in pending[x]
    BY DEF StoredForEveryChain
  <2>1. <<x, r>> \in stored
    BY DEF VisitInv
  <2> QED BY <2>1 DEF KeepInv, NothingForgotten
<1> QED BY <1>1, <1>2, StepKeep, StepVisit, TypeCorrect, PTL DEF Spec

---------------------------------------------------------------------------
(* How the relays' transactions get onto their chains (TxSender).           *)

Flushing == {"content", "count", "resend", "flushing"}

\* A flush that has its list has something in it.
Listed == \A t \in Tasks : pc[t] \in Flushing \ {"content"} => list # <<>>

TxTypes == TxTypeOK /\ Listed

\* A step of one task leaves the others where they are.
Moves(t) ==
    /\ pc' \in [Tasks -> Steps] /\ \A u \in Tasks \ {t} : pc'[u] = pc[u]
    /\ again' \subseteq Tasks /\ \A u \in Tasks \ {t} : u \in again' <=> u \in again
    /\ sent' \in [Tasks -> Nonces] /\ faults' \in 0 .. MaxFaults /\ seen' = seen

\* The steps of a task by what they do: nothing to the pool and the flush,
Quiet(t) ==
    /\ pc[t] \notin Flushing /\ pc'[t] \notin Flushing
    /\ UNCHANGED <<count, pool, landed, lock, list, raced>>
    /\ cached' \in Nonces /\ cached <= cached'
    /\ Accepted(t)' => Accepted(t)

\* a transaction of its own in the pool,
Puts(t) ==
    /\ pc[t] \notin Flushing /\ pc'[t] \notin Flushing
    /\ cached >= count /\ pool[cached] = Free
    /\ cached' = cached + 1 /\ cached' \in Nonces
    /\ pool' = [pool EXCEPT ![cached] = [req |-> t, copy |-> FALSE]]
    /\ UNCHANGED <<count, landed, lock, list, raced>>

\* the end of its flush.
Leaves(t) ==
    /\ pc[t] \in Flushing /\ pc'[t] \notin Flushing
    /\ lock' = None /\ list' = <<>>
    /\ UNCHANGED <<count, pool, landed, cached, raced>>
    /\ Accepted(t)' => Accepted(t)

LEMMA GoMoves ==
    ASSUME pc \in [Tasks -> Steps], NEW t \in Tasks, NEW step \in Steps, Go(t, step)
    PROVE  /\ pc' \in [Tasks -> Steps] /\ pc'[t] = step
           /\ \A u \in Tasks \ {t} : pc'[u] = pc[u]
BY DEF Go

\* The numbers of the provider and the failures.
LEMMA Counters ==
    ASSUME TxTypes
    PROVE  /\ TakeNonce => cached' \in Nonces /\ cached <= cached' /\ cached' = cached + 1
           /\ TxFail => faults' \in 0 .. MaxFaults
           /\ cached \in Nonces /\ count \in Nonces /\ 0 \in Nonces
           /\ cached <= cached /\ faults \in 0 .. MaxFaults
           /\ Nonces \subseteq Nat
BY TxBounds DEF TxTypes, TxTypeOK, TakeNonce, TxFail, Nonces

LEMMA QuietSteps ==
    ASSUME TxTypes, NEW t \in Tasks,
           \/ fill_gas(t) \/ FillError(t) \/ SendTooLow(t) \/ SendUnderpriced(t)
           \/ SendError(t) \/ RetryAnswered(t) \/ Confirmed(t) \/ TimedOut(t)
    PROVE  Moves(t) /\ Quiet(t)
<1>1. /\ pc \in [Tasks -> Steps] /\ again \subseteq Tasks
      /\ sent \in [Tasks -> Nonces]
  BY DEF TxTypes, TxTypeOK
<1>2. PICK step \in {"send", "dropped", "lock", "done"} : Go(t, step)
  BY Zenon DEF fill_gas, FillError, SendTooLow, SendUnderpriced, SendError,
               RetryAnswered, Confirmed, TimedOut, NonceTooLow
<1>3. pc' \in [Tasks -> Steps] /\ pc'[t] = step /\ \A u \in Tasks \ {t} : pc'[u] = pc[u]
  BY <1>1, <1>2, GoMoves, Zenon DEF Steps
<1>4. /\ UNCHANGED <<count, pool, landed, seen, lock, list, raced>>
      /\ pc[t] \in {"again", "idle", "send", "retry", "watch"}
  BY Zenon DEF fill_gas, FillError, SendTooLow, SendUnderpriced, SendError,
               RetryAnswered, Confirmed, TimedOut, accountVars, flushVars, Called
<1>5. again' = again \/ again' = again \cup ({t} \ Syncs)
  BY Zenon DEF fill_gas, FillError, SendTooLow, SendUnderpriced, SendError,
               RetryAnswered, Confirmed, TimedOut, NonceTooLow
<1>6. cached' \in Nonces /\ cached <= cached' /\ faults' \in 0 .. MaxFaults
  BY Counters, Zenon DEF fill_gas, FillError, SendTooLow, SendUnderpriced,
               SendError, RetryAnswered, Confirmed, TimedOut
<1>7. sent' \in [Tasks -> Nonces]
  <2>1. sent' = sent \/ sent' = [sent EXCEPT ![t] = 0]
    BY Zenon DEF fill_gas, FillError, SendTooLow, SendUnderpriced, SendError,
               RetryAnswered, Confirmed, TimedOut
  <2> QED BY <1>1, <2>1, Counters
<1>8. Accepted(t)' => Accepted(t)
  <2>1. CASE Confirmed(t) \/ TimedOut(t)
    <3>1. pc[t] = "watch" /\ again' = again
      BY <2>1, Zenon DEF Confirmed, TimedOut
    <3> QED BY <3>1, Zenon DEF Accepted, Steps
  <2>2. CASE fill_gas(t) \/ FillError(t) \/ SendUnderpriced(t) \/ SendError(t)
    <3>1. pc'[t] \in {"send", "dropped"}
      BY <1>1, <2>2 DEF fill_gas, FillError, SendUnderpriced, SendError, Go
    <3> QED BY <3>1, Zenon DEF Accepted
  <2>3. CASE SendTooLow(t) \/ RetryAnswered(t)
    <3>1. CASE NonceTooLow(t)
      <4>1. t \in Syncs => pc'[t] = "dropped"
        BY <1>1, <3>1 DEF NonceTooLow, Go
      <4>2. t \notin Syncs => t \in again'
        BY <3>1, Zenon DEF NonceTooLow
      <4> QED BY <4>1, <4>2, Zenon DEF Accepted
    <3>2. CASE Go(t, "dropped")
      <4>1. pc'[t] = "dropped"
        BY <1>1, <3>2 DEF Go
      <4> QED BY <4>1, Zenon DEF Accepted
    <3> QED BY <2>3, <3>1, <3>2, Zenon DEF SendTooLow, RetryAnswered
  <2> QED BY <2>1, <2>2, <2>3
<1>9. Moves(t)
  BY <1>1, <1>3, <1>4, <1>5, <1>6, <1>7, Zenon DEF Moves
<1> QED BY <1>2, <1>3, <1>4, <1>6, <1>8, <1>9, Zenon DEF Quiet, Flushing

LEMMA PutSteps ==
    ASSUME TxTypes, NEW t \in Tasks, SendAccepted(t) \/ SendLost(t)
    PROVE  Moves(t) /\ Puts(t)
<1>1. pc \in [Tasks -> Steps] /\ again \subseteq Tasks /\ sent \in [Tasks -> Nonces]
  BY DEF TxTypes, TxTypeOK
<1>2. PICK step \in {"watch", "retry"} : Go(t, step)
  BY Zenon DEF SendAccepted, SendLost
<1>3. pc' \in [Tasks -> Steps] /\ pc'[t] = step /\ \A u \in Tasks \ {t} : pc'[u] = pc[u]
  BY <1>1, <1>2, GoMoves, Zenon DEF Steps
<1>4. /\ pc[t] = "send" /\ cached >= count /\ pool[cached] = Free /\ TakeNonce
      /\ pool' = [pool EXCEPT ![cached] = [req |-> t, copy |-> FALSE]]
      /\ UNCHANGED <<count, landed, seen, lock, list, raced>> /\ again' = again
  BY Zenon DEF SendAccepted, SendLost, flushVars
<1>5. sent' = sent \/ sent' = [sent EXCEPT ![t] = cached]
  BY Zenon DEF SendAccepted, SendLost
<1>6. sent' \in [Tasks -> Nonces]
  BY <1>1, <1>5, Counters
<1>7. faults' \in 0 .. MaxFaults
  BY Counters, Zenon DEF SendAccepted, SendLost
<1>8. Moves(t)
  BY <1>1, <1>3, <1>4, <1>6, <1>7, Zenon DEF Moves
<1> QED BY <1>2, <1>3, <1>4, <1>8, Counters, Zenon DEF Puts, Flushing

LEMMA LeaveSteps ==
    ASSUME TxTypes, NEW t \in Tasks,
           \/ FlushSkipped(t) \/ FlushTooLow(t) \/ FlushError(t)
           \/ FlushContent(t) /\ Holding = {}
           \/ FlushConfirmed(t) /\ Len(list) = 1
    PROVE  Moves(t) /\ Leaves(t)
<1>1. pc \in [Tasks -> Steps] /\ again \subseteq Tasks /\ sent \in [Tasks -> Nonces]
  BY DEF TxTypes, TxTypeOK
<1>2. Leave(t) \/ LeaveByError(t)
  BY Zenon DEF FlushSkipped, FlushTooLow, FlushError, FlushContent, FlushConfirmed
<1>3. PICK step \in {"again", "dropped", "done"} :
        Go(t, step) /\ (step = "done" => t \notin again)
  BY <1>2, Zenon DEF Leave, LeaveByError
<1>4. pc' \in [Tasks -> Steps] /\ pc'[t] = step /\ \A u \in Tasks \ {t} : pc'[u] = pc[u]
  BY <1>1, <1>3, GoMoves, Zenon DEF Steps
<1>5. lock' = None /\ list' = <<>> /\ raced' = raced /\ again' = again \ {t}
  BY <1>2, Zenon DEF Leave, LeaveByError
<1>6. pc[t] \in Flushing /\ UNCHANGED <<sent, count, pool, landed, seen, cached>>
  BY Zenon DEF FlushSkipped, FlushTooLow, FlushError, FlushContent,
               FlushConfirmed, accountVars, Flushing
<1>7. faults' \in 0 .. MaxFaults
  BY Counters, Zenon DEF FlushSkipped, FlushTooLow, FlushError, FlushContent,
               FlushConfirmed
<1>8. Accepted(t)' => Accepted(t)
  BY <1>3, <1>4, <1>6, Zenon DEF Accepted, Flushing, Steps
<1>9. Moves(t)
  BY <1>1, <1>4, <1>5, <1>6, <1>7, Zenon DEF Moves
<1> QED BY <1>3, <1>4, <1>5, <1>6, <1>8, <1>9, Zenon DEF Leaves, Flushing

\* The other steps of a flush keep the lock and the provider's counter.
Flushes(t) ==
    /\ pc[t] \in Flushing /\ pc'[t] \in Flushing
    /\ UNCHANGED <<count, landed, cached, lock>> /\ again' = again

FlushGoes(t) ==
    \/ FlushContent(t) /\ Holding # {}
    \/ FlushConfirmed(t) /\ Len(list) # 1
    \/ FlushCount(t) \/ FlushSend(t) \/ FlushTimedOut(t)

LEMMA FlushSteps ==
    ASSUME TxTypes, NEW t \in Tasks, FlushGoes(t)
    PROVE  Moves(t) /\ Flushes(t)
<1>1. pc \in [Tasks -> Steps] /\ again \subseteq Tasks /\ sent \in [Tasks -> Nonces]
  BY DEF TxTypes, TxTypeOK
<1>2. PICK step \in {"count", "resend", "flushing"} : Go(t, step)
  BY Zenon DEF FlushGoes, FlushContent, FlushCount, FlushSend, FlushConfirmed, FlushTimedOut
<1>3. pc' \in [Tasks -> Steps] /\ pc'[t] = step /\ \A u \in Tasks \ {t} : pc'[u] = pc[u]
  BY <1>1, <1>2, GoMoves, Zenon DEF Steps
<1>4. /\ pc[t] \in Flushing
      /\ UNCHANGED <<sent, count, landed, seen, cached, lock, again, faults>>
  BY Zenon DEF FlushGoes, FlushContent, FlushCount, FlushSend, FlushConfirmed, FlushTimedOut,
               accountVars, flushVars, Flushing
<1>5. Moves(t)
  BY <1>1, <1>3, <1>4, Counters, Zenon DEF Moves
<1> QED BY <1>2, <1>3, <1>4, <1>5, Zenon DEF Flushes, Flushing

\* Every step is one of these, or the chain's, or takes the lock.
LEMMA TxSteps ==
    ASSUME TxTypes, TxNext
    PROVE  \/ Mine
           \/ \E t \in Tasks :
                \/ Moves(t) /\ (Quiet(t) \/ Puts(t) \/ Leaves(t))
                \/ Acquire(t)
                \/ Moves(t) /\ Flushes(t) /\ FlushGoes(t)
<1>1. SUFFICES ASSUME NEW t \in Tasks,
                      \/ Step(t) \/ FillError(t) \/ SendError(t) \/ SendLost(t)
                      \/ FlushSkipped(t) \/ FlushError(t)
               PROVE  \/ Moves(t) /\ (Quiet(t) \/ Puts(t) \/ Leaves(t))
                      \/ Acquire(t)
                      \/ Moves(t) /\ Flushes(t) /\ FlushGoes(t)
  BY Zenon DEF TxNext, Failures
<1>2. CASE \/ fill_gas(t) \/ FillError(t) \/ SendTooLow(t) \/ SendUnderpriced(t)
           \/ SendError(t) \/ RetryAnswered(t) \/ Confirmed(t) \/ TimedOut(t)
  BY <1>2, QuietSteps, Zenon
<1>3. CASE SendAccepted(t) \/ SendLost(t)
  BY <1>3, PutSteps, Zenon
<1>4. CASE \/ FlushSkipped(t) \/ FlushTooLow(t) \/ FlushError(t)
           \/ FlushContent(t) /\ Holding = {}
           \/ FlushConfirmed(t) /\ Len(list) = 1
  BY <1>4, LeaveSteps, Zenon
<1>5. CASE FlushGoes(t)
  BY <1>5, FlushSteps, Zenon
<1> QED BY <1>1, <1>2, <1>3, <1>4, <1>5, Zenon DEF Step, Send, Flush, FlushGoes

---------------------------------------------------------------------------
(* The types and the lock.                                                 *)

LEMMA InitTxTypes ==
    ASSUME TxInit
    PROVE  TxTypes
<1>1. /\ count \in Nonces /\ cached \in Nonces /\ landed \in [Tasks -> Nat] /\ seen \subseteq Tasks
      /\ sent \in [Tasks -> Nonces] /\ again \subseteq Tasks
      /\ list \in Seq(Tasks \X Nat) /\ raced \in BOOLEAN /\ faults \in 0 .. MaxFaults
      /\ pc \in [Tasks -> Steps]
  <2>1. 0 \in Nonces /\ 0 \in 0 .. MaxFaults /\ 0 \in Nat
    BY TxBounds DEF Nonces
  <2>2. "idle" \in Steps
    BY DEF Steps
  <2>3. list \in Seq(Tasks \X Nat)
    BY DEF TxInit
  <2> QED BY <2>1, <2>2, <2>3, Zenon DEF TxInit
<1>2. pool \in [Nonces -> [req : Tasks, copy : BOOLEAN] \cup {Free}]
  BY Zenon DEF TxInit
<1>3. \A t \in Tasks : pc[t] = "idle"
  BY Zenon DEF TxInit
<1>4. InFlush = {lock} \ {None} /\ Listed
  <2>1. lock = None
    BY Zenon DEF TxInit
  <2> QED BY <1>3, <2>1, Zenon DEF InFlush, Listed, Flushing
<1> QED BY <1>1, <1>2, <1>4, Zenon DEF TxTypes, TxTypeOK

\* What the pool holds is a transaction of a task.
LEMMA HeldTypes ==
    ASSUME TxTypes, NEW n \in Nonces, pool[n] # Free
    PROVE  pool[n] \in [req : Tasks, copy : BOOLEAN] /\ pool[n].req \in Tasks
BY DEF TxTypes, TxTypeOK

\* At most one task is in its flush.
LEMMA OneFlush ==
    ASSUME TxTypes, NEW t \in Tasks, NEW u \in Tasks, pc[t] \in Flushing, pc[u] \in Flushing
    PROVE  t = u
<1>1. InFlush = {lock} \ {None}
  BY Zenon DEF TxTypes, TxTypeOK
<1>2. t \in InFlush /\ u \in InFlush
  BY Zenon DEF InFlush, Flushing
<1> QED BY <1>1, <1>2, Zenon

LEMMA SameFlush ==
    ASSUME TxTypes, NEW t \in Tasks, Moves(t), pc[t] \in Flushing <=> pc'[t] \in Flushing, lock' = lock
    PROVE  (InFlush = {lock} \ {None})'
<1>1. \A u \in Tasks : pc[u] \in Flushing <=> pc'[u] \in Flushing
  BY Zenon DEF Moves
<1>2. InFlush = {lock} \ {None}
  BY Zenon DEF TxTypes, TxTypeOK
<1> QED BY <1>1, <1>2 DEF InFlush, Flushing

\* A flush's list.
LEMMA ContentTypes ==
    ASSUME TxTypes, IsPoolContent(list'), Holding # {}
    PROVE  list' \in Seq(Tasks \X Nat) /\ list' # <<>>
<1>1. Cardinality(Holding) \in Nat
  <2>0. 0 \in Int /\ MaxNonce \in Int
    BY TxBounds
  <2>1. IsFiniteSet(0 .. MaxNonce)
    BY <2>0, FS_Interval, Zenon
  <2>2. Holding \subseteq 0 .. MaxNonce
    BY Zenon DEF Holding, Nonces
  <2>3. IsFiniteSet(Holding)
    BY <2>1, <2>2, FS_Subset, Zenon
  <2> QED BY <2>3, FS_CardinalityType, Zenon
<1>2. PICK f \in [1 .. Cardinality(Holding) -> Holding] :
        /\ Ascending(f) /\ Holding = {f[i] : i \in DOMAIN f}
        /\ list' = [i \in DOMAIN f |-> <<pool[f[i]].req, f[i]>>]
  BY Zenon DEF IsPoolContent
<1>3. \A n \in Holding : pool[n].req \in Tasks /\ n \in Nat
  BY HeldTypes, Counters, Zenon DEF Holding
<1>4. \A i \in 1 .. Cardinality(Holding) : <<pool[f[i]].req, f[i]>> \in Tasks \X Nat
  BY <1>2, <1>3, Zenon
<1>5. list' \in Seq(Tasks \X Nat)
  <2>1. list' = [i \in 1 .. Cardinality(Holding) |-> <<pool[f[i]].req, f[i]>>]
    BY <1>2, Zenon
  <2>2. list' \in [1 .. Cardinality(Holding) -> Tasks \X Nat]
    BY <1>4, <2>1, Zenon
  <2> QED BY <1>1, <2>2
<1>6. DOMAIN list' # {}
  BY <1>2, Zenon
<1>7. DOMAIN <<>> = {}
  OBVIOUS
<1> QED BY <1>5, <1>6, <1>7

LEMMA StepTxTypes ==
    ASSUME TxTypes, TxNext
    PROVE  TxTypes'
<1> DEFINE Slots == [req : Tasks, copy : BOOLEAN] \cup {Free}
<1>1. /\ count \in Nonces /\ cached \in Nonces /\ pool \in [Nonces -> Slots]
      /\ landed \in [Tasks -> Nat] /\ seen \subseteq Tasks
      /\ pc \in [Tasks -> Steps] /\ list \in Seq(Tasks \X Nat)
      /\ raced \in BOOLEAN /\ Listed /\ InFlush = {lock} \ {None}
  BY Zenon DEF TxTypes, TxTypeOK
<1>2. CASE Mine
  <2>1. /\ count' = count + 1 /\ count < MaxNonce /\ pool[count] # Free
        /\ pool' = [pool EXCEPT ![count] = Free]
        /\ landed' = [landed EXCEPT ![pool[count].req] = @ + 1]
        /\ seen' = IF pool[count].copy THEN seen ELSE seen \cup {pool[count].req}
        /\ UNCHANGED <<cached, sent, pc, again, lock, list, raced, faults>>
    BY <1>2, Zenon DEF Mine, senderVars, flushVars
  <2>2. pool[count].req \in Tasks
    BY <1>1, <2>1, HeldTypes, Zenon
  <2>3. count' \in Nonces
    BY <1>1, <2>1, TxBounds DEF Nonces
  <2>4. pool' \in [Nonces -> Slots]
    BY <1>1, <2>1, Zenon
  <2>5. landed' \in [Tasks -> Nat]
    BY <1>1, <2>1, <2>2
  <2>6. seen' \subseteq Tasks
    BY <1>1, <2>1, <2>2, Zenon
  <2> QED BY <2>1, <2>3, <2>4, <2>5, <2>6, Zenon DEF TxTypes, TxTypeOK, Listed, InFlush
<1>3. ASSUME NEW t \in Tasks, Moves(t), Quiet(t) \/ Puts(t)
      PROVE  TxTypes'
  <2>1. pc[t] \notin Flushing /\ pc'[t] \notin Flushing
        /\ UNCHANGED <<count, landed, lock, list, raced>> /\ cached' \in Nonces
    BY <1>3, Zenon DEF Quiet, Puts
  <2>2. pool' \in [Nonces -> Slots]
    <3>1. CASE Quiet(t)
      BY <1>1, <3>1, Zenon DEF Quiet
    <3>2. CASE Puts(t)
      <4>1. [req |-> t, copy |-> FALSE] \in Slots
        OBVIOUS
      <4> QED BY <1>1, <3>2, <4>1, Zenon DEF Puts
    <3> QED BY <1>3, <3>1, <3>2
  <2>3. (InFlush = {lock} \ {None})'
    BY <1>3, <2>1, SameFlush, Zenon
  <2>4. Listed'
    BY <1>1, <1>3, <2>1, Zenon DEF Listed, Moves, Flushing
  <2>5. UNCHANGED seen /\ pc' \in [Tasks -> Steps] /\ again' \subseteq Tasks
        /\ sent' \in [Tasks -> Nonces] /\ faults' \in 0 .. MaxFaults
    BY <1>3, Zenon DEF Moves
  <2> QED BY <1>1, <2>1, <2>2, <2>3, <2>4, <2>5, Zenon DEF TxTypes, TxTypeOK
<1>4. ASSUME NEW t \in Tasks, Moves(t), Leaves(t)
      PROVE  TxTypes'
  <2>1. pc[t] \in Flushing /\ pc'[t] \notin Flushing /\ lock' = None /\ list' = <<>>
        /\ UNCHANGED <<count, pool, landed, cached, raced>>
    BY <1>4, Zenon DEF Leaves
  <2>2. \A u \in Tasks : pc'[u] \notin Flushing
    BY <1>4, <2>1, OneFlush, Zenon DEF Moves
  <2>3. (InFlush = {lock} \ {None})' /\ Listed'
    BY <2>1, <2>2, Zenon DEF InFlush, Listed, Flushing
  <2>4. list' \in Seq(Tasks \X Nat)
    BY <2>1
  <2>5. UNCHANGED seen /\ pc' \in [Tasks -> Steps] /\ again' \subseteq Tasks
        /\ sent' \in [Tasks -> Nonces] /\ faults' \in 0 .. MaxFaults
    BY <1>4, Zenon DEF Moves
  <2> QED BY <1>1, <2>1, <2>3, <2>4, <2>5, Zenon DEF TxTypes, TxTypeOK
<1>5. ASSUME NEW t \in Tasks, Acquire(t)
      PROVE  TxTypes'
  <2>1. pc[t] = "lock" /\ lock = None /\ lock' = t /\ Go(t, "content")
        /\ UNCHANGED <<count, pool, landed, seen, cached, sent, again, list, raced, faults>>
    BY <1>5, Zenon DEF Acquire, accountVars
  <2>2. pc' \in [Tasks -> Steps] /\ pc'[t] = "content" /\ \A u \in Tasks \ {t} : pc'[u] = pc[u]
    BY <1>1, <2>1, GoMoves, Zenon DEF Steps
  <2>3. \A u \in Tasks : pc[u] \notin Flushing
    BY <1>1, <2>1, Zenon DEF InFlush, Flushing
  <2>4. t # None
    BY Zenon, TxBounds
  <2>5. (InFlush = {lock} \ {None})' /\ Listed'
    BY <2>1, <2>2, <2>3, <2>4, Zenon DEF InFlush, Listed, Flushing
  <2> QED BY <1>1, <2>1, <2>2, <2>5, Zenon DEF TxTypes, TxTypeOK
<1>6. ASSUME NEW t \in Tasks, Moves(t), Flushes(t), FlushGoes(t)
      PROVE  TxTypes'
  <2>1. pc[t] \in Flushing /\ pc'[t] \in Flushing /\ UNCHANGED <<count, landed, cached, lock, again>>
    BY <1>6, Zenon DEF Flushes
  <2>2. (InFlush = {lock} \ {None})'
    BY <1>6, <2>1, SameFlush, Zenon
  <2>3. UNCHANGED seen /\ pc' \in [Tasks -> Steps] /\ again' \subseteq Tasks
        /\ sent' \in [Tasks -> Nonces] /\ faults' \in 0 .. MaxFaults
    BY <1>6, Zenon DEF Moves
  <2>4. ASSUME pc[t] # "content"
        PROVE  list # <<>> /\ Len(list) \in Nat \ {0} /\ list[1][1] \in Tasks /\ list[1][2] \in Nat
    <3>1. list # <<>>
      BY <1>1, <2>1, <2>4, Zenon DEF Listed
    <3> QED BY <1>1, <3>1
  <2>5. pool' \in [Nonces -> Slots] /\ raced' \in BOOLEAN
        /\ list' \in Seq(Tasks \X Nat) /\ list' # <<>>
    <3>1. CASE FlushContent(t) /\ Holding # {}
      <4>1. IsPoolContent(list') /\ UNCHANGED <<pool, raced>>
        BY <3>1, Zenon DEF FlushContent, accountVars
      <4> QED BY <1>1, <3>1, <4>1, ContentTypes, Zenon
    <3>2. CASE FlushCount(t)
      <4>1. pc[t] = "count" /\ list' = Renumbered /\ pool' = pool /\ raced' = (raced \/ list[1][2] < count)
        BY <3>2, Zenon DEF FlushCount, accountVars
      <4>2. CASE list' = list
        BY <1>1, <2>4, <4>1, <4>2, Zenon
      <4>3. CASE list' = [i \in DOMAIN list |-> <<list[i][1], count + i - 1>>]
        <5>1. count \in Nat
          BY <1>1, Counters, Zenon
        <5>2. \A i \in 1 .. Len(list) : <<list[i][1], count + i - 1>> \in Tasks \X Nat
          BY <1>1, <5>1
        <5>3. DOMAIN list = 1 .. Len(list) /\ Len(list) \in Nat \ {0}
          BY <1>1, <2>4, <4>1
        <5>4. list' \in [1 .. Len(list) -> Tasks \X Nat]
          BY <4>3, <5>2, <5>3, Zenon
        <5>5. list' \in Seq(Tasks \X Nat)
          BY <5>3, <5>4
        <5>6. 1 \in DOMAIN list'
          BY <5>3, <5>4
        <5>7. list' # <<>>
          BY <5>5, <5>6
        <5> QED BY <1>1, <4>1, <5>5, <5>7, Zenon
      <4> QED BY <4>1, <4>2, <4>3, Zenon DEF Renumbered
    <3>3. CASE FlushSend(t)
      <4>1. pc[t] = "resend" /\ pool' = [pool EXCEPT ![list[1][2]] = [req |-> list[1][1], copy |-> TRUE]]
            /\ UNCHANGED <<list, raced>>
        BY <3>3, Zenon DEF FlushSend, flushVars
      <4>2. list[1][1] \in Tasks /\ list # <<>>
        BY <2>4, <4>1, Zenon
      <4>3. [req |-> list[1][1], copy |-> TRUE] \in Slots
        BY <4>2
      <4> QED BY <1>1, <4>1, <4>2, <4>3, Zenon
    <3>4. CASE FlushConfirmed(t) /\ Len(list) # 1
      <4>1. pc[t] = "flushing" /\ list' = Tail(list) /\ UNCHANGED <<pool, raced>>
        BY <3>4, Zenon DEF FlushConfirmed, accountVars
      <4>2. list \in Seq(Tasks \X Nat) /\ Len(list) \in Nat \ {0, 1} /\ list # <<>>
        BY <1>1, <2>4, <3>4, <4>1
      <4>3. Tail(list) \in Seq(Tasks \X Nat) /\ Len(Tail(list)) = Len(list) - 1
        BY <4>2
      <4>4. Tail(list) # <<>>
        <5>1. Len(<<>>) = 0
          OBVIOUS
        <5>2. Len(Tail(list)) # 0
          BY <4>2, <4>3
        <5> QED BY <5>1, <5>2, Zenon
      <4> QED BY <1>1, <4>1, <4>3, <4>4, Zenon
    <3>5. CASE FlushTimedOut(t)
      <4>1. pc[t] = "flushing" /\ UNCHANGED <<pool, list, raced>>
        BY <3>5, Zenon DEF FlushTimedOut, accountVars, flushVars
      <4> QED BY <1>1, <2>4, <4>1, Zenon
    <3> QED BY <1>6, <3>1, <3>2, <3>3, <3>4, <3>5, Zenon DEF FlushGoes
  <2>6. Listed'
    BY <2>5, Zenon DEF Listed
  <2> QED BY <1>1, <2>1, <2>2, <2>3, <2>5, <2>6, Zenon DEF TxTypes, TxTypeOK
<1> QED BY <1>2, <1>3, <1>4, <1>5, <1>6, TxSteps, Zenon

---------------------------------------------------------------------------
(* What the node has taken.  A nonce of the pool is one the account has    *)
(* not used and the provider has; a flush finds at the nonce it goes to    *)
(* what it sends itself, or what it has sent and seen mined.               *)

Spent == \A n \in Nonces : pool[n] # Free => count <= n
Numbered == \A n \in Nonces : pool[n] # Free => n < cached
Kept == \A t \in Tasks : Accepted(t) => (landed[t] > 0 \/ InPool(t))

\* Before the numbers are compared with the account's: the list is what the pool
\* held, in order; what was mined since is at the front, and what came since is
\* behind it.
Apart == \A i, j \in DOMAIN list : i <= j => list[i][2] + (j - i) <= list[j][2]
Below == \A i \in DOMAIN list : list[i][2] < cached
Found == \A i \in DOMAIN list :
            \/ pool[list[i][2]].req = list[i][1]
            \/ list[i][2] < count /\ landed[list[i][1]] > 0
Covers == \A n \in Nonces : pool[n] # Free =>
            \/ \E i \in DOMAIN list : list[i][2] = n
            \/ \A i \in DOMAIN list : list[i][2] < n
Counted == Apart /\ Below /\ Found /\ Covers

\* After: what a nonce of the list holds was mined once already, or is sent again
\* before that nonce is used or with it.
Replaces == \A i \in DOMAIN list : pool[list[i][2]] # Free =>
            \/ landed[pool[list[i][2]].req] > 0
            \/ \E j \in DOMAIN list : j <= i /\ list[j][1] = pool[list[i][2]].req
Resent == Below /\ Replaces

\* And the transaction it waits for is in the pool or mined.
Sending == pool[list[1][2]].req = list[1][1] \/ landed[list[1][1]] > 0

FlushInv ==
    \A t \in Tasks :
      /\ pc[t] = "count" => Counted
      /\ pc[t] \in {"resend", "flushing"} => Resent
      /\ pc[t] = "flushing" => Sending

TxInv == Spent /\ (raced \/ (Numbered /\ Kept /\ FlushInv))

\* A nonce that holds nothing holds no request.
LEMMA FreeReq ==
    ASSUME NEW t \in Tasks, NEW n, pool[n].req = t
    PROVE  pool[n] # Free
<1>1. Free.req = None
  BY DEF Free
<1> QED BY <1>1, Zenon, TxBounds

LEMMA InitTxInv ==
    ASSUME TxInit
    PROVE  TxInv
<1>1. \A n \in Nonces : pool[n] = Free
  BY Zenon DEF TxInit
<1>2. \A t \in Tasks : pc[t] = "idle"
  BY Zenon DEF TxInit
<1>3. Spent /\ Numbered
  BY <1>1, Zenon DEF Spent, Numbered
<1>4. Kept
  BY <1>2, Zenon DEF Kept, Accepted
<1>5. FlushInv
  BY <1>2, Zenon DEF FlushInv
<1> QED BY <1>3, <1>4, <1>5, Zenon DEF TxInv

\* The list, its entries and its first.
LEMMA ListTypes ==
    ASSUME TxTypes
    PROVE  /\ DOMAIN list = 1 .. Len(list) /\ Len(list) \in Nat
           /\ \A i \in DOMAIN list : i \in Nat /\ i >= 1 /\ list[i][1] \in Tasks /\ list[i][2] \in Nat
           /\ list # <<>> => 1 \in DOMAIN list
<1>1. list \in Seq(Tasks \X Nat)
  BY Zenon DEF TxTypes, TxTypeOK
<1> QED BY <1>1

LEMMA FirstOfList ==
    ASSUME TxTypes, NEW t \in Tasks, pc[t] \in Flushing \ {"content"}
    PROVE  1 \in DOMAIN list /\ list[1][1] \in Tasks /\ list[1][2] \in Nat
<1>1. list # <<>>
  BY Zenon DEF TxTypes, Listed
<1> QED BY <1>1, ListTypes, Zenon

\* A number below the provider's is a nonce of the model.
LEMMA BelowIsNonce ==
    ASSUME TxTypes, Below, NEW i \in DOMAIN list
    PROVE  list[i][2] \in Nonces /\ list[i][2] # cached
<1>1. list[i][2] \in Nat /\ list[i][2] < cached
  BY ListTypes, Zenon DEF Below
<1>2. cached \in 0 .. MaxNonce /\ MaxNonce \in Nat
  BY Zenon, TxBounds DEF TxTypes, TxTypeOK, Nonces
<1> QED BY <1>1, <1>2 DEF Nonces

\* The steps that leave the pool alone.
LEMMA KeptMoves ==
    ASSUME NEW t \in Tasks, Moves(t), Kept, Accepted(t)' => Accepted(t),
           UNCHANGED <<pool, landed>>
    PROVE  Kept'
<1>1. \A u \in Tasks : Accepted(u)' => Accepted(u)
  BY Zenon DEF Moves, Accepted
<1>2. \A u \in Tasks : InPool(u) => InPool(u)'
  BY Zenon DEF InPool
<1> QED BY <1>1, <1>2, Zenon DEF Kept

LEMMA QuietInv ==
    ASSUME TxTypes, TxTypes', TxInv, NEW t \in Tasks, Moves(t), Quiet(t)
    PROVE  TxInv'
<1>1. /\ UNCHANGED <<count, pool, landed, list, raced>> /\ cached <= cached'
      /\ pc[t] \notin Flushing /\ pc'[t] \notin Flushing
      /\ Accepted(t)' => Accepted(t)
  BY Zenon DEF Quiet
<1>2. Spent'
  BY <1>1, Zenon DEF TxInv, Spent
<1>3. SUFFICES ASSUME ~raced PROVE (Numbered /\ Kept /\ FlushInv)'
  BY <1>1, <1>2, Zenon DEF TxInv
<1>4. Numbered /\ Kept /\ FlushInv
  BY <1>3, Zenon DEF TxInv
<1>5. cached \in Nat /\ cached' \in Nat /\ Nonces \subseteq Nat
  BY TxBounds DEF TxTypes, TxTypeOK, Nonces
<1>6. \A n \in Nat : n < cached => n < cached'
  BY <1>1, <1>5
<1>7. Numbered'
  BY <1>1, <1>4, <1>5, <1>6, Zenon DEF Numbered
<1>8. Kept'
  BY <1>1, <1>4, KeptMoves, Zenon
<1>9. Below => Below'
  BY <1>1, <1>6, ListTypes, Zenon DEF Below
<1>10. /\ Counted => Counted'
       /\ Resent => Resent'
       /\ Sending => Sending'
  BY <1>1, <1>9, Zenon DEF Counted, Apart, Found, Covers, Resent, Replaces, Sending
<1>11. \A u \in Tasks : pc'[u] \in Flushing => pc'[u] = pc[u]
  BY <1>1, Zenon DEF Moves
<1>12. FlushInv'
  BY <1>4, <1>10, <1>11, Zenon DEF FlushInv, Flushing
<1> QED BY <1>7, <1>8, <1>12

LEMMA LeavesInv ==
    ASSUME TxTypes, TxInv, NEW t \in Tasks, Moves(t), Leaves(t)
    PROVE  TxInv'
<1>1. /\ UNCHANGED <<count, pool, landed, cached, raced>>
      /\ pc[t] \in Flushing /\ pc'[t] \notin Flushing
      /\ Accepted(t)' => Accepted(t)
  BY Zenon DEF Leaves
<1>2. Spent' /\ (Numbered => Numbered')
  BY <1>1, Zenon DEF TxInv, Spent, Numbered
<1>3. Kept => Kept'
  BY <1>1, KeptMoves, Zenon
<1>4. \A u \in Tasks : pc'[u] \notin Flushing
  BY <1>1, OneFlush, Zenon DEF Moves
<1>5. FlushInv'
  BY <1>4, Zenon DEF FlushInv, Flushing
<1> QED BY <1>1, <1>2, <1>3, <1>5, Zenon DEF TxInv

LEMMA AcquireInv ==
    ASSUME TxTypes, TxInv, NEW t \in Tasks, Acquire(t)
    PROVE  TxInv'
<1>1. /\ pc[t] = "lock" /\ lock = None /\ Go(t, "content")
      /\ UNCHANGED <<count, pool, landed, cached, again, raced>>
  BY Zenon DEF Acquire, accountVars
<1>2. pc \in [Tasks -> Steps] /\ InFlush = {lock} \ {None}
  BY Zenon DEF TxTypes, TxTypeOK
<1>3. pc'[t] = "content" /\ \A u \in Tasks \ {t} : pc'[u] = pc[u]
  BY <1>1, <1>2, GoMoves, Zenon DEF Steps
<1>4. \A u \in Tasks : pc[u] \notin Flushing
  BY <1>1, <1>2, Zenon DEF InFlush, Flushing
<1>5. Spent' /\ (Numbered => Numbered')
  BY <1>1, Zenon DEF TxInv, Spent, Numbered
<1>6. \A u \in Tasks : Accepted(u)' => Accepted(u)
  BY <1>1, <1>3, Zenon DEF Accepted, Steps
<1>7. \A u \in Tasks : InPool(u) => InPool(u)'
  BY <1>1, Zenon DEF InPool
<1>8. Kept => Kept'
  BY <1>1, <1>6, <1>7, Zenon DEF Kept
<1>9. FlushInv'
  BY <1>3, <1>4, Zenon DEF FlushInv, Flushing
<1> QED BY <1>1, <1>5, <1>8, <1>9, Zenon DEF TxInv

LEMMA PutsInv ==
    ASSUME TxTypes, TxInv, NEW t \in Tasks, Moves(t), Puts(t)
    PROVE  TxInv'
<1>1. /\ pc[t] \notin Flushing /\ pc'[t] \notin Flushing
      /\ cached >= count /\ pool[cached] = Free /\ cached' = cached + 1
      /\ pool' = [pool EXCEPT ![cached] = [req |-> t, copy |-> FALSE]]
      /\ UNCHANGED <<count, landed, list, raced>>
  BY Zenon DEF Puts
<1>2. /\ pool \in [Nonces -> [req : Tasks, copy : BOOLEAN] \cup {Free}]
      /\ cached \in Nonces /\ count \in Nat /\ cached \in Nat /\ Nonces \subseteq Nat
  BY TxBounds DEF TxTypes, TxTypeOK, Nonces
<1>3. /\ \A n \in Nonces \ {cached} : pool'[n] = pool[n]
      /\ pool'[cached] = [req |-> t, copy |-> FALSE]
  BY <1>1, <1>2, Zenon
<1>4. pool'[cached].req = t
  BY <1>3
<1>5. count <= cached /\ cached < cached' /\ \A n \in Nat : n < cached => n < cached'
  BY <1>1, <1>2
<1>6. Spent'
  BY <1>1, <1>3, <1>5, Zenon DEF TxInv, Spent
<1>7. SUFFICES ASSUME ~raced PROVE (Numbered /\ Kept /\ FlushInv)'
  BY <1>1, <1>6, Zenon DEF TxInv
<1>8. Numbered /\ Kept /\ FlushInv
  BY <1>7, Zenon DEF TxInv
<1>9. Numbered'
  BY <1>2, <1>3, <1>5, <1>8, Zenon DEF Numbered
<1>10. Kept'
  <2>1. InPool(t)'
    BY <1>2, <1>4, Zenon DEF InPool
  <2>2. \A u \in Tasks : InPool(u) => InPool(u)'
    <3>1. SUFFICES ASSUME NEW u \in Tasks, NEW n \in Nonces, pool[n].req = u
                   PROVE  pool'[n].req = u
      BY Zenon DEF InPool
    <3>2. n # cached
      BY <1>1, <3>1, FreeReq, Zenon
    <3> QED BY <1>3, <3>1, <3>2, Zenon
  <2>3. \A u \in Tasks \ {t} : Accepted(u)' => Accepted(u)
    BY Zenon DEF Moves, Accepted
  <2> QED BY <1>1, <1>8, <2>1, <2>2, <2>3, Zenon DEF Kept
<1>11. Below => Below'
  BY <1>1, <1>5, ListTypes, Zenon DEF Below
<1>12. Below => \A i \in DOMAIN list : pool'[list[i][2]] = pool[list[i][2]]
  BY <1>3, BelowIsNonce, Zenon
<1>13. Counted => Counted'
  <2>1. SUFFICES ASSUME Counted PROVE Counted'
    OBVIOUS
  <2>2. Apart' /\ Found'
    BY <1>1, <1>12, <2>1, Zenon DEF Counted, Apart, Found
  <2>3. Covers'
    <3>1. \A i \in DOMAIN list : list[i][2] < cached
      BY <2>1, Zenon DEF Counted, Below
    <3> QED BY <1>1, <1>3, <2>1, <3>1, Zenon DEF Counted, Covers
  <2> QED BY <1>11, <2>1, <2>2, <2>3, Zenon DEF Counted
<1>14. Resent => Resent'
  <2>1. SUFFICES ASSUME Resent PROVE Resent'
    OBVIOUS
  <2>2. Below' /\ \A i \in DOMAIN list : pool'[list[i][2]] = pool[list[i][2]]
    BY <1>11, <1>12, <2>1, Zenon DEF Resent
  <2>3. Replaces'
    <3>1. SUFFICES ASSUME NEW i \in DOMAIN list, pool'[list[i][2]] # Free
                   PROVE  \/ landed[pool'[list[i][2]].req] > 0
                          \/ \E j \in DOMAIN list : j <= i /\ list[j][1] = pool'[list[i][2]].req
      BY <1>1, Zenon DEF Replaces
    <3> QED BY <2>1, <2>2, <3>1, Zenon DEF Resent, Replaces
  <2> QED BY <2>2, <2>3, Zenon DEF Resent
<1>15. ASSUME NEW u \in Tasks, pc[u] = "flushing" PROVE Sending'
  <2>1. Resent /\ Sending /\ 1 \in DOMAIN list
    BY <1>8, <1>15, FirstOfList, Zenon DEF FlushInv, Flushing
  <2> QED BY <1>1, <1>12, <2>1, Zenon DEF Sending, Resent
<1>16. \A u \in Tasks : pc'[u] \in Flushing => pc'[u] = pc[u]
  BY <1>1, Zenon DEF Moves
<1>17. FlushInv'
  BY <1>8, <1>13, <1>14, <1>15, <1>16, Zenon DEF FlushInv, Flushing
<1> QED BY <1>9, <1>10, <1>17

LEMMA MineInv ==
    ASSUME TxTypes, TxInv, Mine
    PROVE  TxInv'
<1> DEFINE r == pool[count].req
<1>1. /\ pool[count] # Free /\ count' = count + 1
      /\ pool' = [pool EXCEPT ![count] = Free]
      /\ landed' = [landed EXCEPT ![r] = @ + 1]
      /\ UNCHANGED <<cached, pc, again, list, raced>>
  BY Zenon DEF Mine, senderVars, flushVars
<1>2. /\ pool \in [Nonces -> [req : Tasks, copy : BOOLEAN] \cup {Free}]
      /\ count \in Nonces /\ count \in Nat /\ Nonces \subseteq Nat
      /\ landed \in [Tasks -> Nat]
  BY TxBounds DEF TxTypes, TxTypeOK, Nonces
<1>3. r \in Tasks
  BY <1>1, <1>2, HeldTypes, Zenon
<1>4. landed'[r] > 0 /\ \A u \in Tasks : landed[u] > 0 => landed'[u] > 0
  BY <1>1, <1>2, <1>3
<1>5. pool'[count] = Free /\ \A n \in Nonces \ {count} : pool'[n] = pool[n]
  BY <1>1, <1>2, Zenon
<1>6. \A n \in Nat \ {count} : count <= n => count' <= n
  BY <1>1, <1>2
<1>7. Spent'
  BY <1>2, <1>5, <1>6, Zenon DEF TxInv, Spent
<1>8. SUFFICES ASSUME ~raced PROVE (Numbered /\ Kept /\ FlushInv)'
  BY <1>1, <1>7, Zenon DEF TxInv
<1>9. Numbered /\ Kept /\ FlushInv
  BY <1>8, Zenon DEF TxInv
<1>10. Numbered'
  BY <1>1, <1>5, <1>9, Zenon DEF Numbered
<1>11. Kept'
  <2>1. \A u \in Tasks : Accepted(u)' => Accepted(u)
    BY <1>1, Zenon DEF Accepted
  <2>2. \A u \in Tasks : InPool(u) => u = r \/ InPool(u)'
    BY <1>5, Zenon DEF InPool
  <2> QED BY <1>4, <1>9, <2>1, <2>2, Zenon DEF Kept
<1>12. ASSUME Below, NEW i \in DOMAIN list, pool'[list[i][2]] # Free
       PROVE  pool'[list[i][2]] = pool[list[i][2]]
  BY <1>5, <1>12, BelowIsNonce, Zenon
<1>13. ASSUME Below, NEW i \in DOMAIN list, pool[list[i][2]].req = list[i][1]
       PROVE  \/ pool'[list[i][2]].req = list[i][1]
              \/ list[i][2] = count /\ landed'[list[i][1]] > 0
  BY <1>4, <1>5, <1>13, BelowIsNonce, Zenon
<1>14. Counted => Counted'
  <2>1. SUFFICES ASSUME Counted PROVE Counted'
    OBVIOUS
  <2>2. Apart' /\ Below'
    BY <1>1, <2>1, Zenon DEF Counted, Apart, Below
  <2>4. \A n \in Nat : n < count => n < count'
    BY <1>1, <1>2
  <2>5. count < count'
    BY <1>1, <1>2
  <2>6. Found'
    <3>1. SUFFICES ASSUME NEW i \in DOMAIN list
                   PROVE  \/ pool'[list[i][2]].req = list[i][1]
                          \/ list[i][2] < count' /\ landed'[list[i][1]] > 0
      BY <1>1, Zenon DEF Found
    <3>2. list[i][1] \in Tasks /\ list[i][2] \in Nat /\ Below
      BY <2>1, ListTypes, Zenon DEF Counted
    <3>3. CASE pool[list[i][2]].req = list[i][1]
      BY <1>13, <2>5, <3>2, <3>3, Zenon
    <3>4. CASE list[i][2] < count /\ landed[list[i][1]] > 0
      BY <1>4, <2>4, <3>2, <3>4, Zenon
    <3> QED BY <2>1, <3>3, <3>4, Zenon DEF Counted, Found
  <2>7. Covers'
    BY <1>1, <1>5, <2>1, Zenon DEF Counted, Covers
  <2> QED BY <2>2, <2>6, <2>7, Zenon DEF Counted
<1>15. Resent => Resent'
  <2>1. SUFFICES ASSUME Resent PROVE Resent'
    OBVIOUS
  <2>2. Below'
    BY <1>1, <2>1, Zenon DEF Resent, Below
  <2>3. Replaces'
    <3>1. SUFFICES ASSUME NEW i \in DOMAIN list, pool'[list[i][2]] # Free
                   PROVE  \/ landed'[pool'[list[i][2]].req] > 0
                          \/ \E j \in DOMAIN list : j <= i /\ list[j][1] = pool'[list[i][2]].req
      BY <1>1, Zenon DEF Replaces
    <3>2. pool'[list[i][2]] = pool[list[i][2]]
      BY <1>12, <2>1, <3>1, Zenon DEF Resent
    <3>3. pool[list[i][2]].req \in Tasks
      BY <2>1, <3>1, <3>2, BelowIsNonce, HeldTypes, Zenon DEF Resent
    <3>4. \/ landed[pool[list[i][2]].req] > 0
          \/ \E j \in DOMAIN list : j <= i /\ list[j][1] = pool[list[i][2]].req
      BY <2>1, <3>1, <3>2, Zenon DEF Resent, Replaces
    <3> QED BY <1>4, <3>2, <3>3, <3>4, Zenon
  <2> QED BY <2>2, <2>3, Zenon DEF Resent
<1>16. ASSUME NEW u \in Tasks, pc[u] = "flushing" PROVE Sending'
  <2>1. Below /\ Sending
    BY <1>9, <1>16, Zenon DEF FlushInv, Resent
  <2>2. 1 \in DOMAIN list /\ list[1][1] \in Tasks
    BY <1>16, FirstOfList, Zenon DEF Flushing
  <2> QED BY <1>1, <1>4, <1>13, <2>1, <2>2, Zenon DEF Sending
<1>17. FlushInv'
  BY <1>1, <1>9, <1>14, <1>15, <1>16, Zenon DEF FlushInv
<1> QED BY <1>10, <1>11, <1>17

\* The flush goes on: no other task is in one, and what was taken is known.
LEMMA FlushFrame ==
    ASSUME TxTypes, NEW t \in Tasks, Moves(t), Flushes(t)
    PROVE  /\ \A u \in Tasks \ {t} : pc'[u] \notin Flushing
           /\ \A u \in Tasks : Accepted(u)' => Accepted(u)
<1>1. pc[t] \in Flushing /\ again' = again
  BY Zenon DEF Flushes
<1>2. \A u \in Tasks \ {t} : pc'[u] \notin Flushing
  BY <1>1, OneFlush, Zenon DEF Moves
<1>3. Accepted(t)' => Accepted(t)
  BY <1>1, Zenon DEF Accepted, Flushing, Steps
<1>4. \A u \in Tasks \ {t} : Accepted(u)' => Accepted(u)
  BY Zenon DEF Moves, Accepted
<1> QED BY <1>2, <1>3, <1>4, Zenon

\* The same, when the pool is left alone.
LEMMA FlushReads ==
    ASSUME TxTypes, TxInv, NEW t \in Tasks, Moves(t), Flushes(t), pool' = pool
    PROVE  Spent' /\ (Numbered => Numbered') /\ (Kept => Kept')
<1>1. UNCHANGED <<count, landed, cached, pool>>
  BY Zenon DEF Flushes
<1>2. Spent' /\ (Numbered => Numbered')
  BY <1>1, Zenon DEF TxInv, Spent, Numbered
<1>3. \A u \in Tasks : Accepted(u)' => Accepted(u)
  BY FlushFrame, Zenon
<1>4. \A u \in Tasks : InPool(u) => InPool(u)'
  BY <1>1, Zenon DEF InPool
<1> QED BY <1>1, <1>2, <1>3, <1>4, Zenon DEF Kept

LEMMA ContentInv ==
    ASSUME TxTypes, TxTypes', TxInv, NEW t \in Tasks, Moves(t), Flushes(t),
           FlushContent(t), Holding # {}
    PROVE  TxInv'
<1>1. IsPoolContent(list') /\ Go(t, "count") /\ UNCHANGED <<pool, raced>>
  BY Zenon DEF FlushContent, accountVars
<1>2. UNCHANGED <<count, landed, cached>>
  BY Zenon DEF Flushes
<1>3. Spent' /\ (Numbered => Numbered') /\ (Kept => Kept')
  BY <1>1, FlushReads, Zenon
<1>4. pc'[t] = "count"
  BY <1>1 DEF TxTypes, TxTypeOK, Go
<1>5. SUFFICES ASSUME Numbered PROVE Counted'
  BY <1>1, <1>3, <1>4, FlushFrame, Zenon DEF TxInv, FlushInv, Flushing
<1>6. PICK f \in [1 .. Cardinality(Holding) -> Holding] :
        /\ Ascending(f) /\ Holding = {f[i] : i \in DOMAIN f}
        /\ list' = [i \in DOMAIN f |-> <<pool[f[i]].req, f[i]>>]
  BY <1>1, Zenon DEF IsPoolContent
<1>7. DOMAIN list' = DOMAIN f /\ \A i \in DOMAIN f : list'[i] = <<pool[f[i]].req, f[i]>>
  BY <1>6, Zenon
<1>8. \A i \in DOMAIN f : list'[i][1] = pool[f[i]].req /\ list'[i][2] = f[i]
  BY <1>7
<1>9. \A i \in DOMAIN f : f[i] \in Nonces /\ pool[f[i]] # Free
  BY <1>6, Zenon DEF Holding
<1>10. Apart'
  BY <1>6, <1>7, <1>8, Zenon DEF Apart, Ascending
<1>11. Below'
  <2>1. \A i \in DOMAIN f : f[i] < cached
    BY <1>5, <1>9, Zenon DEF Numbered
  <2> QED BY <1>2, <1>7, <1>8, <2>1 DEF Below
<1>12. Found'
  BY <1>1, <1>7, <1>8, Zenon DEF Found
<1>13. Covers'
  <2>1. SUFFICES ASSUME NEW n \in Nonces, pool[n] # Free
                 PROVE  \E i \in DOMAIN f : f[i] = n
    <3>1. \A n \in Nonces : (\E i \in DOMAIN f : f[i] = n) => \E i \in DOMAIN list' : list'[i][2] = n
      BY <1>7, <1>8, Zenon
    <3> QED BY <1>1, <2>1, <3>1, Zenon DEF Covers
  <2>2. n \in Holding
    BY <2>1, Zenon DEF Holding
  <2> QED BY <1>6, <2>2, Zenon
<1> QED BY <1>10, <1>11, <1>12, <1>13, Zenon DEF Counted

\* What FlushCount makes of the list: the numbers start at the account's and go
\* one by one, and none is above the one it replaces.
LEMMA CountInv ==
    ASSUME TxTypes, TxTypes', TxInv, NEW t \in Tasks, Moves(t), Flushes(t),
           FlushCount(t)
    PROVE  TxInv'
<1>1. /\ pc[t] = "count" /\ list' = Renumbered /\ raced' = (raced \/ list[1][2] < count)
      /\ Go(t, "resend") /\ pool' = pool
  BY Zenon DEF FlushCount, accountVars
<1>2. UNCHANGED <<count, landed, cached>>
  BY Zenon DEF Flushes
<1>3. Spent' /\ (Numbered => Numbered') /\ (Kept => Kept')
  BY <1>1, FlushReads, Zenon
<1>4. pc'[t] = "resend"
  BY <1>1 DEF TxTypes, TxTypeOK, Go
<1>5. SUFFICES ASSUME Counted, ~(list[1][2] < count) PROVE Resent'
  <2>1. raced \/ Counted
    BY <1>1, Zenon DEF TxInv, FlushInv
  <2> QED BY <1>1, <1>3, <1>4, <1>5, <2>1, FlushFrame, Zenon DEF TxInv, FlushInv, Flushing
<1>6. 1 \in DOMAIN list /\ list[1][2] \in Nat /\ count \in Nat /\ cached \in Nat
  <2>1. count \in Nat /\ cached \in Nat
    BY Counters, Zenon
  <2> QED BY <1>1, <2>1, FirstOfList, Zenon DEF Flushing
<1>7. \A i \in DOMAIN list : i \in Nat /\ i >= 1 /\ list[i][1] \in Tasks /\ list[i][2] \in Nat
  BY ListTypes, Zenon
<1>8. \A i \in DOMAIN list : list[i][2] \in Nonces
  BY <1>5, BelowIsNonce, Zenon DEF Counted
<1>9. CASE list[1][2] = count
  <2>1. list' = list
    BY <1>1, <1>9, Zenon DEF Renumbered
  <2>2. Below'
    BY <1>2, <1>5, <2>1, Zenon DEF Counted, Below
  <2>3. Replaces'
    <3>1. SUFFICES ASSUME NEW i \in DOMAIN list, pool[list[i][2]] # Free
                   PROVE  i <= i /\ list[i][1] = pool[list[i][2]].req
      BY <1>1, <1>2, <2>1, Zenon DEF Replaces
    <3>2. count <= list[i][2]
      BY <1>8, <3>1, Zenon DEF TxInv, Spent
    <3>3. ~(list[i][2] < count)
      BY <1>6, <1>7, <3>2
    <3>4. pool[list[i][2]].req = list[i][1]
      BY <1>5, <3>3, Zenon DEF Counted, Found
    <3> QED BY <1>7, <3>4
  <2> QED BY <2>2, <2>3, Zenon DEF Resent
<1>10. CASE list[1][2] # count
  <2>1. list' = [i \in DOMAIN list |-> <<list[i][1], count + i - 1>>]
    BY <1>1, <1>10, Zenon DEF Renumbered
  <2>2. DOMAIN list' = DOMAIN list /\ \A i \in DOMAIN list : list'[i][1] = list[i][1] /\ list'[i][2] = count + i - 1
    BY <2>1
  <2>3. \A i \in DOMAIN list : count + i <= list[i][2]
    <3>1. SUFFICES ASSUME NEW i \in DOMAIN list PROVE count + i <= list[i][2]
      OBVIOUS
    <3>2. i \in Nat /\ 1 <= i /\ list[i][2] \in Nat
      BY <1>7
    <3>3. list[1][2] + (i - 1) <= list[i][2]
      BY <1>5, <1>6, <3>2, Zenon DEF Counted, Apart
    <3>4. count + 1 <= list[1][2]
      BY <1>5, <1>6, <1>10
    <3> QED BY <1>6, <3>2, <3>3, <3>4
  <2>4. Below'
    <3>1. \A i \in DOMAIN list : list[i][2] < cached
      BY <1>5, Zenon DEF Counted, Below
    <3>2. \A i \in DOMAIN list : count + i - 1 < cached
      BY <1>6, <1>7, <2>3, <3>1
    <3> QED BY <1>2, <2>2, <3>2, Zenon DEF Below
  <2>5. Replaces'
    <3>1. SUFFICES ASSUME NEW i \in DOMAIN list, pool[count + i - 1] # Free
                   PROVE  \E j \in DOMAIN list : j <= i /\ list[j][1] = pool[count + i - 1].req
      BY <1>1, <1>2, <2>2 DEF Replaces
    <3>2. count + i - 1 \in Nat /\ count + i - 1 < list[i][2] /\ count <= count + i - 1
      BY <1>6, <1>7, <2>3
    <3>3. count + i - 1 \in Nonces
      <4>1. list[i][2] \in 0 .. MaxNonce /\ MaxNonce \in Nat
        BY <1>8, Zenon, TxBounds DEF Nonces
      <4> QED BY <3>2, <4>1 DEF Nonces
    <3>4. ~(list[i][2] < count + i - 1)
      BY <1>7, <3>2
    <3>5. PICK j \in DOMAIN list : list[j][2] = count + i - 1
      BY <1>5, <3>1, <3>3, <3>4, Zenon DEF Counted, Covers
    <3>6. j <= i
      BY <1>6, <1>7, <2>3, <3>5
    <3>7. ~(list[j][2] < count)
      BY <1>6, <3>2, <3>5
    <3>8. pool[list[j][2]].req = list[j][1]
      BY <1>5, <3>7, Zenon DEF Counted, Found
    <3> QED BY <3>5, <3>6, <3>8, Zenon
  <2> QED BY <2>4, <2>5, Zenon DEF Resent
<1> QED BY <1>9, <1>10, Zenon

\* A replacement takes the place of its own request, or of one that was mined.
LEMMA ReplaceInv ==
    ASSUME TxTypes, TxInv, NEW t \in Tasks, Moves(t), Flushes(t), FlushSend(t)
    PROVE  TxInv'
<1> DEFINE r == list[1][1]
           s == list[1][2]
<1>1. /\ pc[t] = "resend" /\ s >= count /\ s <= MaxNonce
      /\ pool' = [pool EXCEPT ![s] = [req |-> r, copy |-> TRUE]]
      /\ Go(t, "flushing") /\ UNCHANGED <<list, raced>>
  BY Zenon DEF FlushSend, flushVars
<1>2. UNCHANGED <<count, landed, cached>>
  BY Zenon DEF Flushes
<1>3. 1 \in DOMAIN list /\ r \in Tasks /\ s \in Nat
  BY <1>1, FirstOfList, Zenon DEF Flushing
<1>4. /\ pool \in [Nonces -> [req : Tasks, copy : BOOLEAN] \cup {Free}]
      /\ count \in Nat /\ Nonces \subseteq Nat
  BY TxBounds DEF TxTypes, TxTypeOK, Nonces
<1>5. s \in Nonces /\ count <= s
  BY <1>1, <1>3, <1>4, TxBounds DEF Nonces
<1>6. pool'[s] = [req |-> r, copy |-> TRUE] /\ \A n \in Nonces \ {s} : pool'[n] = pool[n]
  BY <1>1, <1>4, <1>5, Zenon
<1>7. pool'[s].req = r
  BY <1>6
<1>8. Spent'
  BY <1>2, <1>5, <1>6, Zenon DEF TxInv, Spent
<1>9. pc'[t] = "flushing"
  BY <1>1 DEF TxTypes, TxTypeOK, Go
<1>10. SUFFICES ASSUME Numbered, Kept, Resent PROVE (Numbered /\ Kept /\ Resent /\ Sending)'
  <2>1. raced \/ (Numbered /\ Kept /\ Resent)
    BY <1>1, Zenon DEF TxInv, FlushInv
  <2>2. (Resent /\ Sending)' => FlushInv'
    BY <1>9, FlushFrame, Zenon DEF FlushInv, Flushing
  <2> QED BY <1>1, <1>8, <1>10, <2>1, <2>2, Zenon DEF TxInv
<1>11. Numbered'
  BY <1>2, <1>3, <1>6, <1>10, Zenon DEF Numbered, Resent, Below
<1>12. Kept'
  <2>1. ASSUME NEW u \in Tasks, InPool(u)
        PROVE  landed[u] > 0 \/ InPool(u)'
    <3>1. PICK n \in Nonces : pool[n].req = u
      BY <2>1, Zenon DEF InPool
    <3>2. CASE n # s
      BY <1>6, <3>1, <3>2, Zenon DEF InPool
    <3>3. CASE n = s
      <4>1. pool[s] # Free
        BY <3>1, <3>3, FreeReq, Zenon
      <4>2. landed[u] > 0 \/ \E j \in DOMAIN list : j <= 1 /\ list[j][1] = u
        BY <1>3, <1>10, <3>1, <3>3, <4>1, Zenon DEF Resent, Replaces
      <4>3. \A j \in DOMAIN list : j <= 1 => j = 1
        BY ListTypes
      <4>4. landed[u] > 0 \/ u = r
        BY <4>2, <4>3, Zenon
      <4> QED BY <1>5, <1>7, <4>4, Zenon DEF InPool
    <3> QED BY <3>2, <3>3, Zenon
  <2> QED BY <1>2, <1>10, <2>1, FlushFrame, Zenon DEF Kept
<1>13. Below'
  BY <1>1, <1>2, <1>10, Zenon DEF Resent, Below
<1>14. Replaces'
  <2>1. SUFFICES ASSUME NEW i \in DOMAIN list, pool'[list[i][2]] # Free
                 PROVE  \/ landed[pool'[list[i][2]].req] > 0
                        \/ \E j \in DOMAIN list : j <= i /\ list[j][1] = pool'[list[i][2]].req
    BY <1>1, <1>2, Zenon DEF Replaces
  <2>2. CASE list[i][2] = s
    <3>1. 1 <= i
      BY ListTypes
    <3> QED BY <1>3, <1>7, <2>2, <3>1, Zenon
  <2>3. CASE list[i][2] # s
    <3>1. pool'[list[i][2]] = pool[list[i][2]]
      BY <1>6, <1>10, <2>3, BelowIsNonce, Zenon DEF Resent
    <3> QED BY <1>10, <2>1, <3>1, Zenon DEF Resent, Replaces
  <2> QED BY <2>2, <2>3, Zenon
<1>15. Sending'
  BY <1>1, <1>7, Zenon DEF Sending
<1> QED BY <1>11, <1>12, <1>13, <1>14, <1>15, Zenon DEF Resent

\* The next transaction of the list: the first was mined.
LEMMA ConfirmedInv ==
    ASSUME TxTypes, TxInv, NEW t \in Tasks, Moves(t), Flushes(t),
           FlushConfirmed(t), Len(list) # 1
    PROVE  TxInv'
<1>1. /\ pc[t] = "flushing" /\ count > list[1][2] /\ list' = Tail(list) /\ Go(t, "resend")
      /\ UNCHANGED <<pool, raced>>
  BY Zenon DEF FlushConfirmed, accountVars
<1>2. UNCHANGED <<count, landed, cached>>
  BY Zenon DEF Flushes
<1>3. Spent' /\ (Numbered => Numbered') /\ (Kept => Kept')
  BY <1>1, FlushReads, Zenon
<1>4. pc'[t] = "resend"
  BY <1>1 DEF TxTypes, TxTypeOK, Go
<1>5. SUFFICES ASSUME Resent, Sending PROVE Resent'
  <2>1. raced \/ (Resent /\ Sending)
    BY <1>1, Zenon DEF TxInv, FlushInv
  <2> QED BY <1>1, <1>3, <1>4, <1>5, <2>1, FlushFrame, Zenon DEF TxInv, FlushInv, Flushing
<1>6. 1 \in DOMAIN list /\ list[1][1] \in Tasks /\ list[1][2] \in Nat /\ list[1][2] \in Nonces
      /\ count \in Nat
  <2>1. 1 \in DOMAIN list /\ list[1][1] \in Tasks /\ list[1][2] \in Nat
    BY <1>1, FirstOfList, Zenon DEF Flushing
  <2> QED BY <1>5, <2>1, BelowIsNonce, Counters, Zenon DEF Resent
<1>7. landed[list[1][1]] > 0
  <2>1. ~(count <= list[1][2])
    BY <1>1, <1>6
  <2>2. pool[list[1][2]] = Free
    BY <1>6, <2>1, Zenon DEF TxInv, Spent
  <2> QED BY <1>5, <1>6, <2>2, FreeReq, Zenon DEF Sending
<1>8. list \in Seq(Tasks \X Nat) /\ list # <<>> /\ DOMAIN list = 1 .. Len(list) /\ Len(list) \in Nat
  <2>1. list \in Seq(Tasks \X Nat)
    BY Zenon DEF TxTypes, TxTypeOK
  <2> QED BY <1>6, <2>1
<1>9. \A i \in DOMAIN list' : i \in Nat /\ i + 1 \in DOMAIN list /\ list'[i] = list[i + 1]
  BY <1>1, <1>8
<1>10. \A j \in DOMAIN list \ {1} : j \in Nat /\ j - 1 \in DOMAIN list' /\ list'[j - 1] = list[j]
  BY <1>1, <1>8
<1>11. Below'
  BY <1>2, <1>5, <1>9, Zenon DEF Resent, Below
<1>12. Replaces'
  <2>1. SUFFICES ASSUME NEW i \in DOMAIN list', pool[list[i + 1][2]] # Free
                 PROVE  \/ landed[pool[list[i + 1][2]].req] > 0
                        \/ \E j \in DOMAIN list' : j <= i /\ list'[j][1] = pool[list[i + 1][2]].req
    <3>1. \A i \in DOMAIN list' : pool'[list'[i][2]] = pool[list[i + 1][2]]
      BY <1>1, <1>9, Zenon
    <3> QED BY <1>2, <2>1, <3>1, Zenon DEF Replaces
  <2>2. i \in Nat /\ i + 1 \in DOMAIN list
    BY <1>9
  <2>3. CASE landed[pool[list[i + 1][2]].req] > 0
    BY <2>3
  <2>4. ASSUME NEW j \in DOMAIN list, j <= i + 1, list[j][1] = pool[list[i + 1][2]].req
        PROVE  \/ landed[pool[list[i + 1][2]].req] > 0
               \/ \E k \in DOMAIN list' : k <= i /\ list'[k][1] = pool[list[i + 1][2]].req
    <3>1. CASE j = 1
      BY <1>7, <2>4, <3>1, Zenon
    <3>2. CASE j # 1
      <4>1. j - 1 \in DOMAIN list' /\ list'[j - 1] = list[j] /\ j \in Nat
        BY <1>10, <3>2, Zenon
      <4>2. j - 1 <= i
        BY <2>2, <2>4, <4>1
      <4> QED BY <2>4, <4>1, <4>2, Zenon
    <3> QED BY <3>1, <3>2
  <2> QED BY <1>5, <2>1, <2>2, <2>3, <2>4, Zenon DEF Resent, Replaces
<1> QED BY <1>11, <1>12, Zenon DEF Resent

LEMMA TimedOutInv ==
    ASSUME TxTypes, TxInv, NEW t \in Tasks, Moves(t), Flushes(t), FlushTimedOut(t)
    PROVE  TxInv'
<1>1. pc[t] = "flushing" /\ Go(t, "resend") /\ UNCHANGED <<pool, list, raced>>
  BY Zenon DEF FlushTimedOut, accountVars, flushVars
<1>2. UNCHANGED <<count, landed, cached>>
  BY Zenon DEF Flushes
<1>3. Spent' /\ (Numbered => Numbered') /\ (Kept => Kept')
  BY <1>1, FlushReads, Zenon
<1>4. pc'[t] = "resend"
  BY <1>1 DEF TxTypes, TxTypeOK, Go
<1>5. raced \/ Resent
  BY <1>1, Zenon DEF TxInv, FlushInv
<1>6. Resent => Resent'
  BY <1>1, <1>2, Zenon DEF Resent, Below, Replaces
<1> QED BY <1>1, <1>3, <1>4, <1>5, <1>6, FlushFrame, Zenon DEF TxInv, FlushInv, Flushing

LEMMA StepTxInv ==
    ASSUME TxTypes, TxTypes', TxInv, TxNext
    PROVE  TxInv'
<1>1. CASE Mine
  BY <1>1, MineInv, Zenon
<1>2. ASSUME NEW t \in Tasks, Moves(t), Quiet(t) \/ Puts(t) \/ Leaves(t)
      PROVE  TxInv'
  BY <1>2, QuietInv, PutsInv, LeavesInv, Zenon
<1>3. ASSUME NEW t \in Tasks, Acquire(t)
      PROVE  TxInv'
  BY <1>3, AcquireInv, Zenon
<1>4. ASSUME NEW t \in Tasks, Moves(t), Flushes(t), FlushGoes(t)
      PROVE  TxInv'
  BY <1>4, ContentInv, CountInv, ReplaceInv, ConfirmedInv, TimedOutInv, Zenon DEF FlushGoes
<1> QED BY <1>1, <1>2, <1>3, <1>4, TxSteps, Zenon

LEMMA TxStutter ==
    ASSUME UNCHANGED txVars
    PROVE  (TxTypes => TxTypes') /\ (TxInv => TxInv')
<1>1. UNCHANGED <<count, pool, landed, seen, cached, sent, pc, again, lock, list, raced, faults>>
  BY Zenon DEF txVars, accountVars, senderVars, flushVars
<1>2. TxTypes => TxTypes'
  BY <1>1, Zenon DEF TxTypes, TxTypeOK, InFlush, Listed
<1>3. (Spent => Spent') /\ (Numbered => Numbered') /\ (Kept => Kept')
  BY <1>1, Zenon DEF Spent, Numbered, Kept, Accepted, InPool
<1>4. (Counted => Counted') /\ (Resent => Resent') /\ (Sending => Sending')
  BY <1>1, Zenon DEF Counted, Apart, Below, Found, Covers, Resent, Replaces, Sending
<1>5. FlushInv => FlushInv'
  BY <1>1, <1>4, Zenon DEF FlushInv
<1> QED BY <1>1, <1>2, <1>3, <1>5, Zenon DEF TxInv

(***************************************************************************)
(* The state of EthClient and of its chain stays in its types, and only    *)
(* the task that holds martial_law is in flush_stalled_transactions, for   *)
(* any requests and bounds.                                                *)
(***************************************************************************)
THEOREM OneFlushAtATime ==
    TxSpec => []TxTypeOK
<1>1. TxInit => TxTypes
  BY InitTxTypes
<1>2. TxTypes /\ [TxNext]_txVars => TxTypes'
  BY StepTxTypes, TxStutter
<1>3. TxTypes => TxTypeOK
  BY DEF TxTypes
<1> QED BY <1>1, <1>2, <1>3, PTL DEF TxSpec

(***************************************************************************)
(* A request the node has taken is mined or waits in the pool, for any     *)
(* requests and bounds: the replacements of flush_stalled_transactions     *)
(* push none out, unless a flush finds its first transaction mined before  *)
(* it compares the numbers.                                                *)
(***************************************************************************)
THEOREM NoTransactionIsLost ==
    TxSpec => []NothingLost
<1>1. TxInit => TxTypes /\ TxInv
  BY InitTxTypes, InitTxInv
<1>2. TxTypes /\ TxInv /\ [TxNext]_txVars => TxTypes' /\ TxInv'
  BY StepTxTypes, StepTxInv, TxStutter
<1>3. TxInv => NothingLost
  BY Zenon DEF TxInv, Kept, NothingLost
<1> QED BY <1>1, <1>2, <1>3, PTL DEF TxSpec

=============================================================================
