-------------------------- MODULE PsbtQueueProofs --------------------------
(***************************************************************************)
(* PsbtQueue, for any number of relayers and any quorum: its types, that   *)
(* an approved rollback is of a final deposit, and that a payment reported *)
(* as executed has been broadcast.  VaultKeys, for any users and rounds:   *)
(* its types, that an accepted key is in its round's directory, and that   *)
(* no withdrawal is signed while the funds move to the next vault.         *)
(***************************************************************************)
EXTENDS PsbtQueue, VaultKeys, TLAPS

Xts == [from : Relayers, call : Calls, arg : Polls, life : 0 .. Lifetime, left : 1 .. Retries]

\* A new message is an extrinsic.
LEMMA MsgType ==
    ASSUME NEW r \in Relayers, NEW call \in Calls, NEW arg \in Polls, NEW life \in 0 .. Lifetime
    PROVE  /\ Msg(r, call, arg, life) \in Xts
           /\ Msg(r, call, arg, life).from = r
           /\ Msg(r, call, arg, life).call = call
           /\ Msg(r, call, arg, life).arg = arg
BY QueueAssumption DEF Msg, Xts

\* A retried extrinsic stays what it was, with a retry less.
LEMMA RetriedXts ==
    ASSUME xts \subseteq Xts, NEW x \in xts
    PROVE  /\ Retried(x) \subseteq Xts
           /\ \A y \in Retried(x) : \E z \in xts :
                y.from = z.from /\ y.call = z.call /\ y.arg = z.arg
<1> DEFINE z == [x EXCEPT !.left = @ - 1]
<1>1. x \in Xts
  OBVIOUS
<1>2. x.left # 1 => z \in Xts
  BY <1>1, QueueAssumption DEF Xts
<1>3. z.from = x.from /\ z.call = x.call /\ z.arg = x.arg
  BY <1>1 DEF Xts
<1>4. Retried(x) \subseteq (xts \cup {z}) /\ (z \in Retried(x) => z \in Xts)
  BY <1>2 DEF Retried
<1> HIDE DEF z
<1> QED
  BY <1>3, <1>4

\* What a step does to the deadline of an extrinsic leaves the rest of it alone.
LEMMA AgedXts ==
    ASSUME xts \subseteq Xts
    PROVE  LET aged == {[x EXCEPT !.life = @ - 1] : x \in {y \in xts : y.life > 1}}
           IN /\ aged \subseteq Xts
              /\ \A y \in aged : \E z \in xts :
                   y.from = z.from /\ y.call = z.call /\ y.arg = z.arg
<1> SUFFICES ASSUME NEW x \in xts, x.life > 1
             PROVE  LET y == [x EXCEPT !.life = @ - 1]
                    IN y \in Xts /\ y.from = x.from /\ y.call = x.call /\ y.arg = x.arg
  BY Zenon
<1> QED
  BY QueueAssumption DEF Xts

\* The verdict of a verifier that does not panic is a vote.
LEMMA VerdictType ==
    ASSUME NEW fetched \in BOOLEAN, Verdict(fetched) # "panic"
    PROVE  Verdict(fetched) \in {"yes", "no"}
BY DEF Verdict, is_rollback_valid

\* Every step keeps the types.
LEMMA StepType == TypeOK /\ [Next]_vars => TypeOK'
<1> SUFFICES ASSUME TypeOK, [Next]_vars PROVE TypeOK'
  OBVIOUS
<1> USE QueueAssumption
<1>0. xts \subseteq Xts
  BY DEF TypeOK, Xts
<1>1. CASE Mine \/ Reorganise \/ Evict
  <2>1. CASE Mine
    BY <2>1 DEF Mine, TypeOK, queue, workers, history, bounds
  <2>2. CASE Reorganise
    BY <2>2 DEF Reorganise, TypeOK, queue, workers, history
  <2>3. CASE Evict
    BY <2>3 DEF Evict, Fault, TypeOK, queue, workers
  <2> QED BY <1>1, <2>1, <2>2, <2>3
<1>2. ASSUME NEW x \in xts, Land(x) PROVE TypeOK'
  <2>1. x.from \in Relayers /\ x.arg \in Polls
    BY <1>0 DEF Xts
  <2>2. UNCHANGED <<request, bitcoin, down, history, bounds>>
    BY <1>2 DEF Land
  <2>3. (xts' = xts \ {x} /\ UNCHANGED <<stage, workers>>) =>
          xts' \subseteq Xts /\ UNCHANGED workers /\ UNCHANGED stage
    BY <1>0
  <2>4. LeaveBehind =>
          /\ xts' \subseteq Xts /\ news' = {} /\ bro' = bro
          /\ ver' \in [Relayers -> Polls \cup {"idle"}]
          /\ feeder' \in [Relayers -> {"idle", "fetching", "fetched"}]
    BY DEF LeaveBehind
  <2>5. CASE LandPoll(x)
    <3>1. votes' = [votes EXCEPT ![x.from] = x.arg] /\ UNCHANGED <<rates, executed>>
      BY <2>5 DEF LandPoll
    <3>2. votes' \in [Relayers -> Polls]
      BY <2>1, <3>1 DEF TypeOK
    <3>3. CASE stage' = "signing" /\ LeaveBehind
      BY <2>2, <2>4, <3>1, <3>2, <3>3 DEF TypeOK, Xts, bitcoin, history, bounds
    <3>4. CASE xts' = xts \ {x} /\ UNCHANGED <<stage, workers>>
      BY <2>2, <2>3, <3>1, <3>2, <3>4 DEF TypeOK, Xts, bitcoin, history, bounds, workers
    <3> QED BY <2>5, <3>3, <3>4 DEF LandPoll
  <2>6. CASE LandFeeRate(x)
    BY <2>1, <2>2, <2>3, <2>6 DEF LandFeeRate, TypeOK, Xts, bitcoin, history, bounds, workers
  <2>7. CASE LandExecuted(x)
    <3>1. executed' = executed \cup {x.from} /\ UNCHANGED <<votes, rates>>
      BY <2>7 DEF LandExecuted
    <3>2. executed' \subseteq Relayers
      BY <2>1, <3>1 DEF TypeOK
    <3>3. CASE stage' = "executed" /\ LeaveBehind
      BY <2>2, <2>4, <3>1, <3>2, <3>3 DEF TypeOK, Xts, bitcoin, history, bounds
    <3>4. CASE xts' = xts \ {x} /\ UNCHANGED <<stage, workers>>
      BY <2>2, <2>3, <3>1, <3>2, <3>4 DEF TypeOK, Xts, bitcoin, history, bounds, workers
    <3> QED BY <2>7, <3>3, <3>4 DEF LandExecuted
  <2> QED BY <1>2, <2>5, <2>6, <2>7 DEF Land
<1>3. ASSUME NEW x \in xts, Refuse(x) \/ Fail(x) PROVE TypeOK'
  <2>1. xts' \subseteq Xts
    BY <1>0, <1>3, RetriedXts DEF Refuse, Fail
  <2>2. faults' \in 0 .. MaxFaults /\ UNCHANGED <<queue, bitcoin, workers, down, history, reorgs>>
    BY <1>3 DEF Refuse, Fail, Fault, TypeOK, bounds
  <2> QED BY <2>1, <2>2 DEF TypeOK, Xts, queue, bitcoin, workers, history
<1>4. CASE NewBlock
  <2>1. xts' \subseteq Xts
    BY <1>0, <1>4, AgedXts DEF NewBlock
  <2> QED BY <1>4, <2>1 DEF NewBlock, TypeOK, Xts, queue, bitcoin, history, bounds
<1>5. CASE Compose \/ Sign
  <2>1. CASE Compose
    BY <2>1 DEF Compose, LeaveBehind, TypeOK, bitcoin, history, bounds
  <2>2. CASE Sign
    BY <2>2 DEF Sign, TypeOK, bitcoin, workers, history, bounds
  <2> QED BY <1>5, <2>1, <2>2
<1>6. ASSUME NEW r \in Relayers, Verifier(r) PROVE TypeOK'
  <2>1. CASE ReadRequest(r)
    BY <2>1 DEF ReadRequest, TypeOK, queue, bitcoin, history, bounds
  <2>2. CASE Verify(r)
    <3>1. PICK fetched \in BOOLEAN :
            /\ IF fetched = known THEN UNCHANGED faults ELSE ~fetched /\ Fault
            /\ IF Verdict(fetched) = "panic"
               THEN /\ down' = down \cup {r} /\ xts' = {x \in xts : x.from # r}
                    /\ UNCHANGED unburied
               ELSE /\ xts' = IF Vote(r, Verdict(fetched))
                              THEN xts \cup {Msg(r, "SubmitRollbackPoll", Verdict(fetched), 0)}
                              ELSE xts
                    /\ unburied' = (unburied \/ (depth = 0 /\ Verdict(fetched) = "yes"))
                    /\ UNCHANGED down
      BY <2>2 DEF Verify
    <3>2. /\ UNCHANGED <<queue, bitcoin, feeder, news, bro, failed, evicted, reorgs>>
          /\ ver' = [ver EXCEPT ![r] = "idle"]
      BY <2>2 DEF Verify
    <3>3. faults' \in 0 .. MaxFaults
      BY <3>1 DEF Fault, TypeOK
    <3>4. down' \subseteq Relayers /\ unburied' \in BOOLEAN
      BY <3>1, Zenon DEF TypeOK
    <3>5. xts' \subseteq Xts
      <4>1. CASE Verdict(fetched) = "panic"
        BY <1>0, <3>1, <4>1
      <4>2. CASE Verdict(fetched) # "panic"
        <5>1. Msg(r, "SubmitRollbackPoll", Verdict(fetched), 0) \in Xts
          BY <4>2, VerdictType, MsgType DEF Calls, Polls
        <5> QED BY <1>0, <3>1, <4>2, <5>1
      <4> QED BY <4>1, <4>2
    <3>6. ver' \in [Relayers -> Polls \cup {"idle"}]
      BY <3>2 DEF TypeOK
    <3> QED BY <3>2, <3>3, <3>4, <3>5, <3>6 DEF TypeOK, Xts, queue, bitcoin
  <2> QED BY <1>6, <2>1, <2>2 DEF Verifier
<1>7. ASSUME NEW r \in Relayers, Feeder(r) PROVE TypeOK'
  <2>1. Msg(r, "SubmitFeeRate", "none", Lifetime) \in Xts
    BY MsgType DEF Calls, Polls
  <2>2. CASE is_fee_rate_submitted(r)
    BY <2>2 DEF is_fee_rate_submitted, TypeOK, queue, bitcoin, history, bounds
  <2>3. CASE fetch_fee_rate(r)
    BY <2>3 DEF fetch_fee_rate, TypeOK, queue, bitcoin, history, bounds
  <2>4. CASE submit_fee_rate(r)
    <3>1. xts' \subseteq Xts
      BY <1>0, <2>1, <2>4 DEF submit_fee_rate
    <3> QED BY <2>4, <3>1 DEF submit_fee_rate, TypeOK, Xts, queue, bitcoin, history, bounds
  <2> QED BY <1>7, <2>2, <2>3, <2>4 DEF Feeder
<1>8. ASSUME NEW r \in Relayers, Broadcaster(r) PROVE TypeOK'
  <2>1. Msg(r, "SubmitExecutedRequest", "none", 0) \in Xts
    BY MsgType DEF Calls, Polls
  <2>2. CASE get_finalized_psbts(r)
    BY <2>2 DEF get_finalized_psbts, TypeOK, queue, bitcoin, history, bounds
  <2>3. CASE Broadcast(r)
    <3>1. xts' \subseteq Xts
      BY <1>0, <2>1, <2>3 DEF Broadcast
    <3>2. /\ payout' \in {"unsent", "mempool", "mined"} /\ failed' \subseteq Relayers
          /\ faults' \in 0 .. MaxFaults
      BY <2>3 DEF Broadcast, broadcast_transaction, Fault, TypeOK
    <3> QED BY <2>3, <3>1, <3>2 DEF Broadcast, TypeOK, Xts, queue
  <2> QED BY <1>8, <2>2, <2>3 DEF Broadcaster
<1>9. ASSUME NEW r \in Relayers, Crash(r) PROVE TypeOK'
  BY <1>9 DEF Crash, Fault, TypeOK, queue, bitcoin, history
<1>10. CASE UNCHANGED vars
  BY <1>10 DEF vars, queue, bitcoin, workers, history, bounds, TypeOK
<1> QED
  BY <1>1, <1>2, <1>3, <1>4, <1>5, <1>6, <1>7, <1>8, <1>9, <1>10 DEF Next

\* The variables keep their types: an extrinsic under way has an attempt left.
THEOREM TypeCorrect == Spec => []TypeOK
<1>1. Init => TypeOK
  <2> SUFFICES ASSUME Init PROVE TypeOK
    OBVIOUS
  <2>1. stage \in {"fee", "poll", "signing", "finalized", "executed"}
    BY DEF Init
  <2>2. /\ votes \in [Relayers -> Polls] /\ ver \in [Relayers -> Polls \cup {"idle"}]
        /\ feeder \in [Relayers -> {"idle", "fetching", "fetched"}]
    BY DEF Init, Polls
  <2>3. depth \in 0 .. Confirmations /\ faults \in 0 .. MaxFaults /\ reorgs \in 0 .. MaxReorgs
    BY QueueAssumption DEF Init
  <2>4. known \in BOOLEAN /\ unburied \in BOOLEAN /\ evicted \in BOOLEAN
    BY Zenon DEF Init
  <2> QED BY <2>1, <2>2, <2>3, <2>4 DEF Init, TypeOK
<1> QED BY <1>1, StepType, PTL DEF Spec

---------------------------------------------------------------------------
(* The inductive invariant follows an approval and a report of execution   *)
(* from the worker that made it, through the extrinsic, into the queue:    *)
(* what stood behind it when it was made does so ever after.               *)

Deep == unburied \/ (known /\ depth >= Confirmations)
Sent(r) == payout # "unsent" \/ evicted \/ r \in failed

IInv ==
    /\ request.rollback => stage # "fee"
    /\ (request.rollback /\ stage # "poll") => Deep
    /\ \A x \in xts : x.arg = "yes" => Deep
    /\ \A r \in Relayers : votes[r] = "yes" => Deep
    /\ \A x \in xts : x.call = "SubmitExecutedRequest" => Sent(x.from)
    /\ \A r \in executed : Sent(r)

\* No step undoes what an approval, or a report, rests on.
LEMMA Lasting ==
    ASSUME TypeOK, [Next]_vars
    PROVE  (Deep => Deep') /\ (\A r \in Relayers : Sent(r) => Sent(r)')
<1> USE QueueAssumption DEF Deep, Sent
<1>1. CASE Mine \/ Reorganise \/ Evict
  BY <1>1 DEF Mine, Reorganise, Evict, history, TypeOK
<1>2. ASSUME UNCHANGED <<bitcoin, history>>
      PROVE  (Deep => Deep') /\ (\A r \in Relayers : Sent(r) => Sent(r)')
  BY <1>2 DEF bitcoin, history
<1>3. ASSUME NEW x \in xts, Land(x) \/ Refuse(x) \/ Fail(x) PROVE UNCHANGED <<bitcoin, history>>
  BY <1>3 DEF Land, Refuse, Fail
<1>4. CASE NewBlock \/ Compose \/ Sign
  BY <1>2, <1>4 DEF NewBlock, Compose, Sign
<1>5. ASSUME NEW r \in Relayers, Verifier(r)
      PROVE  (Deep => Deep') /\ (\A s \in Relayers : Sent(s) => Sent(s)')
  <2>1. CASE ReadRequest(r)
    BY <1>2, <2>1 DEF ReadRequest
  <2>2. CASE Verify(r)
    <3>1. UNCHANGED <<bitcoin, failed, evicted>> /\ (unburied => unburied')
      BY <2>2, Zenon DEF Verify
    <3> QED BY <3>1 DEF bitcoin
  <2> QED BY <1>5, <2>1, <2>2 DEF Verifier
<1>6. ASSUME NEW r \in Relayers, Feeder(r) \/ Crash(r) PROVE UNCHANGED <<bitcoin, history>>
  BY <1>6 DEF Feeder, is_fee_rate_submitted, fetch_fee_rate, submit_fee_rate, Crash
<1>7. ASSUME NEW r \in Relayers, Broadcaster(r)
      PROVE  (Deep => Deep') /\ (\A s \in Relayers : Sent(s) => Sent(s)')
  <2>1. CASE get_finalized_psbts(r)
    BY <1>2, <2>1 DEF get_finalized_psbts
  <2>2. CASE Broadcast(r)
    <3>1. UNCHANGED <<known, depth, unburied, evicted>> /\ (payout # "unsent" => payout' # "unsent")
          /\ failed \subseteq failed'
      BY <2>2 DEF Broadcast, broadcast_transaction
    <3> QED BY <3>1
  <2> QED BY <1>7, <2>1, <2>2 DEF Broadcaster
<1>8. CASE UNCHANGED vars
  BY <1>2, <1>8 DEF vars
<1> QED
  BY <1>1, <1>2, <1>3, <1>4, <1>5, <1>6, <1>7, <1>8 DEF Next

\* A step that leaves the queue alone and makes no new extrinsic.
LEMMA Quiet ==
    ASSUME TypeOK, IInv, [Next]_vars, UNCHANGED <<request, stage, votes, executed>>,
           \A y \in xts' : \E z \in xts : y.from = z.from /\ y.call = z.call /\ y.arg = z.arg
    PROVE  IInv'
<1>1. \A x \in xts : x.from \in Relayers
  BY DEF TypeOK
<1>2. (Deep => Deep') /\ (\A r \in Relayers : Sent(r) => Sent(r)')
  BY Lasting
<1>3. executed \subseteq Relayers
  BY DEF TypeOK
<1>4. \A y \in xts' : (y.arg = "yes" => Deep')
                      /\ (y.call = "SubmitExecutedRequest" => Sent(y.from)')
  <2> SUFFICES ASSUME NEW y \in xts'
               PROVE  (y.arg = "yes" => Deep') /\ (y.call = "SubmitExecutedRequest" => Sent(y.from)')
    OBVIOUS
  <2>1. PICK z \in xts : y.from = z.from /\ y.call = z.call /\ y.arg = z.arg
    OBVIOUS
  <2>2. (z.arg = "yes" => Deep) /\ (z.call = "SubmitExecutedRequest" => Sent(z.from))
    BY DEF IInv
  <2>3. z.call = "SubmitExecutedRequest" => Sent(z.from)'
    BY <1>1, <1>2, <2>2
  <2> QED BY <1>2, <2>1, <2>2, <2>3 DEF Sent
<1> QED BY <1>2, <1>3, <1>4 DEF IInv

\* Approval takes a vote for it, as the quorum is not empty.
LEMMA ApprovalNeedsVote ==
    ASSUME NEW v \in [Relayers -> Polls], Approves(v)
    PROVE  \E r \in Relayers : v[r] = "yes"
<1> SUFFICES ASSUME \A r \in Relayers : v[r] # "yes" PROVE FALSE
  OBVIOUS
<1>1. {r \in Relayers : v[r] = "yes"} = {}
  OBVIOUS
<1>2. Cardinality({}) = 0
  BY Zenon DEF Cardinality
<1> QED BY <1>1, <1>2, QueueAssumption DEF Approves

\* Every step keeps the invariant.
LEMMA StepInv == TypeOK /\ IInv /\ [Next]_vars => IInv'
<1> SUFFICES ASSUME TypeOK, IInv, [Next]_vars PROVE IInv'
  OBVIOUS
<1>0. xts \subseteq Xts /\ \A x \in xts : x.from \in Relayers
  BY DEF TypeOK, Xts
<1>a. (Deep => Deep') /\ (\A r \in Relayers : Sent(r) => Sent(r)')
  BY Lasting
<1>b. executed \subseteq Relayers
  BY DEF TypeOK
<1>1. CASE Mine \/ Reorganise \/ Evict
  BY <1>1, Quiet DEF Mine, Reorganise, Evict, queue
<1>2. ASSUME NEW x \in xts, Land(x) PROVE IInv'
  <2>1. UNCHANGED <<request, bitcoin, history>>
    BY <1>2 DEF Land
  <2>2. UNCHANGED Deep /\ \A r : UNCHANGED Sent(r)
    BY <2>1 DEF Deep, Sent, bitcoin, history
  <2>3. xts' = {} \/ xts' = xts \ {x}
    BY <1>2 DEF Land, LandPoll, LandFeeRate, LandExecuted, LeaveBehind
  <2>4. \A y \in xts' : (y.arg = "yes" => Deep')
                        /\ (y.call = "SubmitExecutedRequest" => Sent(y.from)')
    BY <2>2, <2>3 DEF IInv, Sent
  <2>5. CASE LandPoll(x)
    <3>1. votes' = [votes EXCEPT ![x.from] = x.arg] /\ executed' = executed
          /\ stage' \in {stage, "signing"} /\ (stage' # stage => Approves(votes'))
          /\ stage = "poll"
      BY <1>2, <2>5 DEF Land, Takes, LandPoll
    <3>2. \A r \in Relayers : votes'[r] = "yes" => Deep'
      BY <1>0, <2>2, <3>1 DEF IInv, TypeOK
    <3>3. votes' \in [Relayers -> Polls]
      BY <1>0, <3>1 DEF TypeOK, Xts
    <3>4. stage' # stage => Deep'
      BY <3>1, <3>2, <3>3, ApprovalNeedsVote, Zenon
    <3> QED BY <2>1, <2>2, <2>4, <3>1, <3>2, <3>4 DEF IInv
  <2>6. CASE LandFeeRate(x)
    BY <2>1, <2>2, <2>4, <2>6 DEF LandFeeRate, IInv
  <2>7. CASE LandExecuted(x)
    <3>1. executed' = executed \cup {x.from} /\ votes' = votes
          /\ stage' \in {stage, "executed"} /\ stage = "finalized"
          /\ x.call = "SubmitExecutedRequest"
      BY <1>2, <2>7 DEF Land, Takes, LandExecuted
    <3>2. \A r \in executed' : Sent(r)'
      BY <2>2, <3>1 DEF IInv
    <3> QED BY <2>1, <2>2, <2>4, <3>1, <3>2 DEF IInv
  <2> QED BY <1>2, <2>5, <2>6, <2>7 DEF Land
<1>3. ASSUME NEW x \in xts, Refuse(x) \/ Fail(x) PROVE IInv'
  BY <1>0, <1>3, RetriedXts, Quiet DEF Refuse, Fail, queue
<1>4. CASE NewBlock
  BY <1>0, <1>4, AgedXts, Quiet DEF NewBlock, queue
<1>5. CASE Compose \/ Sign
  <2>1. UNCHANGED <<request, votes, executed, bitcoin, history>> /\ xts' \subseteq xts
        /\ stage \in {"fee", "signing"} /\ stage' \in {"signing", "finalized"}
    BY <1>5 DEF Compose, Sign, LeaveBehind
  <2>2. UNCHANGED Deep /\ \A r : UNCHANGED Sent(r)
    BY <2>1 DEF Deep, Sent, bitcoin, history
  <2> QED BY <2>1, <2>2 DEF IInv
<1>6. ASSUME NEW r \in Relayers, Verifier(r) PROVE IInv'
  <2>1. CASE ReadRequest(r)
    BY <2>1, Quiet DEF ReadRequest, queue
  <2>2. CASE Verify(r)
    <3>1. UNCHANGED <<request, stage, votes, executed, known, depth>>
      BY <2>2 DEF Verify, queue, bitcoin
    <3>2. PICK fetched \in BOOLEAN :
            /\ IF fetched = known THEN UNCHANGED faults ELSE ~fetched /\ Fault
            /\ IF Verdict(fetched) = "panic"
               THEN /\ down' = down \cup {r} /\ xts' = {x \in xts : x.from # r}
                    /\ UNCHANGED unburied
               ELSE /\ xts' = IF Vote(r, Verdict(fetched))
                              THEN xts \cup {Msg(r, "SubmitRollbackPoll", Verdict(fetched), 0)}
                              ELSE xts
                    /\ unburied' = (unburied \/ (depth = 0 /\ Verdict(fetched) = "yes"))
                    /\ UNCHANGED down
      BY <2>2 DEF Verify
    <3>3. CASE xts' \subseteq xts
      BY <3>1, <3>3, Quiet
    <3>4. CASE ~(xts' \subseteq xts)
      <4> DEFINE m == Msg(r, "SubmitRollbackPoll", Verdict(fetched), 0)
      <4>1. /\ Verdict(fetched) # "panic" /\ xts' = xts \cup {m}
            /\ unburied' = (unburied \/ (depth = 0 /\ Verdict(fetched) = "yes"))
        BY <3>2, <3>4
      <4>2. m.call = "SubmitRollbackPoll" /\ m.arg = Verdict(fetched)
        BY DEF Msg
      <4>3. Verdict(fetched) = "yes" => Deep'
        <5> SUFFICES ASSUME Verdict(fetched) = "yes" PROVE Deep'
          OBVIOUS
        <5>1. fetched /\ Buried
          BY DEF Verdict, is_rollback_valid
        <5>2. known
          BY <3>2, <5>1, Zenon DEF TypeOK
        <5> QED BY <3>1, <4>1, <5>1, <5>2, Zenon DEF Buried, Deep
      <4> HIDE DEF m
      <4>4. \A y \in xts' : (y.arg = "yes" => Deep')
                            /\ (y.call = "SubmitExecutedRequest" => Sent(y.from)')
        BY <1>0, <1>a, <4>1, <4>2, <4>3 DEF IInv
      <4> QED BY <1>a, <1>b, <3>1, <4>4 DEF IInv
    <3> QED BY <3>3, <3>4
  <2> QED BY <1>6, <2>1, <2>2 DEF Verifier
<1>7. ASSUME NEW r \in Relayers, Feeder(r) PROVE IInv'
  <2>1. CASE is_fee_rate_submitted(r) \/ fetch_fee_rate(r)
    BY <2>1, Quiet DEF is_fee_rate_submitted, fetch_fee_rate, queue
  <2>2. CASE submit_fee_rate(r)
    <3> DEFINE m == Msg(r, "SubmitFeeRate", "none", Lifetime)
    <3>1. xts' = xts \cup {m} /\ UNCHANGED <<request, stage, votes, executed>>
      BY <2>2 DEF submit_fee_rate, queue
    <3>2. m.call = "SubmitFeeRate" /\ m.arg = "none"
      BY DEF Msg
    <3> HIDE DEF m
    <3>3. \A y \in xts' : (y.arg = "yes" => Deep')
                          /\ (y.call = "SubmitExecutedRequest" => Sent(y.from)')
      BY <1>0, <1>a, <3>1, <3>2 DEF IInv
    <3> QED BY <1>a, <1>b, <3>1, <3>3 DEF IInv
  <2> QED BY <1>7, <2>1, <2>2 DEF Feeder
<1>8. ASSUME NEW r \in Relayers, Broadcaster(r) PROVE IInv'
  <2>1. CASE get_finalized_psbts(r)
    BY <2>1, Quiet DEF get_finalized_psbts, queue
  <2>2. CASE Broadcast(r)
    <3> DEFINE m == Msg(r, "SubmitExecutedRequest", "none", 0)
    <3>1. xts' = xts \cup {m} /\ UNCHANGED <<request, stage, votes, executed>>
      BY <2>2 DEF Broadcast, queue
    <3>2. m.from = r /\ m.arg = "none"
      BY DEF Msg
    <3>3. Sent(r)'
      BY <2>2 DEF Broadcast, broadcast_transaction, Sent
    <3> HIDE DEF m
    <3>4. \A y \in xts' : (y.arg = "yes" => Deep')
                          /\ (y.call = "SubmitExecutedRequest" => Sent(y.from)')
      BY <1>0, <1>a, <3>1, <3>2, <3>3 DEF IInv
    <3> QED BY <1>a, <1>b, <3>1, <3>4 DEF IInv
  <2> QED BY <1>8, <2>1, <2>2 DEF Broadcaster
<1>9. ASSUME NEW r \in Relayers, Crash(r) PROVE IInv'
  BY <1>9, Quiet DEF Crash, queue
<1>10. CASE UNCHANGED vars
  BY <1>10, Quiet DEF vars, queue
<1> QED
  BY <1>1, <1>2, <1>3, <1>4, <1>5, <1>6, <1>7, <1>8, <1>9, <1>10 DEF Next

\* The invariant holds.
LEMMA Invariance == Spec => [](TypeOK /\ IInv)
<1>1. Init => IInv
  BY DEF Init, IInv
<1> QED BY <1>1, TypeCorrect, StepInv, PTL DEF Spec

\* An approved rollback is of a deposit under the confirmations is_rollback_valid asks
\* for, unless a verifier found the deposit in the mempool: for any number of relayers,
\* faults and reorganisations.
THEOREM ApprovalsAreFinal == Spec => []ApprovedIsFinal
<1>1. IInv => ApprovedIsFinal
  BY DEF IInv, Deep, ApprovedIsFinal
<1> QED BY <1>1, Invariance, PTL

\* A payment leaves the queue unsent only if the broadcast of every relayer that reported
\* it had failed (broadcast_transaction, and the report that follows it in run).
THEOREM ExecutionsAreBroadcast == Spec => []ExecutedIsBroadcast
<1>1. IInv => ExecutedIsBroadcast
  BY DEF IInv, Sent, ExecutedIsBroadcast
<1> QED BY <1>1, Invariance, PTL

---------------------------------------------------------------------------
(* The keys the payments are signed with, across vault migrations          *)
(* (VaultKeys).                                                            *)

\* What the types rest on: a migration under way has a next round, the migrator is no
\* further behind what it fetched than behind what it stored, and keys were made in a
\* directory.
KeyBounds ==
    /\ round <= MaxRound /\ (state # "Normal" => round < MaxRound)
    /\ mig.moves <= ahead \/ mig.at = "down"
    /\ mig.at = "down" => mig.moves = 0
    /\ sub.at = "made" => sub.dir # 0
    /\ pre.at = "made" => pre.dir # 0

Migs == [at : {"down", "starting", "idle", "fetched", "loading"}, state : States,
         moves : 0 .. MaxAhead, first : BOOLEAN]
Subs == [at : {"idle", "listed", "wait", "create", "made"}, target : Nat, who : Names,
         dir : Rounds \cup {0}]
Pres == [at : {"idle", "create", "made"}, dir : Rounds \cup {0}]
PendingXts == [call : VaultCalls, who : Names, round : Nat, dir : Rounds]

KeyTypes == VaultTypeOK /\ KeyBounds

LEMMA KeyTypesInit == ASSUME VaultInit PROVE KeyTypes
<1>1. mig \in Migs /\ mig.at = "down" /\ mig.moves = 0
  BY RoundsAssumption DEF VaultInit, Down, States, Migs
<1>2. sub \in Subs /\ sub.at # "made" /\ pre \in Pres /\ pre.at # "made"
  BY DEF VaultInit, NoWork, Names, Subs, Pres
<1>3. round \in Rounds /\ round <= MaxRound /\ ahead \in 0 .. MaxAhead
      /\ crashes \in 0 .. MaxCrashes /\ state = "Normal"
  BY RoundsAssumption DEF VaultInit, Rounds
<1>4. /\ state \in States /\ seq \in States /\ needed \in BOOLEAN
      /\ pending \in [Users -> Rounds \cup {0}] /\ accepted = {} /\ extrinsics = {}
      /\ signed \in BOOLEAN /\ wrong \in BOOLEAN /\ hasty \in BOOLEAN
      /\ dir \in Rounds \cup {0} /\ loaded \in Rounds \cup {0}
  BY Zenon DEF VaultInit, States
<1> QED BY <1>1, <1>2, <1>3, <1>4 DEF KeyTypes, KeyBounds, VaultTypeOK, Migs, Subs, Pres

\* The rounds that a worker or the migrator numbers.
LEMMA RoundsAtHand ==
    ASSUME KeyTypes
    PROVE  /\ round \in Rounds /\ round \in Nat /\ round # 0
           /\ round + 1 \in Rounds /\ round + 1 # 0
           /\ 0 \notin Rounds /\ Rounds \subseteq Nat
           /\ TargetRound \in Rounds /\ InitialRound \in Rounds
           /\ \A s, t : RoundFor(s, t) \in Rounds \cup {0}
<1>1. round \in FirstRound .. MaxRound + 1 /\ round <= MaxRound /\ dir \in Rounds \cup {0}
  BY DEF KeyTypes, KeyBounds, VaultTypeOK, Rounds
<1>2. /\ round \in Rounds /\ round \in Nat /\ round # 0
      /\ round + 1 \in Rounds /\ round + 1 # 0
      /\ 0 \notin Rounds /\ Rounds \subseteq Nat
  BY <1>1, RoundsAssumption DEF Rounds
<1> QED BY <1>1, <1>2, Zenon DEF TargetRound, InitialRound, RoundFor

\* What the pool took so far.
Accepts == accepted \subseteq [who : Names, round : Rounds, dir : Rounds] /\ signed \in BOOLEAN

\* A step of a worker, or of the pool with what a worker sent, leaves the migration and the
\* migrator alone.
Works ==
    UNCHANGED <<state, round, pending, needed, ahead, seq, dir, loaded, mig, crashes>>

LEMMA WorkerKeyTypes ==
    ASSUME KeyTypes, Works, Accepts', extrinsics' \subseteq PendingXts, wrong' \in BOOLEAN, hasty' \in BOOLEAN,
           sub' \in Subs, sub'.at = "made" => sub'.dir # 0,
           pre' \in Pres, pre'.at = "made" => pre'.dir # 0
    PROVE  KeyTypes'
<1>1. VaultTypeOK'
  BY Zenon DEF KeyTypes, VaultTypeOK, Works, Accepts, PendingXts, Subs, Pres
<1>2. KeyBounds'
  BY Zenon DEF KeyTypes, KeyBounds, Works
<1> QED BY <1>1, <1>2, Zenon DEF KeyTypes

LEMMA SubmitterKeyTypes ==
    ASSUME KeyTypes, Submitter
    PROVE  KeyTypes'
<1>1. /\ sub \in Subs /\ (sub.at = "made" => sub.dir # 0) /\ dir \in Rounds \cup {0}
      /\ extrinsics \subseteq PendingXts /\ wrong \in BOOLEAN /\ hasty \in BOOLEAN
      /\ pre \in Pres /\ (pre.at = "made" => pre.dir # 0) /\ Accepts
  BY Zenon DEF KeyTypes, KeyBounds, VaultTypeOK, Accepts, PendingXts, Subs, Pres
<1>2. TargetRound \in Nat
  BY RoundsAtHand, Zenon
<1>3. Works /\ Accepts' /\ wrong' = wrong /\ hasty' \in BOOLEAN /\ pre' = pre
  <2>1. hasty' \in BOOLEAN
    BY <1>1, Zenon DEF Submitter, SubmitterLists, SubmitterPicks, SubmitterEnds,
         SubmitterWakes, create_new_keypair, SubmitterSends, ReadSequence
  <2>2. UNCHANGED <<pool, store, pre, wrong, crashes>>
    BY Zenon DEF Submitter, SubmitterLists, SubmitterPicks, SubmitterEnds,
         SubmitterWakes, create_new_keypair, SubmitterSends
  <2> QED BY <1>1, <2>1, <2>2, Zenon DEF pool, store, Works, Accepts
<1>4. /\ sub' \in Subs /\ (sub'.at = "made" => sub'.dir # 0)
      /\ extrinsics' \subseteq PendingXts
  <2>1. NoWork \in Subs /\ NoWork.at = "idle"
    BY DEF NoWork, Names, Subs
  <2>2. CASE SubmitterLists
    <3>1. sub' = [NoWork EXCEPT !.at = "listed", !.target = TargetRound] /\ extrinsics' = extrinsics
      BY <2>2, Zenon DEF SubmitterLists
    <3> QED BY <1>1, <1>2, <2>1, <3>1, Zenon DEF Subs
  <2>3. CASE SubmitterEnds
    BY <1>1, <2>1, <2>3, Zenon DEF SubmitterEnds
  <2>4. CASE SubmitterWakes
    <3>1. sub' = [sub EXCEPT !.at = "create"] /\ extrinsics' = extrinsics
      BY <2>4, Zenon DEF SubmitterWakes
    <3> QED BY <1>1, <3>1 DEF Subs
  <2>5. CASE create_new_keypair
    <3>1. sub' = [sub EXCEPT !.at = "made", !.dir = dir] /\ dir # 0 /\ extrinsics' = extrinsics
      BY <2>5, Zenon DEF create_new_keypair
    <3> QED BY <1>1, <3>1, Zenon DEF Subs
  <2>6. CASE SubmitterSends
    <3>1. sub' = NoWork /\ sub.at = "made"
      BY <2>6, Zenon DEF SubmitterSends
    <3>2. sub.who \in Names /\ sub.dir \in Rounds
      BY <1>1, <3>1 DEF Subs
    <3>3. extrinsics' \subseteq PendingXts
      BY <1>1, <1>2, <2>6, <3>2 DEF SubmitterSends, VaultCalls, PendingXts
    <3> QED BY <2>1, <3>1, <3>3, Zenon
  <2>7. ASSUME NEW who \in Users \cup {System}, SubmitterPicks(who)
        PROVE  sub' \in Subs /\ sub'.at # "made" /\ extrinsics' = extrinsics
    <3>1. sub' = [sub EXCEPT !.at = "wait", !.who = who] /\ extrinsics' = extrinsics
      BY <2>7, Zenon DEF SubmitterPicks
    <3> QED BY <1>1, <3>1, Zenon DEF Names, Subs
  <2> QED BY <1>1, <2>2, <2>3, <2>4, <2>5, <2>6, <2>7, Zenon DEF Submitter
<1> QED BY <1>1, <1>3, <1>4, WorkerKeyTypes, Zenon

LEMMA OtherKeyTypes ==
    ASSUME KeyTypes, Presubmitter \/ Signer \/ PoolDelivers
    PROVE  KeyTypes'
<1>1. /\ sub \in Subs /\ (sub.at = "made" => sub.dir # 0) /\ dir \in Rounds \cup {0}
      /\ extrinsics \subseteq PendingXts /\ wrong \in BOOLEAN /\ hasty \in BOOLEAN
      /\ pre \in Pres /\ (pre.at = "made" => pre.dir # 0) /\ Accepts
  BY Zenon DEF KeyTypes, KeyBounds, VaultTypeOK, Accepts, PendingXts, Subs, Pres
<1>2. round \in Nat /\ round \in Rounds
  BY RoundsAtHand, Zenon
<1>3. CASE Presubmitter
  <2>1. Works /\ Accepts' /\ UNCHANGED <<sub, wrong>> /\ hasty' \in BOOLEAN
    <3>1. hasty' \in BOOLEAN
      BY <1>1, <1>3, Zenon DEF Presubmitter, PresubmitterStarts, create_pub_keys,
           PresubmitterSends, ReadSequence
    <3>2. UNCHANGED <<pool, store, sub, wrong, crashes>>
      BY <1>3, Zenon DEF Presubmitter, PresubmitterStarts, create_pub_keys,
           PresubmitterSends
    <3> QED BY <1>1, <3>1, <3>2, Zenon DEF pool, store, Works, Accepts
  <2>2. CASE PresubmitterStarts
    <3>1. pre' = [at |-> "create", dir |-> 0] /\ extrinsics' = extrinsics
      BY <2>2, Zenon DEF PresubmitterStarts
    <3>2. pre' \in Pres /\ pre'.at # "made"
      BY <3>1 DEF Pres
    <3> QED BY <1>1, <2>1, <3>1, <3>2, WorkerKeyTypes, Zenon
  <2>3. CASE create_pub_keys
    <3>1. extrinsics' = extrinsics
      BY <2>3, Zenon DEF create_pub_keys
    <3>2. pre' \in Pres /\ pre'.dir # 0
      BY <1>1, <2>3 DEF create_pub_keys, Pres
    <3> QED BY <1>1, <2>1, <3>1, <3>2, WorkerKeyTypes, Zenon
  <2>4. CASE PresubmitterSends
    <3>1. pre.dir \in Rounds
      BY <1>1, <2>4 DEF PresubmitterSends, Pres
    <3>2. extrinsics' \subseteq PendingXts
      BY <1>1, <1>2, <2>4, <3>1 DEF PresubmitterSends, Names, VaultCalls, PendingXts
    <3>3. pre' \in Pres /\ pre'.at # "made"
      BY <2>4 DEF PresubmitterSends, Pres
    <3> QED BY <1>1, <2>1, <3>2, <3>3, WorkerKeyTypes, Zenon
  <2> QED BY <1>3, <2>2, <2>3, <2>4, Zenon DEF Presubmitter
<1>4. CASE Signer
  <2>1. Works /\ Accepts' /\ UNCHANGED <<sub, pre>> /\ wrong' \in BOOLEAN /\ hasty' \in BOOLEAN
    <3>1. wrong' \in BOOLEAN /\ hasty' \in BOOLEAN
      BY <1>1, <1>4, Zenon DEF Signer, SignTransfer, SignWithdrawal, ReadSequence
    <3>2. UNCHANGED <<pool, store, makers, crashes>>
      BY <1>4, Zenon DEF Signer, SignTransfer, SignWithdrawal
    <3> QED BY <1>1, <3>1, <3>2, Zenon DEF pool, store, makers, Works, Accepts
  <2>2. extrinsics' \subseteq PendingXts
    <3>1. CASE SignTransfer
      BY <1>1, <1>2, <3>1 DEF SignTransfer, Names, VaultCalls, PendingXts
    <3>2. CASE SignWithdrawal
      BY <1>1, <3>2, Zenon DEF SignWithdrawal
    <3> QED BY <1>4, <3>1, <3>2, Zenon DEF Signer
  <2> QED BY <1>1, <2>1, <2>2, WorkerKeyTypes, Zenon
<1>5. ASSUME NEW x \in extrinsics, GiveUp(x) PROVE KeyTypes'
  <2>1. Works /\ Accepts' /\ UNCHANGED <<sub, pre, wrong, hasty>> /\ extrinsics' \subseteq extrinsics
    BY <1>1, <1>5, Zenon DEF GiveUp, pool, store, makers, Works, Accepts
  <2> QED BY <1>1, <2>1, WorkerKeyTypes, Zenon
<1>6. ASSUME NEW x \in extrinsics, PoolLands(x) PROVE KeyTypes'
  <2>1. x.who \in Names /\ x.dir \in Rounds /\ x.round \in Nat
    BY <1>1 DEF PendingXts
  <2>2. x.call # "SubmitSignedPsbt" => x.round \in Rounds
    BY <1>6, RoundsAtHand DEF PoolLands, PoolTakes
  <2>3. accepted' \subseteq [who : Names, round : Rounds, dir : Rounds]
    <3>1. accepted \subseteq [who : Names, round : Rounds, dir : Rounds]
      BY Zenon DEF KeyTypes, VaultTypeOK
    <3>2. CASE x.call = "SubmitSignedPsbt"
      BY <1>6, <3>1, <3>2, Zenon DEF PoolLands
    <3>3. CASE x.call # "SubmitSignedPsbt"
      <4>1. [who |-> x.who, round |-> x.round, dir |-> x.dir]
              \in [who : Names, round : Rounds, dir : Rounds]
        BY <2>1, <2>2, <3>3, Zenon
      <4>2. accepted' \subseteq accepted \cup {[who |-> x.who, round |-> x.round, dir |-> x.dir]}
        BY <1>6, <3>3, Zenon DEF PoolLands
      <4> QED BY <3>1, <4>1, <4>2, Zenon
    <3> QED BY <3>2, <3>3
  <2>4. signed' \in BOOLEAN
    BY <1>6, Zenon DEF PoolLands, KeyTypes, VaultTypeOK
  <2>5. Works /\ UNCHANGED <<sub, pre, wrong, hasty>> /\ extrinsics' \subseteq extrinsics
    BY <1>6, Zenon DEF PoolLands, store, makers, Works
  <2>6. Accepts'
    BY <2>3, <2>4, Zenon DEF Accepts
  <2> QED BY <1>1, <2>5, <2>6, WorkerKeyTypes, Zenon
<1> QED BY <1>3, <1>4, <1>5, <1>6, Zenon DEF PoolDelivers

LEMMA MigratorKeyTypes ==
    ASSUME KeyTypes, Migrator
    PROVE  KeyTypes'
<1> USE DEF KeyTypes, KeyBounds, VaultTypeOK, pool, makers
<1>1. CASE Start
  BY <1>1, RoundsAssumption DEF Start
<1>2. CASE initialize
  <2>1. InitialRound \in Rounds
    BY RoundsAtHand, Zenon
  <2> QED BY <1>2, <2>1 DEF initialize
<1>3. CASE get_service_state
  <2>1. mig' \in Migs /\ mig'.moves = 0
    <3>1. 0 \in 0 .. MaxAhead /\ state \in States
      BY RoundsAssumption
    <3> QED BY <1>3, <3>1, Zenon DEF get_service_state, Migs
  <2>2. ahead \in Nat
    BY RoundsAssumption
  <2> QED BY <1>3, <2>1, <2>2 DEF get_service_state, Migs
<1>4. CASE MigratorLoads
  <2>1. RoundFor(seq, mig.state) \in Rounds \cup {0}
    BY RoundsAtHand, Zenon
  <2> QED BY <1>4, <2>1 DEF MigratorLoads
<1>5. CASE MigratorStores
  <2>1. mig' \in Migs /\ mig'.moves = 0 /\ mig.moves \in 0 .. MaxAhead /\ mig.state \in States
    <3>1. 0 \in 0 .. MaxAhead
      BY RoundsAssumption
    <3> QED BY <1>5, <3>1, Zenon DEF MigratorStores, Down, States, Migs
  <2>2. mig.moves \in Nat
    BY <2>1, RoundsAssumption
  <2> QED BY <1>5, <2>1, <2>2 DEF MigratorStores, Migs
<1> QED BY <1>1, <1>2, <1>3, <1>4, <1>5, Zenon DEF Migrator

\* The types with their record sets by name.
KeyParts ==
    /\ state \in States /\ round \in Rounds /\ needed \in BOOLEAN
    /\ pending \in [Users -> Rounds \cup {0}] /\ Accepts /\ ahead \in 0 .. MaxAhead
    /\ seq \in States /\ dir \in Rounds \cup {0} /\ loaded \in Rounds \cup {0}
    /\ mig \in Migs /\ sub \in Subs /\ pre \in Pres /\ extrinsics \subseteq PendingXts
    /\ wrong \in BOOLEAN /\ hasty \in BOOLEAN /\ crashes \in 0 .. MaxCrashes

LEMMA TypesInParts == (VaultTypeOK <=> KeyParts) /\ (VaultTypeOK' <=> KeyParts')
BY Zenon DEF VaultTypeOK, KeyParts, Accepts, Migs, Subs, Pres, PendingXts

LEMMA CrashKeyTypes == ASSUME KeyTypes, ProcessEnds PROVE KeyTypes'
<1>1. Down \in Migs /\ Down.at = "down" /\ Down.moves = 0
  BY RoundsAssumption DEF Down, States, Migs
<1>2. NoWork \in Subs /\ NoWork.at = "idle"
  BY DEF NoWork, Names, Subs
<1>3. pre' \in Pres /\ pre'.at # "made"
  BY DEF ProcessEnds, Pres
<1>4. crashes' \in 0 .. MaxCrashes
  <2>1. crashes \in 0 .. MaxCrashes
    BY Zenon DEF KeyTypes, VaultTypeOK
  <2> QED BY <2>1, RoundsAssumption DEF ProcessEnds
<1>5. mig' = Down /\ sub' = NoWork /\ extrinsics' = {} /\ seq' = "Normal" /\ dir' = 0 /\ loaded' = 0
  BY Zenon DEF ProcessEnds
<1>6. UNCHANGED <<state, round, pending, accepted, needed, signed, ahead, wrong, hasty>>
  BY Zenon DEF ProcessEnds, pool
<1>7. "Normal" \in States
  BY Zenon DEF States
<1>8. VaultTypeOK'
  BY <1>1, <1>2, <1>3, <1>4, <1>5, <1>6, <1>7, TypesInParts, Zenon DEF KeyTypes, KeyParts, Accepts
<1>9. KeyBounds'
  BY <1>1, <1>2, <1>3, <1>5, <1>6 DEF KeyTypes, KeyBounds
<1> QED BY <1>8, <1>9, Zenon DEF KeyTypes

LEMMA RegisterKeyTypes ==
    ASSUME KeyTypes, NEW u \in Users, Register(u)
    PROVE  KeyTypes'
<1>1. UNCHANGED <<state, round, accepted, needed, signed, ahead, seq, dir, loaded, mig, sub, pre,
                  extrinsics, wrong, hasty, crashes>>
  BY Zenon DEF Register, store, makers
<1>2. pending' \in [Users -> Rounds \cup {0}]
  BY Zenon DEF Register, KeyTypes, VaultTypeOK
<1>3. VaultTypeOK'
  BY <1>1, <1>2, TypesInParts, Zenon DEF KeyTypes, KeyParts, Accepts
<1>4. KeyBounds'
  BY <1>1, Zenon DEF KeyTypes, KeyBounds
<1> QED BY <1>3, <1>4, Zenon DEF KeyTypes

LEMMA PoolKeyTypes ==
    ASSUME KeyTypes,
           Migrate \/ ProcessEnds \/ \E u \in Users : Register(u)
    PROVE  KeyTypes'
<1> USE DEF KeyTypes, KeyBounds, VaultTypeOK
<1>1. CASE Migrate
  <2>1. PICK s \in States, t \in States : Move(s, t)
    BY <1>1, Zenon DEF Migrate, States
  <2>2. /\ ahead' \in 0 .. MaxAhead /\ mig' \in Migs /\ hasty' \in BOOLEAN
        /\ mig'.at = mig.at /\ (mig'.moves <= ahead' \/ mig.at = "down")
        /\ mig.at = "down" => mig'.moves = 0
    <3>1. CASE mig.at = "down"
      BY <2>1, <3>1 DEF Move, Migs
    <3>2. CASE mig.at # "down"
      <4>1. ahead' \in 0 .. MaxAhead /\ mig.moves + 1 \in 0 .. MaxAhead /\ mig.moves + 1 <= ahead'
        BY <2>1, <3>2, RoundsAssumption DEF Move
      <4>2. mig' = [mig EXCEPT !.moves = @ + 1] /\ hasty' \in BOOLEAN
        BY <2>1, <3>2, Zenon DEF Move
      <4> QED BY <3>2, <4>1, <4>2 DEF Migs
    <3> QED BY <3>1, <3>2
  <2>3. state' \in States
    BY <2>1, Zenon DEF Move
  <2>4. /\ round' \in Rounds /\ round' <= MaxRound /\ (state' # "Normal" => round' < MaxRound)
        /\ signed' \in BOOLEAN
    <3>1. CASE state # "UTXOTransfer"
      <4>1. /\ round' = round /\ signed' = signed
            /\ state' # "Normal" /\ (state = "Normal" => round < MaxRound)
        BY <1>1, <3>1 DEF Migrate, Move
      <4> QED BY <4>1
    <3>2. CASE state = "UTXOTransfer"
      <4>1. round' = round + 1 /\ signed' = FALSE /\ state' = "Normal"
        BY <1>1, <3>2 DEF Migrate, Move
      <4>2. round < MaxRound
        BY <3>2
      <4>3. round + 1 \in Rounds /\ round \in Nat /\ MaxRound \in Nat
        BY RoundsAtHand, Zenon, RoundsAssumption
      <4>4. round + 1 <= MaxRound
        BY <4>2, <4>3
      <4> QED BY <4>1, <4>3, <4>4, Zenon
    <3> QED BY <3>1, <3>2
  <2>5. UNCHANGED <<pending, accepted, needed, seq, dir, loaded, sub, pre, extrinsics, wrong,
                    crashes>>
    BY <1>1, Zenon DEF Migrate, makers
  <2> QED BY <2>2, <2>3, <2>4, <2>5 DEF Migs
<1>2. CASE ProcessEnds
  BY <1>2, CrashKeyTypes, Zenon
<1>3. ASSUME NEW u \in Users, Register(u) PROVE KeyTypes'
  BY <1>3, RegisterKeyTypes, Zenon
<1> QED BY <1>1, <1>2, <1>3, Zenon

LEMMA StepKeyTypes == ASSUME KeyTypes, [VaultNext]_vaultVars PROVE KeyTypes'
<1>1. CASE VaultNext
  BY <1>1, SubmitterKeyTypes, OtherKeyTypes, MigratorKeyTypes, PoolKeyTypes, Zenon DEF VaultNext
<1>2. CASE UNCHANGED vaultVars
  <2>1. UNCHANGED <<state, round, pending, accepted, needed, signed, ahead, seq, dir, loaded, mig,
                    sub, pre, extrinsics, wrong, hasty, crashes>>
    BY <1>2, Zenon DEF vaultVars, pool, store, makers
  <2>2. VaultTypeOK => VaultTypeOK'
    BY <2>1, TypesInParts, Zenon DEF KeyParts, Accepts
  <2>3. KeyBounds => KeyBounds'
    BY <2>1, Zenon DEF KeyBounds
  <2> QED BY <2>2, <2>3, Zenon DEF KeyTypes
<1> QED BY <1>1, <1>2

\* Types, of every number of rounds and users: no key is submitted or accepted that was made
\* while no keystore directory was open.
THEOREM KeysMadeInAStore == VaultSpec => []VaultTypeOK
<1>1. VaultInit => KeyTypes
  BY KeyTypesInit
<1>2. KeyTypes /\ [VaultNext]_vaultVars => KeyTypes'
  BY StepKeyTypes
<1>3. KeyTypes => VaultTypeOK
  BY DEF KeyTypes
<1> QED BY <1>1, <1>2, <1>3, PTL DEF VaultSpec

\* The state that follows s in a migration, and the one k moves after s.
Then(s) ==
    CASE s = "Normal" -> "SetExecutiveMembers"
      [] s = "SetExecutiveMembers" -> "PrepareNextSystemVault"
      [] s = "PrepareNextSystemVault" -> "UTXOTransfer"
      [] s = "UTXOTransfer" -> "Normal"

After(s, k) == IF k = 0 THEN s ELSE IF k = 1 THEN Then(s) ELSE Then(Then(s))

Up == mig.at # "down"
Knows == mig.at \in {"fetched", "loading"}      \* the migrator holds a state it fetched

\* How far the migrator is behind: the pool is exactly the counted moves after the state in
\* migration_sequence and after the one fetched, which is a later one.
Behind ==
    /\ mig.at = "down" => mig = Down /\ seq = "Normal"
    /\ mig.at = "starting" => mig.first
    /\ mig.first => seq = "Normal" /\ (Up => ahead = 0)
    /\ Up /\ ~mig.first => state = After(seq, ahead) /\ (seq = "UTXOTransfer" => ahead <= 1)
    /\ Knows => state = After(mig.state, mig.moves)
    /\ Knows /\ ~mig.first => mig.moves < ahead /\ mig.state = After(seq, ahead - mig.moves)

\* The directory that is open when the migrator is at s and the pool k moves on, in round r.
Fits(r, s, k, d) ==
    CASE s \in {"Normal", "SetExecutiveMembers"} -> d = r
      [] s = "PrepareNextSystemVault" -> d = IF k = 2 THEN r ELSE r + 1
      [] s = "UTXOTransfer" -> d = r \/ (k = 1 /\ d + 1 = r)

Opened ==
    /\ mig.at \in {"down", "starting"} => dir = 0
    /\ mig.first /\ mig.at \notin {"down", "starting"} => dir = InitialRound
    /\ mig.first => loaded = dir
    /\ Up /\ ~mig.first => Fits(round, seq, ahead, loaded)
    /\ mig.at # "loading" => dir = loaded
    /\ mig.at = "loading" => Fits(round, mig.state, mig.moves, dir)

LEMMA AfterMove ==
    ASSUME NEW s \in States, NEW k \in 0 .. 1
    PROVE  /\ After(s, k) \in States /\ Then(After(s, k)) = After(s, k + 1)
           /\ s = "UTXOTransfer" /\ k = 1 => After(s, k) = "Normal"
BY DEF After, Then, States

LEMMA FitsMove ==
    ASSUME NEW s \in States, NEW k \in 0 .. 1, NEW r \in Nat, NEW d \in Nat, Fits(r, s, k, d),
           ~(s = "UTXOTransfer" /\ k = 1)
    PROVE  Fits(IF After(s, k) = "UTXOTransfer" THEN r + 1 ELSE r, s, k + 1, d)
<1> USE DEF After, Then, Fits
<1>1. CASE s \in {"Normal", "SetExecutiveMembers"}
  <2>1. k = 0 \/ k = 1
    OBVIOUS
  <2>2. After(s, k) # "UTXOTransfer" /\ d = r
    BY <1>1, <2>1
  <2> QED BY <1>1, <2>2, Zenon
<1>2. CASE s = "PrepareNextSystemVault"
  BY <1>2
<1>3. CASE s = "UTXOTransfer"
  BY <1>3
<1> QED BY <1>1, <1>2, <1>3 DEF States

\* What a step of the migration does.
LEMMA MigrateMoves ==
    ASSUME KeyTypes, Migrate
    PROVE  /\ state' = Then(state)
           /\ round' = IF state = "UTXOTransfer" THEN round + 1 ELSE round
           /\ state = "Normal" => RoundIsOver
           /\ state = "UTXOTransfer" => pre.at = "idle"
           /\ UNCHANGED <<pending, accepted, seq, dir, loaded, sub, pre, extrinsics, wrong>>
           /\ mig.at = "down" => UNCHANGED <<mig, ahead, hasty>>
           /\ mig.at # "down" => /\ ahead' = ahead + 1 /\ ahead \in 0 .. 1
                                 /\ mig' = [mig EXCEPT !.moves = @ + 1]
                                 /\ hasty' = (hasty \/ mig.first)
<1>1. Move(state, Then(state))
      /\ round' = (IF state = "UTXOTransfer" THEN round + 1 ELSE round)
      /\ (state = "Normal" => RoundIsOver)
      /\ (state = "UTXOTransfer" => pre.at = "idle")
  BY DEF Migrate, Move, Then
<1>2. mig.at # "down" => ahead \in 0 .. 1
  BY <1>1, RoundsAssumption DEF Move, KeyTypes, VaultTypeOK
<1> QED BY <1>1, <1>2, Zenon DEF Move, Migrate, makers

\* The workers and the pool's intake leave the migration alone.
LEMMA WorkersAreStill ==
    ASSUME Submitter \/ Presubmitter \/ Signer \/ PoolDelivers
    PROVE  UNCHANGED <<state, round, pending, ahead, seq, dir, loaded, mig>>
BY Zenon DEF Submitter, SubmitterLists, SubmitterEnds, SubmitterWakes, create_new_keypair,
       SubmitterSends, SubmitterPicks, Presubmitter, PresubmitterStarts, create_pub_keys,
       PresubmitterSends, Signer, SignTransfer, SignWithdrawal, PoolDelivers, PoolLands,
       GiveUp, pool, store

\* Numbers of the migrator.
LEMMA MigratorNumbers ==
    ASSUME KeyTypes
    PROVE  /\ ahead \in 0 .. 2 /\ mig.moves \in 0 .. 2 /\ (mig.moves <= ahead \/ ~Up)
           /\ seq \in States /\ state \in States /\ mig.state \in States
           /\ dir \in Nat /\ loaded \in Nat /\ round \in Nat /\ round # 0
           /\ mig.first \in BOOLEAN
           /\ mig.at \in {"down", "starting", "idle", "fetched", "loading"}
<1>1. ahead \in 0 .. MaxAhead /\ mig.moves \in 0 .. MaxAhead /\ MaxAhead \in 0 .. 2
  BY RoundsAssumption DEF KeyTypes, VaultTypeOK
<1>2. dir \in Rounds \cup {0} /\ loaded \in Rounds \cup {0}
  BY DEF KeyTypes, VaultTypeOK
<1>3. /\ seq \in States /\ state \in States /\ mig.state \in States
      /\ mig.first \in BOOLEAN /\ (mig.moves <= ahead \/ ~Up)
      /\ mig.at \in {"down", "starting", "idle", "fetched", "loading"}
  BY DEF KeyTypes, VaultTypeOK, KeyBounds, Up
<1>4. dir \in Nat /\ loaded \in Nat /\ round \in Nat /\ round # 0
  BY <1>2, RoundsAtHand
<1>5. ahead \in 0 .. 2 /\ mig.moves \in 0 .. 2
  BY <1>1
<1> QED BY <1>3, <1>4, <1>5

LEMMA StepBehind ==
    ASSUME KeyTypes, Behind, VaultNext, ~hasty'
    PROVE  Behind'
<1> USE MigratorNumbers
<1>1. CASE Submitter \/ Presubmitter \/ Signer \/ PoolDelivers
  BY <1>1, WorkersAreStill, Zenon DEF Behind, Up, Knows, After, Then
<1>2. CASE Start
  BY <1>2 DEF Start, Behind, Up, Knows, Down
<1>3. CASE initialize
  BY <1>3 DEF initialize, Behind, Up, Knows, pool
<1>4. CASE get_service_state
  <2>1. ~mig.first => ahead > 0
    BY <1>4 DEF get_service_state, Behind, Up, After
  <2>2. mig'.state = state /\ mig'.moves = 0 /\ mig'.at = "fetched" /\ mig'.first = mig.first
    BY <1>4 DEF get_service_state, KeyTypes, VaultTypeOK
  <2>3. UNCHANGED <<state, ahead, seq>> /\ mig.at = "idle"
    BY <1>4 DEF get_service_state, pool
  <2>4. 0 < ahead <=> ahead > 0
    OBVIOUS
  <2>5. ahead - 0 = ahead
    OBVIOUS
  <2>6. state = After(state, 0)
    BY Zenon DEF After
  <2>7. /\ mig.first => seq = "Normal" /\ ahead = 0
        /\ ~mig.first => /\ state = After(seq, ahead)
                         /\ seq = "UTXOTransfer" => ahead <= 1
    BY <2>3, Zenon DEF Behind, Up
  <2> HIDE MigratorNumbers
  <2>8. After(mig'.state, mig'.moves) = state /\ mig'.moves = 0
        /\ After(seq, ahead - mig'.moves) = After(seq, ahead)
    BY <2>2, <2>5, <2>6, Zenon
  <2>9. ~mig'.first => mig'.moves < ahead'
    BY <2>1, <2>2, <2>3, <2>4, Zenon
  <2> QED BY <2>2, <2>3, <2>7, <2>8, <2>9, Zenon DEF Behind, Up, Knows, After, Then
<1>5. CASE MigratorLoads
  <2>1. /\ mig'.state = mig.state /\ mig'.moves = mig.moves /\ mig'.at = "loading"
        /\ mig'.first = mig.first
    BY <1>5 DEF MigratorLoads, KeyTypes, VaultTypeOK
  <2>2. UNCHANGED <<state, ahead, seq>> /\ mig.at = "fetched"
    BY <1>5 DEF MigratorLoads, pool
  <2> QED BY <2>1, <2>2, Zenon DEF Behind, Up, Knows, After, Then
<1>6. CASE MigratorStores
  <2>1. /\ mig'.at = "idle" /\ mig'.first = FALSE /\ seq' = mig.state /\ ahead' = mig.moves
        /\ state' = state /\ mig.at = "loading"
    BY <1>6 DEF MigratorStores, Down
  <2>2. state = After(mig.state, mig.moves) /\ mig.moves <= 1
    BY <2>1 DEF Behind, Knows, Up
  <2> QED BY <2>1, <2>2 DEF Behind, Up, Knows, After
<1>7. CASE ProcessEnds
  BY <1>7 DEF ProcessEnds, Behind, Up, Knows, Down
<1>8. CASE Migrate
  <2>1. CASE mig.at = "down"
    BY <1>8, <2>1, MigrateMoves DEF Behind, Up, Knows
  <2>2. CASE mig.at # "down"
    <3>1. /\ state' = Then(state) /\ ahead' = ahead + 1 /\ ahead \in 0 .. 1 /\ seq' = seq
          /\ mig' = [mig EXCEPT !.moves = @ + 1] /\ ~mig.first
          /\ state = "Normal" => ahead = 0
      BY <1>8, <2>2, MigrateMoves, Zenon DEF RoundIsOver
    <3>2. /\ mig'.at = mig.at /\ mig'.state = mig.state /\ ~mig'.first
          /\ mig'.moves = mig.moves + 1
      BY <3>1 DEF KeyTypes, VaultTypeOK
    <3>3. state' = After(seq, ahead') /\ (seq = "UTXOTransfer" => ahead' <= 1)
      BY <2>2, <3>1, AfterMove DEF Behind, Up
    <3>4. Knows => /\ state' = After(mig.state, mig.moves + 1)
                   /\ mig.moves + 1 < ahead' /\ ahead' - (mig.moves + 1) = ahead - mig.moves
      <4>1. SUFFICES ASSUME Knows
                     PROVE  /\ state' = After(mig.state, mig.moves + 1)
                            /\ mig.moves + 1 < ahead'
                            /\ ahead' - (mig.moves + 1) = ahead - mig.moves
        OBVIOUS
      <4>2. state = After(mig.state, mig.moves) /\ mig.moves < ahead
        BY <3>1, <4>1, Zenon DEF Behind
      <4>3. mig.moves \in 0 .. 1
        BY <3>1, <4>2
      <4>4. Then(After(mig.state, mig.moves)) = After(mig.state, mig.moves + 1)
        BY <4>3, AfterMove
      <4> QED BY <3>1, <4>2, <4>3, <4>4
    <3>5. Knows => mig.state = After(seq, ahead - mig.moves)
      BY <3>1, Zenon DEF Behind
    <3> HIDE MigratorNumbers
    <3> QED BY <2>2, <3>1, <3>2, <3>3, <3>4, <3>5 DEF Behind, Up, Knows
  <2> QED BY <2>1, <2>2
<1>9. ASSUME NEW u \in Users, Register(u) PROVE Behind'
  BY <1>9, Zenon DEF Register, store, Behind, Up, Knows, After, Then
<1> QED BY <1>1, <1>2, <1>3, <1>4, <1>5, <1>6, <1>7, <1>8, <1>9, Zenon DEF VaultNext, Migrator

LEMMA StepOpened ==
    ASSUME KeyTypes, Behind, Opened, VaultNext, ~hasty'
    PROVE  Opened'
<1> USE MigratorNumbers
<1>1. CASE Submitter \/ Presubmitter \/ Signer \/ PoolDelivers
  BY <1>1, WorkersAreStill, Zenon DEF Opened, Up, Fits, InitialRound
<1>2. CASE Start
  BY <1>2 DEF Start, Opened, Behind, Up, Down
<1>3. CASE initialize
  BY <1>3 DEF initialize, Opened, Behind, Up, pool, InitialRound
<1>4. CASE get_service_state
  <2>1. mig'.at = "fetched" /\ mig.at = "idle" /\ mig'.first = mig.first
        /\ UNCHANGED <<state, round, ahead, seq, dir, loaded>>
    BY <1>4 DEF get_service_state, pool, KeyTypes, VaultTypeOK
  <2> QED BY <2>1, Zenon DEF Opened, Up, Fits, InitialRound
<1>5. CASE MigratorLoads
  <2>1. /\ mig'.state = mig.state /\ mig'.moves = mig.moves /\ mig'.at = "loading"
        /\ mig'.first = mig.first
    BY <1>5 DEF MigratorLoads, KeyTypes, VaultTypeOK
  <2>2. UNCHANGED <<state, round, ahead, seq, loaded>> /\ mig.at = "fetched"
        /\ dir' = RoundFor(seq, mig.state)
    BY <1>5 DEF MigratorLoads, pool
  <2>3. CASE mig.first
    <3>1. seq = "Normal" /\ mig.state = state /\ dir = InitialRound /\ loaded = dir
      <4>1. seq = "Normal" /\ ahead = 0 /\ state = After(mig.state, mig.moves)
        BY <2>2, <2>3, Zenon DEF Behind, Up, Knows
      <4>2. mig.moves = 0
        BY <2>2, <2>3, <4>1 DEF Up
      <4>3. dir = InitialRound /\ loaded = dir
        BY <2>2, <2>3, Zenon DEF Opened
      <4> QED BY <4>1, <4>2, <4>3, Zenon DEF After
    <3>2. dir' = InitialRound
      BY <2>2, <3>1 DEF RoundFor, InitialRound
    <3>3. mig.moves = 0
      BY <2>2, <2>3 DEF Behind, Up
    <3>4. Fits(round, state, 0, InitialRound)
      <4>1. CASE state = "PrepareNextSystemVault"
        BY <4>1 DEF Fits, InitialRound
      <4>2. CASE state # "PrepareNextSystemVault"
        BY <4>2, Zenon DEF Fits, InitialRound, States
      <4> QED BY <4>1, <4>2
    <3>5. InitialRound' = InitialRound
      BY <2>2 DEF InitialRound
    <3> QED BY <2>1, <2>2, <2>3, <3>1, <3>2, <3>3, <3>4, <3>5, Zenon DEF Opened
  <2>4. CASE ~mig.first
    <3> DEFINE k == ahead - mig.moves
    <3>1. /\ Fits(round, seq, ahead, dir) /\ Fits(round, seq, ahead, loaded)
          /\ mig.state = After(seq, k) /\ mig.moves < ahead
          /\ seq = "UTXOTransfer" => ahead <= 1
      BY <2>2, <2>4, Zenon DEF Opened, Behind, Up, Knows
    <3>2. /\ k \in {1, 2} /\ (k = 2 => ahead = 2 /\ mig.moves = 0)
          /\ (k = 1 => mig.moves \in 0 .. 1) /\ (ahead = 1 => mig.moves = 0)
      BY <3>1
    <3> HIDE DEF k
    <3>3. Fits(round, mig.state, mig.moves, dir')
      <4>1. CASE seq = "Normal"
        <5>1. dir = round
          BY <3>1, <4>1 DEF Fits
        <5>2. CASE k = 1
          <6>1. mig.state = "SetExecutiveMembers" /\ dir' = dir
            BY <2>2, <3>1, <4>1, <5>2 DEF After, Then, RoundFor
          <6> QED BY <5>1, <6>1 DEF Fits
        <5>3. CASE k = 2
          <6>1. mig.state = "PrepareNextSystemVault" /\ dir' = round + 1
            BY <2>2, <3>1, <4>1, <5>3 DEF After, Then, RoundFor
          <6> QED BY <3>2, <5>3, <6>1 DEF Fits
        <5> QED BY <3>2, <5>2, <5>3
      <4>4. CASE seq = "SetExecutiveMembers"
        <5>1. dir = round
          BY <3>1, <4>4 DEF Fits
        <5>2. CASE k = 1
          <6>1. mig.state = "PrepareNextSystemVault" /\ dir' = round + 1
            BY <2>2, <3>1, <4>4, <5>2 DEF After, Then, RoundFor
          <6>2. mig.moves # 2
            BY <3>2, <5>2
          <6> QED BY <6>1, <6>2 DEF Fits
        <5>3. CASE k = 2
          <6>1. mig.state = "UTXOTransfer" /\ dir' = dir
            BY <2>2, <3>1, <4>4, <5>3 DEF After, Then, RoundFor
          <6> QED BY <5>1, <6>1 DEF Fits
        <5> QED BY <3>2, <5>2, <5>3
      <4>2. CASE seq = "PrepareNextSystemVault"
        BY <2>2, <3>1, <3>2, <4>2 DEF Fits, After, Then, RoundFor
      <4>3. CASE seq = "UTXOTransfer"
        BY <2>2, <3>1, <3>2, <4>3 DEF Fits, After, Then, RoundFor
      <4> QED BY <4>1, <4>2, <4>3, <4>4, Zenon DEF States
    <3> QED BY <2>1, <2>2, <2>4, <3>1, <3>3, Zenon DEF Opened, Up
  <2> QED BY <2>3, <2>4
<1>6. CASE MigratorStores
  <2>1. /\ mig'.at = "idle" /\ mig'.first = FALSE /\ seq' = mig.state /\ ahead' = mig.moves
        /\ round' = round /\ mig.at = "loading" /\ loaded' = dir /\ dir' = dir
    BY <1>6 DEF MigratorStores, Down
  <2>2. Fits(round, mig.state, mig.moves, dir)
    BY <2>1, Zenon DEF Opened
  <2> QED BY <2>1, <2>2, Zenon DEF Opened, Up
<1>7. CASE ProcessEnds
  BY <1>7 DEF ProcessEnds, Opened, Up, Down
<1>8. CASE Migrate
  <2>1. CASE mig.at = "down"
    BY <1>8, <2>1, MigrateMoves, Zenon DEF Opened, Up
  <2>2. CASE mig.at # "down"
    <3>1. /\ ahead' = ahead + 1 /\ ahead \in 0 .. 1 /\ UNCHANGED <<seq, dir, loaded>>
          /\ mig' = [mig EXCEPT !.moves = @ + 1] /\ ~mig.first
          /\ state = "Normal" => ahead = 0
          /\ round' = IF state = "UTXOTransfer" THEN round + 1 ELSE round
      BY <1>8, <2>2, MigrateMoves, Zenon DEF RoundIsOver
    <3>2. /\ mig'.at = mig.at /\ mig'.state = mig.state /\ ~mig'.first
          /\ mig'.moves = mig.moves + 1
      BY <3>1 DEF KeyTypes, VaultTypeOK
    <3>3. Fits(round', seq, ahead', loaded)
      <4>1. state = After(seq, ahead) /\ Fits(round, seq, ahead, loaded)
        BY <2>2, <3>1, Zenon DEF Behind, Opened, Up
      <4>2. ~(seq = "UTXOTransfer" /\ ahead = 1)
        BY <3>1, <4>1, AfterMove
      <4> QED BY <3>1, <4>1, <4>2, FitsMove, Zenon
    <3>4. mig.at = "loading" => Fits(round', mig.state, mig.moves + 1, dir)
      <4>1. SUFFICES ASSUME mig.at = "loading"
                     PROVE  Fits(round', mig.state, mig.moves + 1, dir)
        OBVIOUS
      <4>2. state = After(mig.state, mig.moves) /\ mig.moves < ahead
            /\ Fits(round, mig.state, mig.moves, dir)
        BY <3>1, <4>1 DEF Behind, Opened, Knows
      <4>3. mig.moves = 0 /\ mig.moves \in 0 .. 1
        BY <3>1, <4>2
      <4>4. ~(mig.state = "UTXOTransfer" /\ mig.moves = 1)
        BY <4>3
      <4> QED BY <3>1, <4>2, <4>3, <4>4, FitsMove, Zenon
    <3>5. mig.at # "starting"
      BY <3>1, Zenon DEF Behind
    <3> QED BY <2>2, <3>1, <3>2, <3>3, <3>4, <3>5, Zenon DEF Opened, Up
  <2> QED BY <2>1, <2>2
<1>9. ASSUME NEW u \in Users, Register(u) PROVE Opened'
  BY <1>9, Zenon DEF Register, store, Opened, Up, Fits, InitialRound
<1> QED BY <1>1, <1>2, <1>3, <1>4, <1>5, <1>6, <1>7, <1>8, <1>9, Zenon DEF VaultNext, Migrator

\* Where the submitter and the presubmitter are.
AtWork ==
    /\ mig.at = "down" => sub.at = "idle" /\ pre.at = "idle" /\ extrinsics = {}
    /\ sub.at \in {"idle", "listed"} => sub.who = None
    /\ sub.at \notin {"idle", "listed"} => sub.who \in Users \cup {System}
    /\ sub.at # "idle" => sub.target # 0
    /\ mig.first /\ (sub.at # "idle" \/ pre.at # "idle") => state = "Normal"

\* The key of the next system vault is made, if the pool is still in
\* PrepareNextSystemVault, in the directory of the next round.
ForSystem ==
    sub.who = System =>
      /\ Up /\ ~mig.first
      /\ \/ state \in {"PrepareNextSystemVault", "UTXOTransfer"} /\ sub.target = round + 1
         \/ state = "Normal" /\ sub.target = round
      /\ state = "PrepareNextSystemVault" /\ sub.at \in {"create", "made"} =>
           seq = "PrepareNextSystemVault"
      /\ state = "PrepareNextSystemVault" /\ sub.at = "made" => sub.dir = round + 1

\* A user's key is made in the directory of the round it is registered in, unless the
\* payload will number another round.
ForUser ==
    /\ \A u \in Users : pending[u] <= round
    /\ sub.who \in Users =>
         /\ pending[sub.who] = sub.target
         /\ round = sub.target /\ seq # "Normal" => state # "Normal"
         /\ round = sub.target /\ seq = "Normal" /\ sub.at = "made" =>
              sub.dir = round \/ (mig.at = "loading" /\ mig.state # "Normal")

\* Keys made ahead, while the pool has not moved on since they were asked for.
ForPre ==
    pre.at # "idle" /\ state = "Normal" =>
      /\ seq = "Normal"
      /\ pre.at = "made" => pre.dir = round

\* Of the extrinsics under way, those that the pool may still take.
Holds(x) ==
    /\ x.call = "SubmitSystemVaultKey" =>
         /\ state # "SetExecutiveMembers"
         /\ state = "PrepareNextSystemVault" => x.dir = round + 1
    /\ x.call = "SubmitVaultKey" =>
         /\ x.who \in Users /\ pending[x.who] # 0
         /\ x.round = pending[x.who] => x.dir = x.round
    /\ x.call = "VaultKeyPresubmission" =>
         /\ x.round <= round
         /\ state = "Normal" /\ x.round = round => x.dir = x.round

Submitted == \A x \in extrinsics : Holds(x)

\* The fields of the workers' records.
LEMMA WorkerFields ==
    ASSUME KeyTypes
    PROVE  /\ sub.at \in {"idle", "listed", "wait", "create", "made"} /\ sub.target \in Nat
           /\ pre.at \in {"idle", "create", "made"} /\ pending \in [Users -> Rounds \cup {0}]
BY DEF KeyTypes, VaultTypeOK

\* What the steps of the submitter make of its record.
LEMMA SubmitterMoves ==
    ASSUME KeyTypes, Submitter, ~hasty'
    PROVE  /\ UNCHANGED <<pre, accepted, wrong>>
           /\ \/ /\ sub.at = "idle" /\ sub'.at = "listed" /\ sub'.who = None
                 /\ sub'.target = TargetRound /\ ReadSequence /\ extrinsics' = extrinsics
              \/ /\ sub.at = "listed" /\ sub'.at = "wait" /\ sub'.target = sub.target
                 /\ sub'.who \in PendingRegistrations(sub.target) /\ Eligible(sub'.who)
                 /\ ReadSequence /\ extrinsics' = extrinsics
              \/ /\ sub.at = "listed" /\ sub' = NoWork /\ ReadSequence
                 /\ extrinsics' = extrinsics
              \/ /\ sub.at = "wait" /\ loaded = sub.target /\ sub'.at = "create"
                 /\ sub'.target = sub.target /\ sub'.who = sub.who /\ extrinsics' = extrinsics
              \/ /\ sub.at = "create" /\ dir # 0 /\ sub'.at = "made" /\ sub'.dir = dir
                 /\ sub'.target = sub.target /\ sub'.who = sub.who /\ extrinsics' = extrinsics
              \/ SubmitterSends
<1>1. sub \in Subs
  BY DEF KeyTypes, VaultTypeOK, Subs
<1>2. CASE SubmitterLists
  BY <1>1, <1>2 DEF SubmitterLists, NoWork, pool
<1>3. CASE SubmitterEnds
  BY <1>3, Zenon DEF SubmitterEnds, pool
<1>4. CASE SubmitterWakes
  BY <1>1, <1>4 DEF SubmitterWakes, LoadedRoundIsTarget, pool, Subs
<1>5. CASE create_new_keypair
  BY <1>1, <1>5 DEF create_new_keypair, pool, Subs
<1>6. CASE SubmitterSends
  BY <1>6, Zenon DEF SubmitterSends, pool
<1>7. ASSUME NEW who \in Users \cup {System}, SubmitterPicks(who)
      PROVE  /\ UNCHANGED <<pre, accepted, wrong>>
             /\ sub.at = "listed" /\ sub'.at = "wait" /\ sub'.target = sub.target
             /\ sub'.who \in PendingRegistrations(sub.target) /\ Eligible(sub'.who)
             /\ ReadSequence /\ extrinsics' = extrinsics
  <2>1. sub'.at = "wait" /\ sub'.target = sub.target /\ sub'.who = who
    BY <1>1, <1>7 DEF SubmitterPicks, Subs
  <2> QED BY <1>7, <2>1, Zenon DEF SubmitterPicks, pool
<1> QED BY <1>2, <1>3, <1>4, <1>5, <1>6, <1>7, Zenon DEF Submitter

LEMMA IdleFields == NoWork.at = "idle" /\ NoWork.who = None /\ NoWork.target = 0
BY DEF NoWork

\* What the steps of the others make of theirs.
LEMMA OthersMove ==
    ASSUME Presubmitter \/ Signer \/ PoolDelivers, ~hasty'
    PROVE  /\ sub' = sub
           /\ \/ /\ pre.at = "idle" /\ pre'.at = "create" /\ seq = "Normal" /\ ReadSequence
                 /\ extrinsics' = extrinsics
              \/ /\ pre.at = "create" /\ dir # 0 /\ pre'.at = "made" /\ pre'.dir = dir
                 /\ extrinsics' = extrinsics
              \/ PresubmitterSends /\ pre'.at = "idle"
              \/ pre' = pre /\ SignTransfer
              \/ pre' = pre /\ extrinsics' \subseteq extrinsics
<1>1. CASE PresubmitterStarts
  BY <1>1 DEF PresubmitterStarts
<1>2. CASE create_pub_keys
  BY <1>2 DEF create_pub_keys
<1>3. CASE PresubmitterSends
  BY <1>3 DEF PresubmitterSends
<1>4. CASE SignTransfer
  BY <1>4, Zenon DEF SignTransfer, makers
<1>5. CASE SignWithdrawal
  BY <1>5, Zenon DEF SignWithdrawal, makers
<1>6. ASSUME NEW x \in extrinsics, PoolLands(x) \/ GiveUp(x)
      PROVE  sub' = sub /\ pre' = pre /\ extrinsics' \subseteq extrinsics
  BY <1>6, Zenon DEF PoolLands, GiveUp, makers
<1> QED BY <1>1, <1>2, <1>3, <1>4, <1>5, <1>6, Zenon DEF Presubmitter, Signer, PoolDelivers

\* What the steps of the migrator do, as far as the workers see them.
LEMMA MigratorMoves ==
    ASSUME KeyTypes, Migrator
    PROVE  /\ UNCHANGED <<state, round, pending, accepted, sub, pre, extrinsics, wrong, hasty>>
           /\ \/ /\ mig.at = "down" /\ mig'.at = "starting" /\ mig'.first = mig.first /\ seq' = seq
              \/ /\ mig.at \notin {"down", "loading"} /\ mig'.at # "down"
                 /\ mig'.first = mig.first /\ seq' = seq
              \/ /\ mig.at = "loading" /\ mig'.at = "idle" /\ mig'.first = FALSE
                 /\ seq' = mig.state
<1>1. mig \in Migs
  BY DEF KeyTypes, VaultTypeOK, Migs
<1>2. CASE Start
  BY <1>1, <1>2 DEF Start, makers, Migs
<1>3. CASE initialize
  BY <1>1, <1>3 DEF initialize, pool, makers, Migs
<1>4. CASE get_service_state
  BY <1>1, <1>4 DEF get_service_state, pool, makers, Migs
<1>5. CASE MigratorLoads
  BY <1>1, <1>5 DEF MigratorLoads, pool, makers, Migs
<1>6. CASE MigratorStores
  BY <1>6 DEF MigratorStores, makers, Down
<1> QED BY <1>2, <1>3, <1>4, <1>5, <1>6, Zenon DEF Migrator

\* A crash takes the workers' records with it.
LEMMA CrashForgets ==
    ASSUME ProcessEnds
    PROVE  /\ UNCHANGED <<state, round, pending, accepted, wrong>>
           /\ mig' = Down /\ mig'.at = "down" /\ sub' = NoWork /\ pre'.at = "idle"
           /\ extrinsics' = {}
BY DEF ProcessEnds, Down, pool

\* What the migrator is about to store.
LEMMA Arrives ==
    ASSUME KeyTypes, Behind, mig.at = "loading"
    PROVE  /\ mig.first => mig.state = state
           /\ ~mig.first /\ seq = "Normal" => state # "Normal" /\ mig.state # "Normal"
           /\ ~mig.first => ahead # 0
           /\ ~mig.first /\ mig.state = "Normal" => state = "Normal"
<1> USE MigratorNumbers
<1>1. mig.first => mig.moves = 0
  BY DEF Behind, Up
<1>2. state = After(mig.state, mig.moves)
  BY Zenon DEF Behind, Knows
<1>3. mig.first => mig.state = state
  BY <1>1, <1>2, Zenon DEF After
<1>4. ASSUME ~mig.first
      PROVE  /\ state = After(seq, ahead) /\ mig.moves < ahead
             /\ mig.state = After(seq, ahead - mig.moves) /\ (seq = "UTXOTransfer" => ahead <= 1)
  BY <1>4, Zenon DEF Behind, Up, Knows
<1>5. ~mig.first => ahead # 0
  BY <1>4
<1>6. ASSUME ~mig.first, seq = "Normal" PROVE state # "Normal" /\ mig.state # "Normal"
  BY <1>4, <1>6 DEF After, Then
<1>7. ASSUME ~mig.first, mig.state = "Normal" PROVE state = "Normal"
  <2> DEFINE k == ahead - mig.moves
  <2>1. k \in {1, 2} /\ After(seq, k) = "Normal" /\ (seq = "UTXOTransfer" => k = 1 /\ mig.moves = 0)
        /\ (k = 2 => mig.moves = 0)
    BY <1>4, <1>7
  <2> HIDE DEF k
  <2>2. mig.moves = 0
    BY <2>1 DEF After, Then, States
  <2> QED BY <1>2, <1>7, <2>2 DEF After
<1> QED BY <1>3, <1>5, <1>6, <1>7

LEMMA StepAtWork ==
    ASSUME KeyTypes, Behind, AtWork, VaultNext, ~hasty'
    PROVE  AtWork'
<1> USE WorkerFields DEF AtWork
<1>1. CASE Submitter
  <2>1. UNCHANGED <<state, round, pending, ahead, seq, dir, loaded, mig>>
    BY <1>1, WorkersAreStill, Zenon
  <2>2. TargetRound # 0 /\ (ReadSequence => Up /\ (mig.first => state = "Normal"))
    BY RoundsAtHand, Zenon DEF ReadSequence, Behind, Up
  <2>3. PendingRegistrations(sub.target) \subseteq Users \cup {System}
    BY Zenon DEF PendingRegistrations
  <2>4. SubmitterSends => sub.at = "made" /\ sub' = NoWork
    BY Zenon DEF SubmitterSends
  <2> QED BY <1>1, <2>1, <2>2, <2>3, <2>4, SubmitterMoves, IdleFields, Zenon DEF Up
<1>2. CASE Presubmitter \/ Signer \/ PoolDelivers
  <2>1. UNCHANGED <<state, round, pending, ahead, seq, dir, loaded, mig>>
    BY <1>2, WorkersAreStill, Zenon
  <2>2. ReadSequence => Up /\ (mig.first => state = "Normal")
    BY Zenon DEF ReadSequence, Behind, Up
  <2>3. (PresubmitterSends => pre.at = "made") /\ (SignTransfer => ReadSequence)
    BY Zenon DEF PresubmitterSends, SignTransfer
  <2> QED BY <1>2, <2>1, <2>2, <2>3, OthersMove DEF Up
<1>3. CASE Migrator
  BY <1>3, MigratorMoves, Zenon
<1>4. CASE ProcessEnds
  BY <1>4, CrashForgets, IdleFields, Zenon
<1>5. CASE Migrate
  <2>1. UNCHANGED <<sub, pre, extrinsics>> /\ (mig.at = "down" => mig' = mig)
    BY <1>5, MigrateMoves, Zenon
  <2>2. mig.at # "down" => ~mig.first /\ mig'.at = mig.at /\ mig'.first = mig.first
    BY <1>5, MigrateMoves DEF KeyTypes, VaultTypeOK
  <2> QED BY <2>1, <2>2, Zenon
<1>6. ASSUME NEW u \in Users, Register(u) PROVE AtWork'
  BY <1>6, Zenon DEF Register, store, makers
<1> QED BY <1>1, <1>2, <1>3, <1>4, <1>5, <1>6, Zenon DEF VaultNext

LEMMA StepForSystem ==
    ASSUME KeyTypes, Behind, Opened, AtWork, ForSystem, VaultNext, ~hasty'
    PROVE  ForSystem'
<1> USE DEF ForSystem
<1>1. SUFFICES ASSUME sub'.who = System PROVE ForSystem'
  OBVIOUS
<1>2. None # System /\ System \notin Users
  BY RoundsAssumption
<1>3. CASE Submitter
  <2>1. UNCHANGED <<state, round, pending, ahead, seq, dir, loaded, mig>>
    BY <1>3, WorkersAreStill, Zenon
  <2>2. CASE /\ sub.at = "listed" /\ sub'.at = "wait" /\ sub'.target = sub.target
             /\ sub'.who \in PendingRegistrations(sub.target) /\ ReadSequence
    <3>1. state = "PrepareNextSystemVault" /\ sub.target = round + 1
      BY <1>1, <1>2, <2>2, Zenon DEF PendingRegistrations
    <3>2. Up /\ ~mig.first
      BY <2>2, <3>1 DEF ReadSequence, Behind, Up
    <3> QED BY <2>1, <2>2, <3>1, <3>2, Zenon DEF Up
  <2>3. CASE /\ sub.at = "wait" /\ loaded = sub.target /\ sub'.at = "create"
             /\ sub'.target = sub.target /\ sub'.who = sub.who
    <3>1. Up /\ ~mig.first
      BY <1>1, <2>3, Zenon
    <3>2. ASSUME state = "PrepareNextSystemVault" PROVE seq = "PrepareNextSystemVault"
      <4>1. /\ After(seq, ahead) = "PrepareNextSystemVault"
            /\ Fits(round, seq, ahead, round + 1)
        BY <1>1, <2>3, <3>1, <3>2 DEF Behind, Opened
      <4>2. round \in Nat /\ seq \in States /\ ahead \in 0 .. 2
        BY MigratorNumbers
      <4>3. seq \notin {"Normal", "SetExecutiveMembers"}
        <5>1. round + 1 # round
          BY <4>2
        <5> QED BY <4>1, <5>1, Zenon DEF Fits
      <4>4. seq # "UTXOTransfer"
        BY <4>1, <4>2 DEF After, Then
      <4> QED BY <4>2, <4>3, <4>4, Zenon DEF States
    <3> QED BY <1>1, <2>1, <2>3, <3>2, Zenon DEF Up
  <2>4. CASE /\ sub.at = "create" /\ sub'.at = "made" /\ sub'.dir = dir
             /\ sub'.target = sub.target /\ sub'.who = sub.who
    <3>1. ASSUME state = "PrepareNextSystemVault" PROVE dir = round + 1
      <4>1. Up /\ ~mig.first /\ seq = "PrepareNextSystemVault"
        BY <1>1, <2>4, <3>1, Zenon
      <4>2. ahead = 0
        BY <3>1, <4>1, MigratorNumbers DEF Behind, After, Then
      <4>3. mig.at # "loading"
        BY <4>1, <4>2, Arrives, Zenon
      <4>4. Fits(round, "PrepareNextSystemVault", 0, dir)
        BY <4>1, <4>2, <4>3, Zenon DEF Opened
      <4> QED BY <4>4 DEF Fits
    <3> QED BY <1>1, <2>1, <2>4, <3>1, Zenon DEF Up
  <2>5. sub'.who # None
    BY <1>1, <1>2
  <2>6. ~SubmitterSends
    BY <2>5, IdleFields, Zenon DEF SubmitterSends
  <2> QED BY <1>3, <2>2, <2>3, <2>4, <2>5, <2>6, SubmitterMoves, IdleFields, Zenon
<1>4. CASE Presubmitter \/ Signer \/ PoolDelivers
  BY <1>1, <1>4, WorkersAreStill, OthersMove, Zenon DEF Up
<1>5. CASE Migrator
  <2>1. UNCHANGED <<state, round, sub>> /\ Up /\ ~mig.first
    BY <1>1, <1>5, MigratorMoves, Zenon DEF Up
  <2>2. CASE mig.at # "loading"
    BY <1>1, <1>5, <2>1, <2>2, MigratorMoves, Zenon DEF Up
  <2>3. CASE mig.at = "loading"
    <3>1. mig'.at = "idle" /\ ~mig'.first
      BY <1>5, <2>3, MigratorMoves, Zenon
    <3>2. ahead # 0 /\ state = After(seq, ahead)
      BY <2>1, <2>3, Arrives, Zenon DEF Behind
    <3>3. ~(state = "PrepareNextSystemVault" /\ seq = "PrepareNextSystemVault")
      BY <3>2, MigratorNumbers DEF After, Then
    <3> QED BY <1>1, <2>1, <3>1, <3>3, Zenon DEF Up
  <2> QED BY <2>2, <2>3
<1>6. CASE ProcessEnds
  BY <1>1, <1>2, <1>6, CrashForgets, IdleFields, Zenon
<1>7. CASE Migrate
  <2>1. sub' = sub /\ Up /\ ~mig.first /\ state # "Normal"
    BY <1>1, <1>7, MigrateMoves, Zenon DEF RoundIsOver
  <2>2. mig'.at = mig.at /\ mig'.first = mig.first
    BY <1>7, <2>1, MigrateMoves DEF Up, KeyTypes, VaultTypeOK
  <2>3. state' = Then(state) /\ round' = IF state = "UTXOTransfer" THEN round + 1 ELSE round
    BY <1>7, MigrateMoves, Zenon
  <2> QED BY <1>1, <2>1, <2>2, <2>3 DEF Then, Up
<1>8. ASSUME NEW u \in Users, Register(u) PROVE ForSystem'
  BY <1>1, <1>8, Zenon DEF Register, store, makers, Up
<1> QED BY <1>3, <1>4, <1>5, <1>6, <1>7, <1>8, Zenon DEF VaultNext

LEMMA StepForPre ==
    ASSUME KeyTypes, Behind, Opened, AtWork, ForPre, VaultNext, ~hasty'
    PROVE  ForPre'
<1> USE DEF ForPre
<1>1. CASE Submitter
  BY <1>1, WorkersAreStill, SubmitterMoves, Zenon
<1>2. CASE Presubmitter \/ Signer \/ PoolDelivers
  <2>1. UNCHANGED <<state, round, pending, ahead, seq, dir, loaded, mig>>
    BY <1>2, WorkersAreStill, Zenon
  <2>2. ASSUME pre.at = "create", dir # 0, state = "Normal" PROVE dir = round
    <3>1. seq = "Normal" /\ Up
      BY <2>2, Zenon DEF AtWork, Up
    <3>2. CASE mig.first
      BY <2>2, <3>2, Zenon DEF Opened, InitialRound
    <3>3. CASE ~mig.first
      <4>1. ahead = 0
        BY <2>2, <3>1, <3>3, MigratorNumbers DEF Behind, After, Then
      <4>2. mig.at # "loading"
        BY <3>3, <4>1, Arrives, Zenon
      <4> QED BY <3>1, <3>3, <4>2 DEF Opened, Fits
    <3> QED BY <3>2, <3>3, MigratorNumbers
  <2>3. CASE /\ pre.at = "create" /\ dir # 0 /\ pre'.at = "made" /\ pre'.dir = dir
    BY <2>1, <2>2, <2>3, Zenon
  <2>4. CASE pre' = pre
    BY <2>1, <2>4, Zenon
  <2>5. CASE pre'.at = "idle" \/ (pre'.at = "create" /\ seq = "Normal")
    BY <2>1, <2>5, Zenon
  <2> QED BY <1>2, <2>3, <2>4, <2>5, OthersMove, Zenon
<1>3. CASE Migrator
  <2>1. UNCHANGED <<state, round, pre>> /\ (mig.at # "loading" => seq' = seq)
        /\ (mig.at = "loading" => seq' = mig.state)
    BY <1>3, MigratorMoves, Zenon
  <2>2. mig.at = "loading" /\ state = "Normal" /\ seq = "Normal" => mig.state = "Normal"
    BY Arrives, MigratorNumbers, Zenon
  <2> QED BY <2>1, <2>2, Zenon
<1>4. CASE ProcessEnds
  BY <1>4, CrashForgets, Zenon
<1>5. CASE Migrate
  <2>1. pre' = pre /\ state' = Then(state) /\ (state = "UTXOTransfer" => pre.at = "idle")
    BY <1>5, MigrateMoves, Zenon
  <2>2. state # "UTXOTransfer" => state' # "Normal"
    BY <2>1, MigratorNumbers DEF Then, States
  <2> QED BY <2>1, <2>2, Zenon
<1>6. ASSUME NEW u \in Users, Register(u) PROVE ForPre'
  BY <1>6, Zenon DEF Register, store, makers
<1> QED BY <1>1, <1>2, <1>3, <1>4, <1>5, <1>6, Zenon DEF VaultNext

LEMMA StepForUser ==
    ASSUME KeyTypes, Behind, Opened, AtWork, ForUser, VaultNext, ~hasty'
    PROVE  ForUser'
<1> DEFINE Registered == sub.who \in Users =>
         /\ pending[sub.who] = sub.target
         /\ round = sub.target /\ seq # "Normal" => state # "Normal"
         /\ round = sub.target /\ seq = "Normal" /\ sub.at = "made" =>
              sub.dir = round \/ (mig.at = "loading" /\ mig.state # "Normal")
<1>1. Registered /\ \A u \in Users : pending[u] <= round
  BY Zenon DEF ForUser
<1>2. None \notin Users
  BY Zenon, RoundsAssumption
<1>3. CASE Submitter
  <2>1. UNCHANGED <<state, round, pending, ahead, seq, dir, loaded, mig>>
    BY <1>3, WorkersAreStill, Zenon
  <2>2. Registered'
    <3>1. CASE sub'.who = None
      BY <1>2, <3>1, Zenon
    <3>2. CASE /\ sub'.at = "wait" /\ sub'.target = sub.target
               /\ sub'.who \in PendingRegistrations(sub.target) /\ Eligible(sub'.who)
      <4>1. ASSUME sub'.who \in Users PROVE pending[sub'.who] = sub.target /\ seq = "Normal"
        <5>1. sub'.who # System
          BY <4>1, RoundsAssumption
        <5> QED BY <3>2, <4>1, <5>1, Zenon DEF PendingRegistrations, Eligible
      <4> QED BY <2>1, <3>2, <4>1, Zenon
    <3>3. CASE /\ sub'.at = "create" /\ sub'.target = sub.target /\ sub'.who = sub.who
      BY <1>1, <2>1, <3>3, Zenon
    <3>4. CASE /\ sub.at = "create" /\ dir # 0 /\ sub'.at = "made" /\ sub'.dir = dir
               /\ sub'.target = sub.target /\ sub'.who = sub.who
      <4>1. ASSUME seq = "Normal" PROVE dir = round \/ (mig.at = "loading" /\ mig.state # "Normal")
        <5>1. Up
          BY <3>4, Zenon DEF AtWork, Up
        <5>2. CASE mig.first
          <6>1. state = "Normal"
            BY <3>4, <5>2, Zenon DEF AtWork
          <6> QED BY <3>4, <5>2, <6>1, Zenon DEF Opened, InitialRound
        <5>3. CASE ~mig.first /\ mig.at # "loading"
          BY <4>1, <5>1, <5>3, Zenon DEF Opened, Fits
        <5>4. CASE mig.at = "loading" /\ mig.state = "Normal"
          BY <5>4, Zenon DEF Opened, Fits
        <5> QED BY <5>2, <5>3, <5>4, MigratorNumbers, Zenon
      <4> QED BY <1>1, <2>1, <3>4, <4>1, Zenon
    <3>5. CASE SubmitterSends
      BY <1>2, <3>5, IdleFields, Zenon DEF SubmitterSends
    <3> QED BY <1>3, <3>1, <3>2, <3>3, <3>4, <3>5, SubmitterMoves, IdleFields, Zenon
  <2> QED BY <1>1, <2>1, <2>2, Zenon DEF ForUser
<1>4. CASE Presubmitter \/ Signer \/ PoolDelivers
  BY <1>1, <1>4, WorkersAreStill, OthersMove, Zenon DEF ForUser
<1>5. CASE Migrator
  <2>1. UNCHANGED <<state, round, pending, sub>>
    BY <1>5, MigratorMoves, Zenon
  <2>2. CASE mig.at # "loading"
    BY <1>1, <1>5, <2>1, <2>2, MigratorMoves, Zenon DEF ForUser
  <2>3. CASE mig.at = "loading"
    <3>1. seq' = mig.state
      BY <1>5, <2>3, MigratorMoves, Zenon
    <3>2. ASSUME sub.who \in Users, round = sub.target, mig.state # "Normal" PROVE state # "Normal"
      <4>1. CASE seq # "Normal"
        BY <1>1, <3>2, <4>1, Zenon
      <4>2. CASE seq = "Normal"
        <5>1. mig.first => mig.state = state
          BY <2>3, Arrives, Zenon
        <5> QED BY <2>3, <3>2, <4>2, <5>1, Arrives, MigratorNumbers, Zenon
      <4> QED BY <4>1, <4>2
    <3>3. ASSUME sub.who \in Users, round = sub.target, mig.state = "Normal", sub.at = "made"
          PROVE  sub.dir = round
      <4>1. state = "Normal"
        BY <2>3, <3>3, Arrives, MigratorNumbers, Zenon
      <4>2. seq = "Normal"
        BY <1>1, <3>3, <4>1, Zenon
      <4> QED BY <1>1, <3>3, <4>2, Zenon
    <3>4. Registered'
      BY <1>1, <2>1, <3>1, <3>2, <3>3, Zenon
    <3> QED BY <1>1, <2>1, <3>4, Zenon DEF ForUser
  <2> QED BY <2>2, <2>3
<1>6. CASE ProcessEnds
  <2>1. sub'.who = None /\ UNCHANGED <<round, pending>>
    BY <1>6, CrashForgets, IdleFields, Zenon
  <2> QED BY <1>1, <1>2, <2>1, Zenon DEF ForUser
<1>7. CASE Migrate
  <2>1. /\ state' = Then(state) /\ round' = IF state = "UTXOTransfer" THEN round + 1 ELSE round
        /\ UNCHANGED <<pending, seq, sub>>
    BY <1>7, MigrateMoves, Zenon
  <2>2. mig'.at = mig.at /\ mig'.state = mig.state
    BY <1>7, MigrateMoves DEF KeyTypes, VaultTypeOK
  <2>3. round \in Nat /\ \A u \in Users : pending[u] \in Nat
    BY RoundsAtHand, WorkerFields
  <2>4. \A u \in Users : pending[u] <= round'
    BY <1>1, <2>1, <2>3
  <2>5. ASSUME sub.who \in Users, round' = sub.target PROVE state # "UTXOTransfer"
    BY <1>1, <2>1, <2>3, <2>5
  <2>6. state # "UTXOTransfer" => state' # "Normal" /\ round' = round
    BY <2>1, MigratorNumbers DEF Then, States
  <2>7. Registered'
    BY <1>1, <2>1, <2>2, <2>5, <2>6, Zenon
  <2> QED BY <2>1, <2>4, <2>7, Zenon DEF ForUser
<1>8. ASSUME NEW u \in Users, Register(u) PROVE ForUser'
  <2>1. /\ UNCHANGED <<state, round, seq, mig, sub>> /\ pending[u] = 0
        /\ pending' = [pending EXCEPT ![u] = round]
    BY <1>8, Zenon DEF Register, store, makers
  <2>2. round <= round
    BY RoundsAtHand
  <2>3. \A w \in Users : pending'[w] <= round
    BY <1>1, <2>1, <2>2, WorkerFields, Zenon
  <2>4. sub.who \in Users => sub.who # u
    <3> SUFFICES ASSUME sub.who \in Users PROVE pending[sub.who] # 0
      BY <2>1, Zenon
    <3>1. sub.at # "idle"
      BY <1>2, Zenon DEF AtWork
    <3>2. pending[sub.who] = sub.target
      BY <1>1, Zenon
    <3> QED BY <3>1, <3>2, Zenon DEF AtWork
  <2>5. sub.who \in Users => pending'[sub.who] = pending[sub.who]
    BY <2>1, <2>4, WorkerFields, Zenon
  <2>6. Registered'
    BY <1>1, <2>1, <2>5, Zenon
  <2> QED BY <2>1, <2>3, <2>6, Zenon DEF ForUser
<1> QED BY <1>3, <1>4, <1>5, <1>6, <1>7, <1>8, Zenon DEF VaultNext

\* What the submitter sends.
LEMMA SubmitterSendsRight ==
    ASSUME KeyTypes, AtWork, ForSystem, ForUser, SubmitterSends
    PROVE  \A x \in extrinsics' \ extrinsics : Holds(x)
<1> DEFINE call == IF sub.who = System THEN "SubmitSystemVaultKey" ELSE "SubmitVaultKey"
           x == [call |-> call, who |-> sub.who, round |-> TargetRound, dir |-> sub.dir]
<1>1. extrinsics' = extrinsics \cup {x} /\ sub.at = "made" /\ mig.at # "loading"
  BY Zenon DEF SubmitterSends, ReadSequence
<1>2. /\ x.call = call /\ x.who = sub.who /\ x.round = TargetRound /\ x.dir = sub.dir
      /\ call \in {"SubmitSystemVaultKey", "SubmitVaultKey"}
      /\ call = "SubmitSystemVaultKey" <=> sub.who = System
  BY Zenon
<1> HIDE DEF x, call
<1>3. CASE sub.who = System
  <2>1. state # "SetExecutiveMembers" /\ (state = "PrepareNextSystemVault" => sub.dir = round + 1)
    BY <1>1, <1>3, Zenon DEF ForSystem
  <2> QED BY <1>1, <1>2, <1>3, <2>1, Zenon DEF Holds
<1>4. CASE sub.who # System
  <2>1. sub.who \in Users /\ pending[sub.who] # 0
    BY <1>1, <1>4, Zenon DEF AtWork, ForUser
  <2>2. ASSUME TargetRound = pending[sub.who] PROVE sub.dir = TargetRound
    <3>1. seq = "Normal"
      <4>1. pending[sub.who] <= round /\ round \in Nat
        BY <2>1, RoundsAtHand, Zenon DEF ForUser
      <4> QED BY <2>2, <4>1 DEF TargetRound
    <3>2. TargetRound = round /\ round = sub.target
      BY <2>1, <2>2, <3>1, Zenon DEF TargetRound, ForUser
    <3> QED BY <1>1, <2>1, <3>1, <3>2, Zenon DEF ForUser
  <2> QED BY <1>1, <1>2, <1>4, <2>1, <2>2, Zenon DEF Holds
<1> QED BY <1>3, <1>4

\* What the presubmitter and the signer send.
LEMMA OthersSendRight ==
    ASSUME KeyTypes, ForPre, PresubmitterSends \/ SignTransfer
    PROVE  \A x \in extrinsics' \ extrinsics : Holds(x)
<1>1. CASE PresubmitterSends
  <2> DEFINE x == [call |-> "VaultKeyPresubmission", who |-> None, round |-> round,
                   dir |-> pre.dir]
  <2>1. extrinsics' = extrinsics \cup {x} /\ pre.at = "made"
    BY <1>1, Zenon DEF PresubmitterSends
  <2>2. x.call = "VaultKeyPresubmission" /\ x.round = round /\ x.dir = pre.dir
    BY Zenon
  <2> HIDE DEF x
  <2>3. round <= round /\ (state = "Normal" => pre.dir = round)
    BY <2>1, RoundsAtHand DEF ForPre
  <2> QED BY <2>1, <2>2, <2>3, Zenon DEF Holds
<1>2. CASE SignTransfer
  <2> DEFINE x == [call |-> "SubmitSignedPsbt", who |-> System, round |-> round, dir |-> dir]
  <2>1. extrinsics' = extrinsics \cup {x} /\ x.call = "SubmitSignedPsbt"
    BY <1>2, Zenon DEF SignTransfer
  <2> HIDE DEF x
  <2> QED BY <2>1, Zenon DEF Holds
<1> QED BY <1>1, <1>2

LEMMA StepSubmitted ==
    ASSUME KeyTypes, AtWork, ForSystem, ForUser, ForPre, Submitted,
           VaultNext, ~hasty'
    PROVE  Submitted'
<1>1. \A x \in extrinsics : Holds(x)
  BY Zenon DEF Submitted
<1>2. (\A x \in extrinsics' : Holds(x)') => Submitted'
  BY Zenon DEF Submitted
<1>3. CASE Submitter \/ Presubmitter \/ Signer \/ PoolDelivers
  <2>1. UNCHANGED <<state, round, pending>>
    BY <1>3, WorkersAreStill, Zenon
  <2>2. \A x : Holds(x) => Holds(x)'
    BY <2>1, Zenon DEF Holds
  <2>3. \A x \in extrinsics' \ extrinsics : Holds(x)
    <3>1. CASE Submitter
      BY <3>1, SubmitterMoves, SubmitterSendsRight, Zenon
    <3>2. CASE Presubmitter \/ Signer \/ PoolDelivers
      BY <3>2, OthersMove, OthersSendRight, Zenon
    <3> QED BY <1>3, <3>1, <3>2
  <2> QED BY <1>1, <1>2, <2>2, <2>3, Zenon
<1>4. CASE Migrator
  BY <1>1, <1>2, <1>4, MigratorMoves, Zenon DEF Holds
<1>5. CASE ProcessEnds
  BY <1>2, <1>5, CrashForgets, Zenon
<1>6. CASE Migrate
  <2>1. /\ state' = Then(state) /\ round' = IF state = "UTXOTransfer" THEN round + 1 ELSE round
        /\ UNCHANGED <<pending, extrinsics>>
        /\ state = "Normal" => \A x \in extrinsics : x.call # "SubmitSystemVaultKey"
    BY <1>6, MigrateMoves, Zenon DEF RoundIsOver
  <2>2. state \in States /\ round \in Nat
    BY MigratorNumbers
  <2>3. ASSUME NEW x \in extrinsics PROVE Holds(x)'
    <3>1. x.call = "SubmitSystemVaultKey" =>
            state' # "SetExecutiveMembers" /\ state' # "PrepareNextSystemVault"
      <4>1. x.call = "SubmitSystemVaultKey" => state \notin {"Normal", "SetExecutiveMembers"}
        BY <1>1, <2>1, <2>3, Zenon DEF Holds
      <4> QED BY <2>1, <2>2, <4>1 DEF Then, States
    <3>2. ASSUME x.call = "VaultKeyPresubmission"
          PROVE  x.round <= round' /\ ~(state' = "Normal" /\ x.round = round')
      <4>1. x.round <= round /\ x.round \in Nat
        BY <1>1, <2>3, <3>2 DEF Holds, KeyTypes, VaultTypeOK
      <4>2. CASE state = "UTXOTransfer"
        BY <2>1, <2>2, <4>1, <4>2
      <4>3. CASE state # "UTXOTransfer"
        BY <2>1, <2>2, <4>1, <4>3 DEF Then, States
      <4> QED BY <4>2, <4>3
    <3> QED BY <1>1, <2>1, <2>3, <3>1, <3>2, Zenon DEF Holds
  <2> QED BY <1>2, <2>1, <2>3, Zenon
<1>7. ASSUME NEW u \in Users, Register(u) PROVE Submitted'
  <2>1. /\ UNCHANGED <<state, round, extrinsics>> /\ pending[u] = 0
        /\ pending' = [pending EXCEPT ![u] = round]
    BY <1>7, Zenon DEF Register
  <2>2. \A w \in Users : w # u => pending'[w] = pending[w]
    BY <2>1, WorkerFields, Zenon
  <2>3. \A x \in extrinsics : Holds(x)'
    BY <1>1, <2>1, <2>2, Zenon DEF Holds
  <2> QED BY <1>2, <2>1, <2>3, Zenon
<1> QED BY <1>3, <1>4, <1>5, <1>6, <1>7, Zenon DEF VaultNext

InOrder == Behind /\ Opened /\ AtWork /\ ForSystem /\ ForUser /\ ForPre /\ Submitted

KeyInv ==
    /\ KeyTypes /\ KeysAtHand /\ NoWithdrawalInTransfer
    /\ ~hasty => InOrder

LEMMA KeyInvInit == ASSUME VaultInit PROVE KeyInv
<1>1. KeyTypes
  BY KeyTypesInit
<1>2. /\ mig = Down /\ mig.at = "down" /\ mig.first /\ seq = "Normal" /\ dir = 0 /\ loaded = 0
      /\ sub.at = "idle" /\ sub.who = None /\ pre.at = "idle" /\ extrinsics = {}
  BY DEF VaultInit, Down, NoWork
<1>3. Behind /\ Opened /\ AtWork /\ ForPre /\ Submitted
  BY <1>2 DEF Behind, Opened, AtWork, ForPre, Submitted, Up, Knows
<1>4. ForSystem
  BY <1>2, RoundsAssumption DEF ForSystem
<1>5. ForUser
  <2>1. \A u \in Users : pending[u] <= round
    <3>1. \A u \in Users : pending[u] = 0
      BY Zenon DEF VaultInit
    <3>2. 0 <= round
      BY <1>1, RoundsAtHand
    <3> QED BY <3>1, <3>2, Zenon
  <2> QED BY <1>2, <2>1, Zenon, RoundsAssumption DEF ForUser
<1>6. accepted = {} /\ wrong = FALSE
  BY DEF VaultInit
<1> QED BY <1>1, <1>3, <1>4, <1>5, <1>6, Zenon DEF KeyInv, InOrder, KeysAtHand,
           NoWithdrawalInTransfer

\* Nothing happens after a hasty start.
LEMMA NothingAfterHaste == VaultNext => ~hasty
BY Zenon DEF VaultNext, Migrator, Start, initialize, get_service_state, MigratorLoads,
       MigratorStores, Submitter, SubmitterLists, SubmitterEnds, SubmitterWakes,
       create_new_keypair, SubmitterSends, SubmitterPicks, Presubmitter,
       PresubmitterStarts, create_pub_keys, PresubmitterSends, Signer, SignTransfer,
       SignWithdrawal, PoolDelivers, PoolLands, GiveUp, ProcessEnds, Migrate, Move, Register,
       ReadSequence, Followed

LEMMA StepKeysAtHand ==
    ASSUME KeyTypes, Submitted, KeysAtHand, VaultNext
    PROVE  KeysAtHand'
<1> USE DEF KeysAtHand
<1>1. ASSUME NEW x \in extrinsics, PoolLands(x) PROVE KeysAtHand'
  <2>1. x.call = "SubmitSignedPsbt" \/ x.dir = x.round
    <3>1. Holds(x) /\ PoolTakes(x)
      BY <1>1, Zenon DEF Submitted, PoolLands
    <3> QED BY <3>1, Zenon DEF Holds, PoolTakes
  <2> DEFINE k == [who |-> x.who, round |-> x.round, dir |-> x.dir]
  <2>2. k.dir = x.dir /\ k.round = x.round
    OBVIOUS
  <2>3. accepted' \subseteq accepted \cup {k}
        /\ (x.call = "SubmitSignedPsbt" => accepted' = accepted)
    BY <1>1, Zenon DEF PoolLands
  <2> HIDE DEF k
  <2> QED BY <2>1, <2>2, <2>3, Zenon
<1>2. ASSUME NEW x \in extrinsics, GiveUp(x) PROVE KeysAtHand'
  BY <1>2, Zenon DEF GiveUp, pool
<1>3. ASSUME NEW u \in Users, Register(u) PROVE KeysAtHand'
  BY <1>3, Zenon DEF Register
<1>4. CASE ProcessEnds \/ Migrate \/ Migrator
  BY <1>4, CrashForgets, MigrateMoves, MigratorMoves, Zenon
<1>5. CASE Submitter \/ Presubmitter \/ Signer
  BY <1>5, Zenon DEF Submitter, SubmitterLists, SubmitterEnds, SubmitterWakes,
       create_new_keypair, SubmitterSends, SubmitterPicks, Presubmitter,
       PresubmitterStarts, create_pub_keys, PresubmitterSends, Signer, SignTransfer,
       SignWithdrawal, pool
<1> QED BY <1>1, <1>2, <1>3, <1>4, <1>5, Zenon DEF VaultNext, PoolDelivers

LEMMA StepNoWithdrawal ==
    ASSUME KeyTypes, Behind, ~wrong, VaultNext
    PROVE  NoWithdrawalInTransfer'
<1>1. CASE SignWithdrawal
  <2>1. /\ seq = "Normal" /\ mig.at # "down" /\ wrong' = (wrong \/ state = "UTXOTransfer")
        /\ hasty' = (hasty \/ (mig.first /\ seq # state))
    BY <1>1, Zenon DEF SignWithdrawal, MaySign, ReadSequence
  <2>2. CASE mig.first
    BY <2>1, <2>2 DEF NoWithdrawalInTransfer
  <2>3. CASE ~mig.first
    <3>1. state # "UTXOTransfer"
      BY <2>1, <2>3, MigratorNumbers DEF Behind, Up, After, Then
    <3> QED BY <2>1, <3>1, Zenon DEF NoWithdrawalInTransfer
  <2> QED BY <2>2, <2>3, MigratorNumbers
<1>2. CASE ~SignWithdrawal
  <2>1. wrong' = wrong
    BY <1>2, Zenon DEF VaultNext, Migrator, Start, initialize, get_service_state,
       MigratorLoads, MigratorStores, Submitter, SubmitterLists, SubmitterEnds,
       SubmitterWakes, create_new_keypair, SubmitterSends, SubmitterPicks, Presubmitter,
       PresubmitterStarts, create_pub_keys, PresubmitterSends, Signer, SignTransfer,
       PoolDelivers, PoolLands, GiveUp, ProcessEnds, Migrate, Register
  <2> QED BY <2>1, Zenon DEF NoWithdrawalInTransfer
<1> QED BY <1>1, <1>2

LEMMA StepKeyInv == ASSUME KeyInv, [VaultNext]_vaultVars PROVE KeyInv'
<1>1. CASE VaultNext
  <2>1. KeyTypes /\ InOrder /\ ~wrong /\ KeysAtHand
    BY <1>1, NothingAfterHaste, Zenon DEF KeyInv, NoWithdrawalInTransfer
  <2>2. KeyTypes' /\ KeysAtHand' /\ NoWithdrawalInTransfer'
    BY <1>1, <2>1, StepKeyTypes, StepKeysAtHand, StepNoWithdrawal, Zenon DEF InOrder
  <2>3. ASSUME ~hasty' PROVE InOrder'
    BY <1>1, <2>1, <2>3, StepBehind, StepOpened, StepAtWork, StepForSystem, StepForUser,
       StepForPre, StepSubmitted, Zenon DEF InOrder
  <2> QED BY <2>2, <2>3, Zenon DEF KeyInv
<1>2. CASE UNCHANGED vaultVars
  <2>1. UNCHANGED <<state, round, pending, accepted, ahead, seq, dir, loaded, mig, sub, pre,
                    extrinsics, wrong, hasty>>
    BY <1>2, Zenon DEF vaultVars, pool, store, makers
  <2>2. Behind => Behind'
    BY <2>1, Zenon DEF Behind, Up, Knows, After, Then
  <2>3. Opened => Opened'
    BY <2>1, Zenon DEF Opened, Up, Fits, InitialRound
  <2>4. (AtWork => AtWork') /\ (ForPre => ForPre') /\ (Submitted => Submitted')
    BY <2>1, Zenon DEF AtWork, ForPre, Submitted, Holds
  <2>5. (ForSystem => ForSystem') /\ (ForUser => ForUser')
    BY <2>1, Zenon DEF ForSystem, ForUser, Up
  <2>6. KeyTypes'
    BY <1>2, StepKeyTypes, Zenon DEF KeyInv
  <2>7. KeysAtHand' /\ NoWithdrawalInTransfer'
    BY <2>1, Zenon DEF KeyInv, KeysAtHand, NoWithdrawalInTransfer
  <2> QED BY <2>1, <2>2, <2>3, <2>4, <2>5, <2>6, <2>7, Zenon DEF KeyInv, InOrder
<1> QED BY <1>1, <1>2

\* A key the pool took for a round is in the keystore directory of that round, of every
\* number of rounds, users and crashes: although the migrator opens another directory while
\* PubKeySubmitter and PubKeyPreSubmitter are at work.
THEOREM KeysStayAtHand == VaultSpec => []KeysAtHand
<1>1. VaultInit => KeyInv
  BY KeyInvInit
<1>2. KeyInv /\ [VaultNext]_vaultVars => KeyInv'
  BY StepKeyInv
<1>3. KeyInv => KeysAtHand
  BY DEF KeyInv
<1> QED BY <1>1, <1>2, <1>3, PTL DEF VaultSpec

\* Once the migrator has stored its first state, PsbtSigner signs no withdrawal while the
\* pool is in UTXOTransfer.
THEOREM NoWithdrawalIsSignedInTransfer ==
    VaultSpec => []NoWithdrawalInTransfer
<1>1. VaultInit => KeyInv
  BY KeyInvInit
<1>2. KeyInv /\ [VaultNext]_vaultVars => KeyInv'
  BY StepKeyInv
<1>3. KeyInv => NoWithdrawalInTransfer
  BY DEF KeyInv
<1> QED BY <1>1, <1>2, <1>3, PTL DEF VaultSpec
=============================================================================
