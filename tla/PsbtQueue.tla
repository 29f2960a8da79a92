----------------------------- MODULE PsbtQueue -----------------------------
(***************************************************************************)
(* One Bitcoin payment of Bifrost, from the request to its execution.      *)
(*                                                                         *)
(* A withdrawal waits in Blaze until the relayers have submitted fee rates *)
(* (FeeRateFeeder); the rollback of a deposit waits in BtcSocketQueue for  *)
(* the relayers' votes (BitcoinRollbackVerifier).  Either then becomes a   *)
(* PSBT, is signed (PsbtSigner, see VaultKeys) and finalized; the relayers *)
(* broadcast it and report it as executed (PsbtBroadcaster).  What they    *)
(* submit are unsigned extrinsics, each in the hands of a task of its own  *)
(* that retries (UnsignedTransactionManager), so that they land in any     *)
(* order, or never.                                                        *)
(***************************************************************************)
EXTENDS Naturals, FiniteSets

CONSTANTS
    Relayers,
    Quorum,             \* relayers whose submissions the pallets ask for
    Requests,           \* [rollback, outs, vout, matches], see Request
    Confirmations,      \* 6 in is_rollback_valid
    Lifetime,           \* 2 blocks until the deadline in build_payload
    Retries,            \* DEFAULT_TX_RETRIES
    MaxFaults, MaxReorgs    \* bounds of the model

\* Whether it is a rollback; if so, the number of outputs of the deposit, the index of the
\* output to pay back, and whether that output has the address and amount of the request.
Request == [rollback : BOOLEAN, outs : Nat, vout : Nat, matches : BOOLEAN]

ASSUME QueueAssumption ==
    /\ IsFiniteSet(Relayers) /\ Quorum \in 1 .. Cardinality(Relayers)
    /\ Requests \subseteq Request
    /\ Confirmations \in Nat \ {0} /\ Lifetime \in Nat \ {0} /\ Retries \in Nat \ {0}
    /\ MaxFaults \in Nat /\ MaxReorgs \in Nat

VARIABLES
    request, stage,     \* the request, and where it is in the pallets
    votes,              \* request.votes: "none", "yes" or "no"
    rates, executed,    \* relayers whose fee rate, whose report of execution, was taken
    known, depth,       \* whether Bitcoin has the deposit, and under how many blocks
    payout,             \* the payment on Bitcoin
    ver,                \* the vote each verifier read, "idle" between requests
    feeder, news,       \* feeders at work, and those a NewBlock message waits for
    bro,                \* broadcasters that have listed the finalized PSBT
    xts,                \* extrinsics under way: [from, call, arg, life, left]
    down,               \* relayers that panic whenever they are started
    failed,             \* history: relayers whose broadcast has failed
    unburied, evicted,  \* history: a vote for a deposit in the mempool; the payment left it
    faults, reorgs

queue   == <<request, stage, votes, rates, executed>>
bitcoin == <<known, depth, payout>>
workers == <<ver, feeder, news, bro>>
history == <<failed, unburied, evicted>>
bounds  == <<faults, reorgs>>
vars == <<queue, bitcoin, workers, xts, down, history, bounds>>

Fault == faults < MaxFaults /\ faults' = faults + 1

---------------------------------------------------------------------------
(* Bitcoin.  Once a rollback is approved nobody looks at its deposit.       *)

Mine ==
    /\ \/ /\ stage = "poll" /\ known /\ depth < Confirmations /\ depth' = depth + 1 /\ UNCHANGED payout
       \/ /\ payout = "mempool" /\ payout' = "mined" /\ UNCHANGED depth
    /\ UNCHANGED <<queue, known, workers, xts, down, history, bounds>>

\* A deposit under too few blocks goes back to the mempool, or is replaced there.
Reorganise ==
    /\ stage = "poll" /\ known /\ depth < Confirmations /\ reorgs < MaxReorgs /\ reorgs' = reorgs + 1
    /\ depth' = 0 /\ known' \in BOOLEAN
    /\ UNCHANGED <<queue, payout, workers, xts, down, history, faults>>

Evict ==
    /\ payout = "mempool" /\ Fault /\ payout' = "unsent" /\ evicted' = TRUE
    /\ UNCHANGED <<queue, known, depth, workers, xts, down, failed, unburied, reorgs>>

---------------------------------------------------------------------------
(* UnsignedTransactionManager: one task for each extrinsic.                *)

Msg(r, call, arg, life) == [from |-> r, call |-> call, arg |-> arg, life |-> life, left |-> Retries]

\* retry_transaction; a task without retries left returns.
Retried(x) ==
    IF x.left = 1 THEN xts \ {x} ELSE (xts \ {x}) \cup {[x EXCEPT !.left = @ - 1]}

\* What the pallets take.
Takes(x) ==
    \/ x.call = "SubmitRollbackPoll" /\ stage = "poll"
    \/ x.call = "SubmitFeeRate" /\ stage = "fee" /\ x.from \notin rates
    \/ x.call = "SubmitExecutedRequest" /\ stage = "finalized" /\ x.from \notin executed

Approves(v) == Cardinality({r \in Relayers : v[r] = "yes"}) >= Quorum

\* A request that goes on leaves behind the extrinsics and the workers of its last stage,
\* all of which will be refused.
LeaveBehind ==
    /\ xts' = {} /\ news' = {} /\ UNCHANGED bro
    /\ ver' = [r \in Relayers |-> "idle"] /\ feeder' = [r \in Relayers |-> "idle"]

LandPoll(x) ==
    /\ x.call = "SubmitRollbackPoll"
    /\ votes' = [votes EXCEPT ![x.from] = x.arg]
    /\ IF Approves(votes')
       THEN stage' = "signing" /\ LeaveBehind
       ELSE xts' = xts \ {x} /\ UNCHANGED <<stage, workers>>
    /\ UNCHANGED <<rates, executed>>

LandFeeRate(x) ==
    /\ x.call = "SubmitFeeRate"
    /\ rates' = rates \cup {x.from} /\ xts' = xts \ {x}
    /\ UNCHANGED <<stage, votes, executed, workers>>

LandExecuted(x) ==
    /\ x.call = "SubmitExecutedRequest"
    /\ executed' = executed \cup {x.from}
    /\ IF Cardinality(executed') >= Quorum
       THEN stage' = "executed" /\ LeaveBehind
       ELSE xts' = xts \ {x} /\ UNCHANGED <<stage, workers>>
    /\ UNCHANGED <<votes, rates>>

Land(x) ==
    /\ x \in xts /\ Takes(x)
    /\ LandPoll(x) \/ LandFeeRate(x) \/ LandExecuted(x)
    /\ UNCHANGED <<request, bitcoin, down, history, bounds>>

\* handle_failed_tx_request, for a pallet error: RequestDNE and BroadcastAlreadyConfirmed
\* are not retried; here the others are retried in vain until no retry is left ...
Refuse(x) ==
    /\ x \in xts /\ ~Takes(x) /\ xts' = xts \ {x}
    /\ UNCHANGED <<queue, bitcoin, workers, down, history, bounds>>

\* ... and for an error of the node, as handle_failed_tx_creation.
Fail(x) ==
    /\ x \in xts /\ Fault /\ xts' = Retried(x)
    /\ UNCHANGED <<queue, bitcoin, workers, down, history, reorgs>>

---------------------------------------------------------------------------
(* FeeRateFeeder, and Blaze, which composes a PSBT from enough fee rates.  *)

\* Every feeder is told, and the deadline of the fee rates under way comes closer; past
\* it they are refused.
NewBlock ==
    /\ stage = "fee" /\ news' = Relayers \ down
    /\ xts' = {[x EXCEPT !.life = @ - 1] : x \in {y \in xts : y.life > 1}}
    /\ UNCHANGED <<queue, bitcoin, ver, feeder, bro, down, history, bounds>>

is_fee_rate_submitted(r) ==
    /\ r \in news /\ feeder[r] = "idle" /\ news' = news \ {r}
    /\ feeder' = IF r \in rates THEN feeder ELSE [feeder EXCEPT ![r] = "fetching"]
    /\ UNCHANGED <<queue, bitcoin, ver, bro, xts, down, history, bounds>>

\* It asks again, the API and then the node, until one has answered.
fetch_fee_rate(r) ==
    /\ feeder[r] = "fetching" /\ feeder' = [feeder EXCEPT ![r] = "fetched"]
    /\ UNCHANGED <<queue, bitcoin, ver, news, bro, xts, down, history, bounds>>

\* The deadline counts from here.
submit_fee_rate(r) ==
    /\ feeder[r] = "fetched" /\ feeder' = [feeder EXCEPT ![r] = "idle"]
    /\ xts' = xts \cup {Msg(r, "SubmitFeeRate", "none", Lifetime)}
    /\ UNCHANGED <<queue, bitcoin, ver, news, bro, down, history, bounds>>

Compose ==
    /\ stage = "fee" /\ Cardinality(rates) >= Quorum
    /\ stage' = "signing" /\ rates' = {} /\ LeaveBehind
    /\ UNCHANGED <<request, votes, executed, bitcoin, down, history, bounds>>

Sign ==
    /\ stage = "signing" /\ stage' = "finalized"
    /\ UNCHANGED <<request, votes, rates, executed, bitcoin, workers, xts, down, history, bounds>>

---------------------------------------------------------------------------
(* BitcoinRollbackVerifier.                                                *)

\* Seeded defect: one confirmation too few.
Buried_short == depth = 0 \/ depth + 1 >= Confirmations

\* A deposit in the mempool has no confirmations to be compared.
Buried == depth = 0 \/ depth >= Confirmations

is_rollback_valid ==
    IF ~Buried \/ request.outs < request.vout THEN "no"
    ELSE IF request.outs = request.vout THEN "panic"
    ELSE IF request.matches THEN "yes" ELSE "no"

\* The transaction is not there, or the node does not answer.
Verdict(fetched) == IF fetched THEN is_rollback_valid ELSE "no"

\* get_rollback_request: the request must exist and not be approved.
ReadRequest(r) ==
    /\ stage = "poll" /\ r \notin down /\ ver[r] = "idle"
    /\ ver' = [ver EXCEPT ![r] = votes[r]]
    /\ UNCHANGED <<queue, bitcoin, feeder, news, bro, xts, down, history, bounds>>

\* Seeded defect: a relayer votes only once.
Vote_first(r, verdict) == ver[r] = "none"

\* A relayer votes when the vote it read is not its verdict.
Vote(r, verdict) == ver[r] # verdict

\* A panic ends the relayer, and again after each restart.
Verify(r) ==
    /\ ver[r] # "idle" /\ ver' = [ver EXCEPT ![r] = "idle"]
    /\ \E fetched \in BOOLEAN :
         /\ IF fetched = known THEN UNCHANGED faults ELSE ~fetched /\ Fault
         /\ IF Verdict(fetched) = "panic"
            THEN /\ down' = down \cup {r} /\ xts' = {x \in xts : x.from # r}
                 /\ UNCHANGED unburied
            ELSE /\ xts' = IF Vote(r, Verdict(fetched))
                           THEN xts \cup {Msg(r, "SubmitRollbackPoll", Verdict(fetched), 0)}
                           ELSE xts
                 /\ unburied' = (unburied \/ (depth = 0 /\ Verdict(fetched) = "yes"))
                 /\ UNCHANGED down
    /\ UNCHANGED <<queue, bitcoin, feeder, news, bro, failed, evicted, reorgs>>

---------------------------------------------------------------------------
(* PsbtBroadcaster.                                                        *)

get_finalized_psbts(r) ==
    /\ stage = "finalized" /\ r \notin bro /\ bro' = bro \cup {r}
    /\ UNCHANGED <<queue, bitcoin, ver, feeder, news, xts, down, history, bounds>>

\* Seeded defect: the payment is tested but not sent.
broadcast_transaction_tested(r) == UNCHANGED <<payout, failed, faults>>

\* broadcast_transaction: the node takes the payment, or an error is logged.
broadcast_transaction(r) ==
    \/ payout' = "mempool" /\ UNCHANGED <<failed, faults>>
    \/ Fault /\ failed' = failed \cup {r} /\ UNCHANGED payout

\* Seeded defect: a payment that is there already is not reported.
Broadcast_continue(r) ==
    /\ r \in bro /\ bro' = bro \ {r}
    /\ IF payout = "unsent"
       THEN /\ broadcast_transaction(r)
            /\ xts' = xts \cup {Msg(r, "SubmitExecutedRequest", "none", 0)}
       ELSE UNCHANGED <<payout, failed, faults, xts>>
    /\ UNCHANGED <<queue, known, depth, ver, feeder, news, down, unburied, evicted, reorgs>>

\* The report of its execution follows, whatever came of the broadcast.
Broadcast(r) ==
    /\ r \in bro /\ bro' = bro \ {r}
    /\ IF payout = "unsent" THEN broadcast_transaction(r) ELSE UNCHANGED <<payout, failed, faults>>
    /\ xts' = xts \cup {Msg(r, "SubmitExecutedRequest", "none", 0)}
    /\ UNCHANGED <<queue, known, depth, ver, feeder, news, down, unburied, evicted, reorgs>>

---------------------------------------------------------------------------

\* A relayer is restarted: nothing it does here is kept.
Crash(r) ==
    /\ r \notin down /\ Fault
    /\ ver' = [ver EXCEPT ![r] = "idle"] /\ feeder' = [feeder EXCEPT ![r] = "idle"]
    /\ news' = news \ {r} /\ bro' = bro \ {r}
    /\ xts' = {x \in xts : x.from # r}
    /\ UNCHANGED <<queue, bitcoin, down, history, reorgs>>

Init ==
    /\ request \in Requests
    /\ stage = IF request.rollback THEN "poll" ELSE "fee"
    /\ votes = [r \in Relayers |-> "none"] /\ rates = {} /\ executed = {}
    /\ known \in BOOLEAN /\ (known => request.rollback) /\ depth = 0 /\ payout = "unsent"
    /\ ver = [r \in Relayers |-> "idle"] /\ feeder = [r \in Relayers |-> "idle"]
    /\ news = {} /\ bro = {} /\ xts = {} /\ down = {} /\ failed = {}
    /\ unburied = FALSE /\ evicted = FALSE /\ faults = 0 /\ reorgs = 0

Verifier(r)    == ReadRequest(r) \/ Verify(r)
Feeder(r)      == is_fee_rate_submitted(r) \/ fetch_fee_rate(r) \/ submit_fee_rate(r)
Broadcaster(r) == get_finalized_psbts(r) \/ Broadcast(r)
Deliver(r)     == \E x \in xts : x.from = r /\ (Land(x) \/ Refuse(x))

LandsInTime(r) == \E x \in xts : x.from = r /\ x.call = "SubmitFeeRate" /\ Land(x)

Next ==
    \/ Mine \/ Reorganise \/ Evict
    \/ \E x \in xts : Land(x) \/ Refuse(x) \/ Fail(x)
    \/ NewBlock \/ Compose \/ Sign
    \/ \E r \in Relayers : Verifier(r) \/ Feeder(r) \/ Broadcaster(r) \/ Crash(r)

Spec == Init /\ [][Next]_vars

\* The chains go on, the workers run, every task comes to an end, and the deadline does
\* not beat a relayer's fee rate for ever.
FairSpec ==
    /\ Spec
    /\ WF_vars(Mine) /\ WF_vars(NewBlock) /\ WF_vars(Compose \/ Sign)
    /\ \A r \in Relayers :
         /\ WF_vars(Verifier(r)) /\ WF_vars(Feeder(r)) /\ WF_vars(Broadcaster(r))
         /\ WF_vars(Deliver(r)) /\ SF_vars(LandsInTime(r))

---------------------------------------------------------------------------

Calls == {"SubmitRollbackPoll", "SubmitFeeRate", "SubmitExecutedRequest"}
Polls == {"none", "yes", "no"}

\* Types.  An extrinsic under way has between one and Retries attempts left, and a
\* relayer that votes does so with a verdict, on a rollback that waits for votes.
TypeOK ==
    /\ request \in Requests /\ stage \in {"fee", "poll", "signing", "finalized", "executed"}
    /\ votes \in [Relayers -> Polls] /\ rates \subseteq Relayers /\ executed \subseteq Relayers
    /\ known \in BOOLEAN /\ depth \in 0 .. Confirmations
    /\ payout \in {"unsent", "mempool", "mined"}
    /\ ver \in [Relayers -> Polls \cup {"idle"}]
    /\ feeder \in [Relayers -> {"idle", "fetching", "fetched"}]
    /\ news \subseteq Relayers /\ bro \subseteq Relayers
    /\ xts \subseteq [from : Relayers, call : Calls, arg : Polls, life : 0 .. Lifetime,
                      left : 1 .. Retries]
    /\ down \subseteq Relayers /\ failed \subseteq Relayers
    /\ unburied \in BOOLEAN /\ evicted \in BOOLEAN
    /\ faults \in 0 .. MaxFaults /\ reorgs \in 0 .. MaxReorgs

\* "confirmations must be satisfied (we consider at least 6 blocks of confirmation)": the
\* rollback that was approved is of a deposit that no reorganisation undoes, although votes
\* change with the chain and land late; unless a verifier found the deposit in the mempool.
ApprovedIsFinal ==
    (request.rollback /\ stage # "poll" /\ ~unburied) => (known /\ depth >= Confirmations)

\* A payment that enough relayers have reported as executed has been on Bitcoin, although
\* each reports it whether its own broadcast succeeded or not: one that succeeded is
\* enough, and only a payment for which every report came from a failed broadcast is
\* removed from the queue without having been sent.
ExecutedIsBroadcast ==
    stage = "executed" => (payout # "unsent" \/ evicted \/ executed \subseteq failed)

\* While a rollback waits for votes the verifiers correct theirs: they come to agree with
\* what Bitcoin says of the deposit in the end, over reorganisations, failed queries,
\* crashes, and older votes that land after newer ones.
VotesFollow ==
    <>[](stage = "poll" => \A r \in Relayers \ down : votes[r] = Verdict(known))

Paid == stage = "executed" /\ (payout = "mined" \/ evicted \/ executed \subseteq failed)

\* A withdrawal, and a rollback that was approved, comes to be paid and leaves the queue,
\* over lost extrinsics, fee rates past their deadline and crashes; unless its broadcast
\* failed for all who reported it, or the payment dropped out of the mempool
\* (FeeRateFeeder, PsbtBroadcaster, UnsignedTransactionManager).  What has left the
\* polls never goes back to them.
Settles == []<>(stage = "poll" \/ Paid)
=============================================================================
