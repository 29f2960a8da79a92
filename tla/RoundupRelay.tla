--------------------------- MODULE RoundupRelay ---------------------------
(***************************************************************************)
(* The main loop of RoundupRelayHandler                                    *)
(* (client/src/eth/handlers/roundup_relay_handler.rs): a RoundUp event on  *)
(* the Bifrost socket is broadcast to every external chain, remembered in  *)
(* pending_relays, and sent again on every tick of the retry interval      *)
(* until the chain has caught up with Bifrost.                             *)
(*                                                                         *)
(* pending_relays holds a sorted Vec without duplicates for each chain: a  *)
(* set of rounds here, as the transactions of one tick are sent by tasks   *)
(* of their own, in no order.  The loop handles one event or one tick at a *)
(* time; an error ends run, which is called again on the same handler, so  *)
(* that pending_relays survives and the event does not.                    *)
(***************************************************************************)
EXTENDS Naturals, Sequences

CONSTANTS
    External,       \* the external chains
    SelectedIn,     \* rounds whose relayer set this relayer belongs to
    OthersRelay,    \* other relayers relay rounds as well
    MaxRound, MaxErrors, MaxLost  \* bounds of the model

VARIABLES
    latest,         \* Bifrost: authority.latest_round
    committed,      \* Bifrost: last round with a NextAuthorityCommitted event
    extRound,       \* latest_round of each external chain
    stream,         \* event_stream: rounds of the events not yet received
    pending,        \* pending_relays
    task,           \* what the loop is doing: "idle", "broadcast" or "retry"
    round,          \* broadcast: roundup_submit.round
    bifrostLatest,  \* retry: bifrost_latest_round
    left,           \* chains the loop over external chains has still to visit
    inflight,       \* <<chain, round>> of the transactions on their way
    errors, lost,   \* bound the failures
    begun,          \* history: rounds broadcast_roundup was called for
    stored          \* history: <<chain, round>> put in pending_relays

chainVars == <<latest, committed, extRound>>
taskVars  == <<task, round, bifrostLatest, left>>
vars == <<chainVars, stream, pending, taskVars, inflight, errors, lost, begun, stored>>

ASSUME BoundsAssumption ==
    OthersRelay \in BOOLEAN /\ MaxRound \in Nat /\ MaxErrors \in Nat /\ MaxLost \in Nat

---------------------------------------------------------------------------
(* The chains and the transactions.                                        *)

NewRound ==
    /\ latest < MaxRound
    /\ latest' = latest + 1
    /\ UNCHANGED <<committed, extRound, stream, pending, taskVars, inflight, errors,
                   lost, begun, stored>>

\* The relayers reach quorum on the next round; the event is published.
Commit ==
    /\ committed < latest
    /\ committed' = committed + 1
    /\ stream' = Append(stream, committed + 1)
    /\ UNCHANGED <<latest, extRound, pending, taskVars, inflight, errors, lost, begun,
                   stored>>

RelayedByOthers(x) ==
    /\ OthersRelay
    /\ extRound[x] < committed
    /\ extRound' = [extRound EXCEPT ![x] = @ + 1]
    /\ UNCHANGED <<latest, committed, stream, pending, taskVars, inflight, errors,
                   lost, begun, stored>>

\* A transaction executes: the authority contract takes the next round only.
Execute(x, r) ==
    /\ <<x, r>> \in inflight
    /\ inflight' = inflight \ {<<x, r>>}
    /\ extRound' = [extRound EXCEPT ![x] = IF r = @ + 1 THEN r ELSE @]
    /\ UNCHANGED <<latest, committed, stream, pending, taskVars, errors, lost, begun,
                   stored>>

\* send_transaction gives up: the error is logged and nobody is told.
Lose(x, r) ==
    /\ <<x, r>> \in inflight /\ lost < MaxLost
    /\ inflight' = inflight \ {<<x, r>>}
    /\ lost' = lost + 1
    /\ UNCHANGED <<chainVars, stream, pending, taskVars, errors, begun, stored>>

---------------------------------------------------------------------------
(* The handler.                                                            *)

Fail == errors < MaxErrors /\ errors' = errors + 1

EndTask == task' = "idle" /\ left' = {} /\ UNCHANGED <<round, bifrostLatest>>

\* process_confirmed_log up to broadcast_roundup: an event of a round this
\* relayer was not selected for is ignored.
Receive ==
    /\ task = "idle" /\ stream # <<>>
    /\ stream' = Tail(stream)
    /\ IF Head(stream) - 1 \in SelectedIn
       THEN /\ task' = "broadcast" /\ round' = Head(stream) /\ left' = External
            /\ begun' = begun \cup {Head(stream)}
            /\ UNCHANGED bifrostLatest
       ELSE UNCHANGED <<taskVars, begun>>
    /\ UNCHANGED <<chainVars, pending, inflight, errors, lost, stored>>

\* One of its RPCs fails: the event is gone.
ReceiveError ==
    /\ task = "idle" /\ stream # <<>>
    /\ Fail
    /\ stream' = Tail(stream)
    /\ UNCHANGED <<chainVars, pending, taskVars, inflight, lost, begun, stored>>

Store(x) ==
    /\ pending' = [pending EXCEPT ![x] = @ \cup {round}]
    /\ stored' = stored \cup {<<x, round>>}

\* Seeded defect: the broadcast ends at a chain that has the round.
Broadcast_return(x) ==
    /\ task = "broadcast" /\ x \in left
    /\ Store(x)
    /\ inflight' = IF round > extRound[x] THEN inflight \cup {<<x, round>>}
                                          ELSE inflight
    /\ left' = IF round > extRound[x] THEN left \ {x} ELSE {}
    /\ UNCHANGED <<chainVars, stream, task, round, bifrostLatest, errors, lost, begun>>

\* One iteration of broadcast_roundup.
Broadcast(x) ==
    /\ task = "broadcast" /\ x \in left
    /\ Store(x)
    /\ inflight' = IF round > extRound[x] THEN inflight \cup {<<x, round>>}
                                          ELSE inflight
    /\ left' = left \ {x}
    /\ UNCHANGED <<chainVars, stream, task, round, bifrostLatest, errors, lost, begun>>

\* latest_round fails, after the round was stored for this chain: the chains
\* still left are not visited.
BroadcastError(x) ==
    /\ task = "broadcast" /\ x \in left
    /\ Fail
    /\ Store(x)
    /\ EndTask
    /\ UNCHANGED <<chainVars, stream, inflight, lost, begun>>

\* The tick of retry_interval, when pending_relays is not empty.
RetryTick ==
    /\ task = "idle" /\ \E x \in External : pending[x] # {}
    /\ task' = "retry" /\ bifrostLatest' = latest
    /\ left' = {x \in External : pending[x] # {}}
    /\ UNCHANGED <<chainVars, stream, pending, round, inflight, errors, lost, begun,
                   stored>>

\* Seeded defect: the entry is dropped when the chain has any of its rounds.
Synced_any(x) == \E r \in pending[x] : r <= extRound[x]

Synced(x) == extRound[x] = bifrostLatest

\* Seeded defect: only the last of the rounds is sent again.
RetryChain_last(x) ==
    /\ task = "retry" /\ x \in left
    /\ IF Synced(x)
       THEN pending' = [pending EXCEPT ![x] = {}] /\ UNCHANGED inflight
       ELSE /\ inflight' = inflight \cup
                 {<<x, r>> : r \in {s \in pending[x] : \A q \in pending[x] : q <= s}}
            /\ UNCHANGED pending
    /\ left' = left \ {x}
    /\ UNCHANGED <<chainVars, stream, task, round, bifrostLatest, errors, lost, begun,
                   stored>>

\* One iteration of retry_pending_relays: drop the entry of a synced chain, send
\* the rounds it does not have otherwise.
RetryChain(x) ==
    /\ task = "retry" /\ x \in left
    /\ IF Synced(x)
       THEN pending' = [pending EXCEPT ![x] = {}] /\ UNCHANGED inflight
       ELSE /\ inflight' = inflight \cup
                             {<<x, r>> : r \in {s \in pending[x] : s > extRound[x]}}
            /\ UNCHANGED pending
    /\ left' = left \ {x}
    /\ UNCHANGED <<chainVars, stream, task, round, bifrostLatest, errors, lost, begun,
                   stored>>

RetryError ==
    /\ task = "retry" /\ left # {}
    /\ Fail
    /\ EndTask
    /\ UNCHANGED <<chainVars, stream, pending, inflight, lost, begun, stored>>

Finish ==
    /\ task # "idle" /\ left = {}
    /\ EndTask
    /\ UNCHANGED <<chainVars, stream, pending, inflight, errors, lost, begun, stored>>

---------------------------------------------------------------------------
Init ==
    /\ latest = 0 /\ committed = 0 /\ extRound = [x \in External |-> 0]
    /\ stream = <<>> /\ pending = [x \in External |-> {}]
    /\ task = "idle" /\ round = 0 /\ bifrostLatest = 0 /\ left = {}
    /\ inflight = {} /\ errors = 0 /\ lost = 0
    /\ begun = {} /\ stored = {}

Loop == Receive \/ Finish \/ \E x \in External : Broadcast(x) \/ RetryChain(x)

Next ==
    \/ NewRound \/ Commit \/ \E x \in External : RelayedByOthers(x)
    \/ \E tx \in inflight : Execute(tx[1], tx[2]) \/ Lose(tx[1], tx[2])
    \/ Loop \/ RetryTick
    \/ ReceiveError \/ RetryError \/ \E x \in External : BroadcastError(x)

Spec == Init /\ [][Next]_vars

\* The loop runs, the interval ticks and select! does not starve it, and a
\* transaction that is not given up executes.
Fairness ==
    /\ WF_vars(Loop) /\ WF_vars(RetryTick)
    /\ \A x \in External, r \in 1 .. MaxRound : WF_vars(Execute(x, r))

FairSpec == Spec /\ Fairness

---------------------------------------------------------------------------
(* Properties.                                                             *)

\* Every variable keeps its type.
TypeOK ==
    /\ latest \in Nat /\ committed \in Nat /\ extRound \in [External -> Nat]
    /\ stream \in Seq(Nat) /\ pending \in [External -> SUBSET Nat]
    /\ task \in {"idle", "broadcast", "retry"} /\ round \in Nat
    /\ bifrostLatest \in Nat /\ left \subseteq External
    /\ inflight \subseteq External \X Nat
    /\ errors \in Nat /\ lost \in Nat
    /\ begun \subseteq Nat /\ stored \subseteq External \X Nat

\* A round that was stored for a chain stays in pending_relays until the chain
\* has it, although the entry is dropped by comparing two rounds that were read
\* at different times (retry_pending_relays).
NothingForgotten ==
    \A s \in stored : extRound[s[1]] >= s[2] \/ s[2] \in pending[s[1]]

\* What the doc of broadcast_roundup says: the round is always stored before
\* the send is attempted, so that once the broadcast is over every external chain
\* has the round or will get it; unless a call failed, as the `?` on latest_round
\* leaves out the chains after the one that fails.
StoredForEveryChain ==
    task = "idle" /\ errors = 0 =>
      \A r \in begun, x \in External : extRound[x] >= r \/ r \in pending[x]

\* Once a chain's rounds up to some round are stored, the retries bring them all
\* through without the help of other relayers, whatever transactions are lost
\* and in whatever order they execute (retry_pending_relays).  What is stored, and the
\* round a chain has come to, only grow: in the end no stored round is missing.
StoredRoundsArrive ==
    []<>(\A x \in External, r \in 1 .. MaxRound :
           (\A q \in 1 .. r : <<x, q>> \in stored) => extRound[x] >= r)
=============================================================================
