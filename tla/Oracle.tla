------------------------------ MODULE Oracle -------------------------------
(***************************************************************************)
(* The oracle prices of Bifrost and what depends on them.                  *)
(*                                                                         *)
(*   OraclePriceFeeder      periodic/src/price_feeder.rs: feeds all prices *)
(*   PriceDeviationChecker  periodic/src/price_deviation_checker.rs: feeds *)
(*                          and finalizes prices that left the market      *)
(*   HookExecutor           client/src/eth/traits.rs: called by the relay  *)
(*                          handler, converts the cost of a hook into the  *)
(*                          bridged asset at the oracle's prices           *)
(*                                                                         *)
(* The oracle manager is external: it keeps what was fed last, and         *)
(* latest_oracle_data makes that the price it shows.  All relayers feed    *)
(* alike, so one stands for them.  Transactions of one relayer are mined   *)
(* in any order, as send_transaction numbers them in tasks of their own.   *)
(***************************************************************************)
EXTENDS Prices, Sequences

CONSTANTS
    Levels,             \* quotes the sources may give
    Shapes,             \* hookable requests: kind, amount, max_tx_fee, aggregator
    Dnc, Asset,         \* symbols of the native currency and of the bridged asset
    AssetFeed,          \* the aggregator of the asset (its Chainlink feed)
    Costs,              \* gas times gas price, as estimated
    MaxHookFee,         \* max_hook_fee of the destination chain
    MaxFeeds,           \* bounds of the model: unmined feeds of the feeder,
    MaxMoves, MaxFaults \* moves of quotes, faults

\* The native currency is not one of the stable symbols that the feeder puts 1 for.
ASSUME HooksAssumption ==
    /\ Levels \subseteq Nat
    /\ Dnc \in Symbols \ Stable
    /\ AssetFeed \in Feeds /\ SymbolOf[AssetFeed] = Asset
    /\ \A shape \in Shapes : shape.max_tx_fee \in Nat /\ shape.amount \in Nat

VARIABLES
    quote,      \* what each feed answers now
    quoted,     \* history: quotes each symbol has had
    feeder,     \* copies of each source in market_sources
    checker,    \* the same, whether oracle_manager is resolved, and where it is
    txs,        \* transactions that are not mined
    fed, last,  \* the oracle manager: what was fed, and last_oracle_data
    fresh,      \* whether last is younger than the staleness threshold
    hook,       \* a hookable request: where its hook is, and its shape until it is sent
    charged,    \* history: the transaction that executed the hook
    moves, faults

sources == <<quote, quoted, moves>>
workers == <<feeder, checker>>
oracle  == <<fed, last, fresh>>
hooks   == <<hook, charged>>
oracleVars == <<sources, workers, txs, oracle, hooks, faults>>

OracleFail == faults < MaxFaults /\ faults' = faults + 1

---------------------------------------------------------------------------
(* The sources and the oracle manager.                                     *)

\* A market moves; or a source fails, goes stale or is back.
Move(f, q) ==
    /\ moves < MaxMoves /\ moves' = moves + 1
    /\ quote[f] # q /\ quote' = [quote EXCEPT ![f] = q]
    /\ quoted' = [quoted EXCEPT ![SymbolOf[f]] = @ \cup ({q} \ {0})]
    /\ UNCHANGED <<workers, txs, oracle, hooks, faults>>

\* Only a part of the prices may be in a feed.
MineFeed(tx) ==
    /\ tx.call = "oracle_aggregate_feeding"
    /\ txs' = txs \ {tx}
    /\ fed' = Extend(fed, tx.prices)
    /\ UNCHANGED <<sources, workers, last, fresh, hooks, faults>>

MineFinalize(tx) ==
    /\ tx.call = "latest_oracle_data"
    /\ txs' = txs \ {tx}
    /\ last' = [last EXCEPT ![tx.symbol] = fed[tx.symbol]]
    /\ fresh' = [fresh EXCEPT ![tx.symbol] = TRUE]
    /\ UNCHANGED <<sources, workers, fed, hooks, faults>>

\* processedRequests and rolledbackRequests of the hooks contract.
MineHook(tx) ==
    /\ tx.call \in {"execute", "rollback"}
    /\ txs' = txs \ {tx}
    /\ hook' = [at |-> "processed"]
    /\ charged' = IF hook.at # "processed" /\ tx.call = "execute" THEN {tx} ELSE charged
    /\ UNCHANGED <<sources, workers, oracle, faults>>

\* CHAINLINK_STALENESS_THRESHOLD_VOLATILE passes.
Age(s) ==
    /\ fresh[s] /\ OracleFail
    /\ fresh' = [fresh EXCEPT ![s] = FALSE]
    /\ UNCHANGED <<sources, workers, txs, fed, last, hooks>>

\* send_transaction gives a transaction up.
Lose(tx) ==
    /\ OracleFail
    /\ txs' = txs \ {tx}
    /\ UNCHANGED <<sources, workers, oracle, hooks>>

---------------------------------------------------------------------------
(* OraclePriceFeeder.                                                      *)

FeedsOf(from) == {tx \in txs : tx.call = "oracle_aggregate_feeding" /\ tx.from = from}
Feed(from, prices) == [call |-> "oracle_aggregate_feeding", from |-> from, prices |-> prices]

fetch_and_feed ==
    LET prices == FedPrices(quote, feeder.copies) IN
    /\ Cardinality(FeedsOf("feeder")) < MaxFeeds
    /\ prices # NoPrices
    /\ txs' = txs \cup {Feed("feeder", prices)}
    /\ UNCHANGED <<sources, workers, oracle, hooks, faults>>

\* is_selected_relayer fails: run is called again on the same object, and
\* initialize_fetchers adds every source once more.
FeederRestarts ==
    /\ OracleFail
    /\ feeder' = [feeder EXCEPT !.copies = @ + 1]
    /\ UNCHANGED <<sources, checker, txs, oracle, hooks>>

---------------------------------------------------------------------------
(* PriceDeviationChecker.                                                  *)

Deviated(prices) == {s \in Symbols : Deviates(prices[s], last[s])}

\* check_and_feed, to the transaction it waits for.
check_and_feed ==
    /\ checker.at = "idle" /\ checker.resolved
    /\ UNCHANGED <<sources, feeder, oracle, hooks, faults>>
    /\ \E prices \in {CheckedPrices(quote, checker.copies)} \ {NoPrices} :
       \E symbols \in {Deviated(prices)} \ {{}} :
       /\ checker' = [checker EXCEPT !.at = "sending", !.symbols = symbols]
       /\ txs' = txs \cup {Feed("checker", [s \in Symbols |-> IF s \in symbols THEN prices[s] ELSE 0])}

\* sync_send_transaction has returned, with an error or without: finalize_prices.
finalize_prices ==
    /\ checker.at = "sending"
    /\ FeedsOf("checker") = {}
    /\ txs' = txs \cup [call : {"latest_oracle_data"}, symbol : checker.symbols]
    /\ checker' = [checker EXCEPT !.at = "idle", !.symbols = {}]
    /\ UNCHANGED <<sources, feeder, oracle, hooks, faults>>

\* As for the feeder; initialize may fail to resolve the oracle manager, in which
\* case the one of an earlier run stays.
CheckerRestarts ==
    /\ checker.at = "idle" /\ OracleFail
    /\ \E resolved \in {TRUE, checker.resolved} :
          checker' = [checker EXCEPT !.copies = @ + 1, !.resolved = resolved]
    /\ UNCHANGED <<sources, feeder, txs, oracle, hooks>>

---------------------------------------------------------------------------
(* HookExecutor.                                                           *)

\* should_execute_hook or should_rollback_hook: a log is confirmed, the request
\* is not processed yet.
should_process_hook(shape) ==
    /\ hook.at = "none"
    /\ hook' = [shape |-> shape, at |-> IF shape.kind = "execute" THEN "estimate" ELSE "rollback"]
    /\ UNCHANGED <<sources, workers, txs, oracle, charged, faults>>

rollback_hook ==
    /\ hook.at = "rollback"
    /\ txs' = txs \cup {[call |-> "rollback"]}
    /\ hook' = [at |-> "sent"]
    /\ UNCHANGED <<sources, workers, oracle, charged, faults>>

DncPrice == IF fresh[Dnc] THEN last[Dnc] ELSE 0
BridgedPrice ==
    IF hook.shape.aggregator THEN quote[AssetFeed] ELSE IF fresh[Asset] THEN last[Asset] ELSE 0

\* Seeded defect: the fee may exceed max_tx_fee.
estimate_hook_gas_unbounded(cost) ==
    IF DncPrice = 0 \/ BridgedPrice = 0 \/ cost > MaxHookFee THEN {}
    ELSE {FeeInBridgedAsset(cost, DncPrice, BridgedPrice)} \ {0}

\* estimate_hook_gas: the fee a hook is sent with; none if the hook is skipped.
estimate_hook_gas(cost) ==
    IF \/ hook.shape.max_tx_fee > hook.shape.amount \/ cost > MaxHookFee
       \/ DncPrice = 0 \/ BridgedPrice = 0
    THEN {}
    ELSE {FeeInBridgedAsset(cost, DncPrice, BridgedPrice)} \cap (1 .. hook.shape.max_tx_fee)

execute_hook(cost) ==
    /\ hook.at = "estimate"
    /\ \E fee \in estimate_hook_gas(cost) :
          txs' = txs \cup {[call |-> "execute", shape |-> hook.shape, fee |-> fee, cost |-> cost]}
    /\ hook' = [at |-> "sent"]
    /\ UNCHANGED <<sources, workers, oracle, charged, faults>>

\* It is skipped, and not looked at again.
SkipHook(cost) ==
    /\ hook.at = "estimate" /\ estimate_hook_gas(cost) = {}
    /\ hook' = [at |-> "skipped"]
    /\ UNCHANGED <<sources, workers, txs, oracle, charged, faults>>

\* Another relayer is faster: the check, the estimate or the transaction of this
\* one finds the request processed.
HookByOther ==
    /\ hook.at \in {"estimate", "rollback", "sent"} /\ OracleFail
    /\ hook' = [at |-> "processed"]
    /\ UNCHANGED <<sources, workers, txs, oracle, charged>>

---------------------------------------------------------------------------
OracleInit ==
    /\ quote = [f \in Feeds |-> One]
    /\ quoted = [s \in Symbols |-> {One}]
    /\ feeder = [copies |-> 1]
    /\ \E resolved \in BOOLEAN :
          checker = [copies |-> 1, resolved |-> resolved, at |-> "idle", symbols |-> {}]
    /\ txs = {}
    /\ fed = NoPrices
    \* A symbol that was listed last has no price yet.
    /\ \E price \in {0, One} :
          last = [s \in Symbols |-> IF s = SymbolOf[Dedicated] THEN price ELSE One]
    /\ fresh = [s \in Symbols |-> TRUE]
    /\ hook = [at |-> "none"]
    /\ charged = {}
    /\ moves = 0 /\ faults = 0

OracleNext ==
    \/ \E f \in Feeds, q \in Levels \cup {0} : Move(f, q)
    \/ \E tx \in txs : MineFeed(tx)
    \/ \E tx \in txs : MineFinalize(tx)
    \/ \E tx \in txs : MineHook(tx)
    \/ \E tx \in txs : Lose(tx)
    \/ \E s \in Symbols : Age(s)
    \/ fetch_and_feed
    \/ FeederRestarts
    \/ check_and_feed
    \/ finalize_prices
    \/ CheckerRestarts
    \/ \E shape \in Shapes : should_process_hook(shape)
    \/ rollback_hook
    \/ \E cost \in Costs : execute_hook(cost)
    \/ \E cost \in Costs : SkipHook(cost)
    \/ HookByOther

OracleSpec == OracleInit /\ [][OracleNext]_oracleVars

\* The checker's schedule keeps ticking, and what is sent and not lost is mined.
OracleFairness ==
    /\ WF_oracleVars(check_and_feed \/ finalize_prices)
    /\ WF_oracleVars(\E tx \in FeedsOf("checker") : MineFeed(tx))
    /\ WF_oracleVars(\E tx \in txs : MineFinalize(tx))

OracleFairSpec == OracleSpec /\ OracleFairness

---------------------------------------------------------------------------
Band(s) == Min(quoted[s]) .. Max(quoted[s])
DefaultBand(s) == Band(s) \cup (IF s \in Stable THEN {One} ELSE {})

\* Whatever sources fail, come back or are counted more than once, and in whatever
\* order the feeds of the two workers are mined, every price that is fed or shown
\* by the oracle manager lies between quotes that sources gave for that symbol, or
\* is the 1 that the feeder puts for a stable symbol (fetch_vwap_prices).
InBand ==
    \A s \in Symbols :
        /\ {fed[s], last[s]} \ {0} \subseteq DefaultBand(s)
        /\ \A tx \in txs : tx.call = "oracle_aggregate_feeding" =>
               {tx.prices[s]} \ {0} \subseteq DefaultBand(s)

\* A hook that is executed costs its sender what estimate_hook_gas promises: not
\* more than max_tx_fee, nor than the bridged amount, and the cost of the call at
\* prices that sources really gave.
FeeIsFair ==
    \A tx \in charged :
        /\ tx.fee \in 1 .. tx.shape.max_tx_fee /\ tx.fee =< tx.shape.amount
        /\ \E p \in Band(Dnc), q \in DefaultBand(Asset) : tx.fee = FeeInBridgedAsset(tx.cost, p, q)

Within(price, onChain) == Abs(price - onChain) * 10000 < (Threshold + 1) * onChain
\* The prices the checker watches are within the threshold of their markets.
Close ==
    checker.resolved =>
        \A prices \in {CheckedPrices(quote, checker.copies)}, s \in Symbols :
            prices[s] # 0 /\ last[s] # 0 => Within(prices[s], last[s])

\* Once the markets rest, the price the oracle manager shows stays within the
\* threshold of the market (check_and_feed), though older feeds may still be mined
\* between the checker's feed and its latest_oracle_data; for symbols whose market
\* the checker can see and that have a price, and if it knows the oracle manager.
Follows == <>[]Close
=============================================================================
