------------------------------ MODULE Prices -------------------------------
(***************************************************************************)
(* What the relayer computes from prices: the volume-weighted averages of  *)
(* OraclePriceFeeder and PriceDeviationChecker (periodic/src), and the fee *)
(* of a hook (client/src/eth/traits.rs).                                   *)
(*                                                                         *)
(* A feed is what one source (periodic/src/price_source) says of one       *)
(* symbol; its quote is 0 when the source fails or, for Chainlink, when    *)
(* the answer is stale.  Prices are in hundredths of a dollar.             *)
(***************************************************************************)
EXTENDS Integers, FiniteSets, FiniteSetsExt

CONSTANTS
    Symbols,
    Stable,         \* USDC, USDT and DAI
    Market,         \* feeds of market_sources
    Dedicated,      \* feed of dedicated_source (ExchangeRate)
    SymbolOf,       \* the symbol of each feed
    Mode,           \* FetchMode of each feed of the market
    Volume,         \* volume in the answer; for Chainlink a fixed weight
    Threshold       \* DEFAULT_PRICE_DEVIATION_THRESHOLD_BPS

Feeds == Market \cup {Dedicated}
One == 100

ASSUME FeedsAssumption ==
    /\ IsFiniteSet(Market)
    /\ SymbolOf \in [Feeds -> Symbols]
    /\ Volume \in [Market -> Nat]

NoPrices == [s \in Symbols |-> 0]

\* get_tickers of the sources of a mode: a source leaves out the symbols it cannot
\* price, and is an error when it can price none.
get_tickers(quote, mode, s) ==
    {f \in Market : Mode[f] = mode /\ SymbolOf[f] = s /\ quote[f] # 0}

\* The tickers that count for a symbol; those without volume do not.
Answering(quote, mode, s) == {f \in get_tickers(quote, mode, s) : Volume[f] # 0}

\* market_sources holds every source `copies` times.
WeightedSum(quote, copies, fs) ==
    SumFunctionOnSet([f \in fs |-> copies * quote[f] * Volume[f]], fs)
TotalVolume(copies, fs) == SumFunctionOnSet([f \in fs |-> copies * Volume[f]], fs)

\* Seeded defect: the sum is divided by the volume of one source.
Vwap_first(quote, copies, fs) ==
    LET f == CHOOSE f \in fs : TRUE IN WeightedSum(quote, copies, fs) \div (copies * Volume[f])

Vwap(quote, copies, fs) == WeightedSum(quote, copies, fs) \div TotalVolume(copies, fs)

\* fetch_vwap_prices: the price of a symbol, 0 if there is none; and whether it is Err.
fetch_vwap_prices(quote, copies, mode, s) ==
    LET price == [fs \in SUBSET Market |-> IF fs = {} THEN 0 ELSE Vwap(quote, copies, fs)]
    IN  price[Answering(quote, mode, s)]
NoneAnswers(quote, mode) == \A s \in Symbols : Answering(quote, mode, s) = {}

\* The feeder's fetch_vwap_prices puts 1 for the stable symbols that no source answers.
StandardPrice(quote, copies, s) ==
    IF s \in Stable /\ Answering(quote, "Standard", s) = {} /\ ~NoneAnswers(quote, "Standard")
    THEN One ELSE fetch_vwap_prices(quote, copies, "Standard", s)

\* get_tickers of the dedicated source, or else the market in its mode.
DedicatedPrice(quote, copies, s) ==
    IF quote[Dedicated] = 0 THEN fetch_vwap_prices(quote, copies, "Dedicated", s)
    ELSE IF s = SymbolOf[Dedicated] THEN quote[Dedicated] ELSE 0

\* BTreeMap::extend
Extend(prices, more) == [s \in Symbols |-> IF more[s] # 0 THEN more[s] ELSE prices[s]]

\* all_prices of fetch_and_feed; zero prices are not sent.
FedPrices(quote, copies) ==
    Extend([s \in Symbols |-> StandardPrice(quote, copies, s)],
           [s \in Symbols |-> DedicatedPrice(quote, copies, s)])

\* market_prices of check_and_feed, which returns when the standard prices are Err.
CheckedPrices(quote, copies) ==
    IF NoneAnswers(quote, "Standard") THEN NoPrices
    ELSE Extend([s \in Symbols |-> fetch_vwap_prices(quote, copies, "Standard", s)],
                [s \in Symbols |-> DedicatedPrice(quote, copies, s)])

\* check_and_feed: a price or an on-chain price of zero is passed over.
Abs(n) == IF n < 0 THEN -n ELSE n
DeviationBps(price, onChain) == (Abs(price - onChain) * 10000) \div onChain

\* Seeded defect: only a rise is a deviation.
Deviates_above(price, onChain) ==
    price # 0 /\ onChain # 0 /\ price > onChain /\ DeviationBps(price, onChain) > Threshold

Deviates(price, onChain) ==
    price # 0 /\ onChain # 0 /\ DeviationBps(price, onChain) > Threshold

\* fee_in_bridged_asset: DncUnit is 10^18, AssetUnit 10^bridged_asset_decimals.
CONSTANTS DncUnit, AssetUnit
FeeInBridgedAsset(cost, dncPrice, bridgedPrice) ==
    ((cost * dncPrice * AssetUnit) \div bridgedPrice) \div DncUnit
=============================================================================
