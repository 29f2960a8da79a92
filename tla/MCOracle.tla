----------------------------- MODULE MCOracle ------------------------------
EXTENDS Oracle, TLC

\* BTC on an exchange and on Chainlink, USDC on Chainlink, JPYC on ExchangeRate
\* with Chainlink to fall back on.
MCSymbols == {"BTC", "USDC", "JPYC"}
MCStable == {"USDC"}
MCMarket == {"exchangeBTC", "chainlinkBTC", "chainlinkUSDC", "chainlinkJPYC"}
MCSymbolOf ==
    "exchangeBTC" :> "BTC" @@ "chainlinkBTC" :> "BTC" @@ "chainlinkUSDC" :> "USDC"
    @@ "chainlinkJPYC" :> "JPYC" @@ "rateJPYC" :> "JPYC"
MCMode == [f \in MCMarket |-> IF f = "chainlinkJPYC" THEN "Dedicated" ELSE "Standard"]
MCVolume == [f \in MCMarket |-> IF f = "chainlinkBTC" THEN 2 ELSE 1]

\* 97 deviates from 100 by 300 bps, 99 (a mean) by 100.
MCLevels == {97, 100}

Shape(kind, amount, fee, aggregator) ==
    [kind |-> kind, amount |-> amount, max_tx_fee |-> fee, aggregator |-> aggregator]
MCShapes == {Shape("execute", 30, 29, FALSE), Shape("execute", 30, 29, TRUE),
             Shape("execute", 20, 29, FALSE), Shape("rollback", 30, 29, FALSE)}
\* Fees of 0, of 28 to 30, and a cost beyond max_hook_fee.
MCCosts == {5, 290, 400}
=============================================================================
