CONSTANTS
    Symbols <- MCSymbols
    Stable <- MCStable
    Market <- MCMarket
    Dedicated = "rateJPYC"
    SymbolOf <- MCSymbolOf
    Mode <- MCMode
    Volume <- MCVolume
    Threshold = 200
    DncUnit = 10
    AssetUnit = 1
    Levels <- MCLevels
    Shapes <- MCShapes
    Dnc = "BTC"
    Asset = "USDC"
    AssetFeed = "chainlinkUSDC"
    Costs <- MCCosts
    MaxHookFee = 300
    MaxFeeds = 1
    MaxMoves = 2
    MaxFaults = 1
SPECIFICATION OracleFairSpec
INVARIANTS
    InBand
    
PROPERTIES
    Follows
CHECK_DEADLOCK FALSE
