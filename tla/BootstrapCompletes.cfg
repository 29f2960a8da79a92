SPECIFICATION FairSpec
CONSTANTS
    Bifrost = bifrost
    External = {eth, bsc}
    Btc = btc
    QueueEnabled = TRUE
    SelectedIn <- MCSelectedIn
    FirstRound = 2
    MaxRound = 3
    MaxErrors = 1
    MaxPanics = 1
    MaxStreamEnds = 1
CHECK_DEADLOCK FALSE
INVARIANT SocketsAfterRoundUp
PROPERTIES
    MovesInPhases
    Completes
