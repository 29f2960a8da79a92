SPECIFICATION FairSpec
CONSTANTS
    External = {eth, bsc}
    SelectedIn <- MCSelectedFirst
    OthersRelay = TRUE
    MaxRound = 3
    MaxErrors = 1
    MaxLost = 1
CHECK_DEADLOCK FALSE
INVARIANTS NothingForgotten StoredForEveryChain
PROPERTY StoredRoundsArrive
