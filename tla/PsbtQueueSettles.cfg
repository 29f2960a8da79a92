SPECIFICATION FairSpec

CONSTANTS
    r1 = r1  r2 = r2
    Relayers = {r1, r2}
    Quorum = 2
    Requests <- MCRequests
    Confirmations = 2
    Lifetime = 2
    Retries = 2
    MaxFaults = 2
    MaxReorgs = 1

INVARIANTS
    ApprovedIsFinal
    ExecutedIsBroadcast

PROPERTIES
    VotesFollow
    

CHECK_DEADLOCK FALSE
