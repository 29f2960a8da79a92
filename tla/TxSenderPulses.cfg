SPECIFICATION TxFairSpec

CONSTANTS
    s = s  h1 = h1  h2 = h2  None = None
    Beats <- MCBeats
    Syncs = {s}
    MaxNonce = 10
    MaxFaults = 1

INVARIANTS
    TxTypeOK
    NothingLost

PROPERTIES
    Released
    

CHECK_DEADLOCK FALSE
