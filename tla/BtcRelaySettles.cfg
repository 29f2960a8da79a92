SPECIFICATION FairSpec

CONSTANTS
    d1 = d1  c1 = c1  p1 = p1
    Deposits = {d1}
    Changes = {c1}
    Payouts = {p1}
    Confirmations = 2
    Offset = 1
    Genesis = 1
    ReorgDepth = 2
    MaxHeight = 6
    MaxReorgs = 1
    MaxFaults = 1

INVARIANTS
    TypeOK
    PassedIsFinal


    

CHECK_DEADLOCK FALSE
