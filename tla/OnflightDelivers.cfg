SPECIFICATION FairSpec
CONSTANTS
    Fast = {f}
    Standard = {s}
    Conf = 1
    MaxDepth = 1
    MaxHeight = 4
    MaxReorgs = 1
    MaxQueue = 1
    MaxForks = 1
    MaxFaults = 1
CHECK_DEADLOCK FALSE
INVARIANTS HandedOverIsSettled MarkedIsTracked HandedOverOnce
PROPERTY SettledIsHandedOver
