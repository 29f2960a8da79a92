SPECIFICATION FairSpec
CONSTANTS
    r1 = r1
    r2 = r2
    q1 = q1
    q2 = q2
    Relayers = {r1, r2}
    Selected = {r1, r2}
    Quorums <- Both
    Requests = {q1}
    Shapes <- EveryShape
    Sequence <- SameNumber
    MaxFaults = 1
INVARIANTS
    NeverPanics
    
PROPERTIES
    ImplementsTransfer
    Ends
CHECK_DEADLOCK FALSE
