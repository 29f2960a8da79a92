SPECIFICATION FairSpec
CONSTANTS
    r1 = r1
    r2 = r2
    q1 = q1
    q2 = q2
    Relayers = {r1, r2}
    Selected = {r1}
    Quorums <- Both
    Requests = {q1, q2}
    Shapes <- Inbound
    Sequence <- SameNumber
    MaxFaults = 0
PROPERTIES
    RollbackHandled
CHECK_DEADLOCK FALSE
