SPECIFICATION FairSpec
CONSTANTS
    Events = {e1, e2}
    Immediate = {}
    ConfiguredConfirmations = 0
    BatchSize = 2
    ChannelCapacity = 1
    MAX_ABSENT_CHECKS = 2
    BootstrapEnabled = TRUE
    BootstrapOffset = 2
    MaxReorgDepth = 2
    MaxHeight = 5
    MaxReorgs = 1
    MaxErrors = 1
    MaxCrashes = 1
INVARIANTS
    ConfirmedRelaysAreFinal
    NothingMissed
    
    DroppedOnlyIfReorged
PROPERTIES
    PendingDrains
\* The bounded chain and process stop at their bounds.
CHECK_DEADLOCK FALSE
