SPECIFICATION VaultFairSpec

CONSTANTS
    u1 = u1  System = System  None = None
    Users = {u1}
    FirstRound = 1
    MaxRound = 2
    MaxAhead = 2
    MaxCrashes = 1

INVARIANTS
    VaultTypeOK
    KeysAtHand
    

PROPERTIES
    Migrates
    KeysFollow

CHECK_DEADLOCK FALSE
