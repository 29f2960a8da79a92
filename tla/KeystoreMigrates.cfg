SPECIFICATION Spec

CONSTANTS
    k1 = k1  k2 = k2  p = p  kms = kms
    NoCredential = NoCredential  Absent = Absent  Torn = Torn
    Keys = {k1, k2}
    Passwords = {p}
    KmsKeys = {kms}
    MaxCommands = 3
    MaxCrashes = 2

INVARIANTS
    Migrated
    Recoverable

CHECK_DEADLOCK FALSE
