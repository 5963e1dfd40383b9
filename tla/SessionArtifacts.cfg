CONSTANTS
    Keys = {k1, k2}
    OldKey = k1
    Connectors = {publisher, media}
    None = None
    MaxInterrupts = 1
SPECIFICATION FairSpec
INVARIANTS
    TypeOK
    RefreshExclusive
    NoBackupLeft
PROPERTIES
    LastSessionKept
    FailureHarmless
    ConnectsAgain
CHECK_DEADLOCK FALSE
