CONSTANTS
    SecondsPerDay = 4
    DaysPerWeek = 3
    StandardOffset = 1
    SummerOffset = 2
    SummerFrom = 8
    SummerUntil = 25
    PublishRetryBaseDelay = 1
    PublishRetryMaxDelay = 2
    None = None
    MaxTime = 40
SPECIFICATION Spec
INVARIANTS
    FirstSlot
    DaylightSafe
CHECK_DEADLOCK FALSE
