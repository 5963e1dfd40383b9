CONSTANTS
    SecondsPerDay = 3
    DaysPerWeek = 2
    StandardOffset = 1
    SummerOffset = 1
    SummerFrom = 0
    SummerUntil = 0
    PublishRetryBaseDelay = 1
    PublishRetryMaxDelay = 2
    None = None
    Worker = worker
    Handlers = {h1}
    Commands <- OnceOnly
    MaxJobId = 1
    MaxCreated = 1
    MaxTime = 5
    MaxInterrupts = 1
    BatchSize = 1
    JobLockTtl = 2
    MinLead = 1
    FloodWait = 2
SPECIFICATION Spec
PROPERTY
    CancelledUnsent
CHECK_DEADLOCK FALSE
