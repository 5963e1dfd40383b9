CONSTANTS
    SecondsPerDay = 3
    DaysPerWeek = 3
    StandardOffset = 1
    SummerOffset = 1
    SummerFrom = 0
    SummerUntil = 0
    PublishRetryBaseDelay = 1
    PublishRetryMaxDelay = 2
    None = None
    Worker = worker
    Handlers = {h1}
    Commands <- WeeklyOnly
    MaxJobId = 1
    MaxCreated = 1
    MaxTime = 6
    MaxInterrupts = 0
    BatchSize = 1
    JobLockTtl = 2
    MinLead = 1
    FloodWait = 2
SPECIFICATION Spec
INVARIANT
    WeeklyNoDuplicates
CHECK_DEADLOCK FALSE
