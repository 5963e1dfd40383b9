CONSTANTS
    SecondsPerDay = 4
    DaysPerWeek = 2
    StandardOffset = 1
    SummerOffset = 1
    SummerFrom = 0
    SummerUntil = 0
    PublishRetryBaseDelay = 1
    PublishRetryMaxDelay = 2
    None = None
    Worker = worker
    Handlers = {}
    Commands <- OnceSoon
    MaxJobId = 3
    MaxCreated = 3
    MaxTime = 2
    MaxInterrupts = 1
    BatchSize = 2
    JobLockTtl = 2
    MinLead = 1
    FloodWait = 2
SPECIFICATION FairSpec
INVARIANTS
    CycleMarksAll
PROPERTIES
    DueIsTaken
CHECK_DEADLOCK FALSE
