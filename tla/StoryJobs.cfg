CONSTANTS
    SecondsPerDay = 3
    DaysPerWeek = 3
    StandardOffset = 1
    SummerOffset = 1
    SummerFrom = 0
    SummerUntil = 0
    PublishRetryBaseDelay = 1
    PublishRetryMaxDelay = 2
    None = None
    Worker = worker
    Handlers = {h1}
    Commands <- OnceAndWeekly
    MaxJobId = 1
    MaxCreated = 1
    MaxTime = 4
    MaxInterrupts = 1
    BatchSize = 1
    JobLockTtl = 2
    MinLead = 1
    FloodWait = 2
SPECIFICATION Spec
INVARIANTS
    TypeOK
    DispatchExclusive
    ClaimStands
    EligibleUnlocked
    RetryWithinDay
    SentWasPublished
    DuplicateExplained
    WeeklyRollsForward
    WeeklyOncePerDay
    SomeoneGoesOn
PROPERTIES
    ClaimsAreMarked
CHECK_DEADLOCK FALSE
