--------------------------- MODULE SchedulingRules ---------------------------
(***************************************************************************)
(* The pure scheduling functions: when a job runs next, and whether and    *)
(* when a failed attempt is retried (app/scheduler/rules.py and the        *)
(* decisions of app/scheduler/service.py that read no database).           *)
(*                                                                         *)
(* An instant is the number of seconds of naive UTC, a local date the      *)
(* number of its day, a weekday the date modulo the week.  A zone has one  *)
(* summer time, with a UTC offset of its own; equal offsets give a zone    *)
(* without it.                                                             *)
(***************************************************************************)
EXTENDS Integers

CONSTANTS
    SecondsPerDay,          \* length of a local day
    DaysPerWeek,            \* 7 in the calendar
    StandardOffset,         \* the zone's UTC offset ...
    SummerOffset,           \* ... and the one of its summer time
    SummerFrom,             \* the instants between which ...
    SummerUntil,            \* ... summer time holds
    PublishRetryBaseDelay,  \* PUBLISH_RETRY_BASE_DELAY_SECONDS
    PublishRetryMaxDelay,   \* PUBLISH_RETRY_MAX_DELAY_SECONDS
    None                    \* Python's None

ASSUME CalendarAssumption ==
    /\ SecondsPerDay \in Nat \ {0}
    /\ DaysPerWeek \in Nat \ {0}
    /\ StandardOffset \in Int
    /\ SummerOffset \in Int
    /\ SummerFrom \in Int
    /\ SummerUntil \in Int
    /\ SummerFrom <= SummerUntil

ASSUME RetryAssumption ==
    /\ PublishRetryBaseDelay \in Nat \ {0}
    /\ PublishRetryMaxDelay \in Nat \ {0}

ASSUME NoneAssumption == None \notin Int

Larger(a, b)  == IF a < b THEN b ELSE a
Smaller(a, b) == IF a < b THEN a ELSE b

-----------------------------------------------------------------------------
(* Wall clocks.  localize_utc_naive is a function of the instant;          *)
(* to_utc_naive resolves a wall clock with fold = 0: one shown twice is    *)
(* the earlier instant, one that is skipped keeps the offset of before.    *)

UtcOffset(instant) == IF instant \in SummerFrom .. SummerUntil - 1 THEN SummerOffset ELSE StandardOffset

localize_utc_naive(instant) == instant + UtcOffset(instant)

\* Mutant of to_utc_naive: the offset is looked up as if the wall clock were UTC.
to_utc_as_utc(wall) == wall - UtcOffset(wall)

to_utc_naive(wall) ==
    LET ahead == Larger(StandardOffset, SummerOffset)
    IN  wall - IF wall \in SummerFrom + ahead .. SummerUntil + ahead - 1
               THEN SummerOffset ELSE StandardOffset

local_schedule_date(instant) == localize_utc_naive(instant) \div SecondsPerDay

\* The wall clock of the change at an instant stays on one local day: the hour
\* that is skipped with the one after it, or the hour that is repeated.
KeepsDay(instant, before, after) ==
    IF before < after
    THEN (instant + before) \div SecondsPerDay = (instant + 2 * after - before - 1) \div SecondsPerDay
    ELSE (instant + after) \div SecondsPerDay = (instant + before - 1) \div SecondsPerDay

\* A zone whose clocks do not change across midnight, when they change at all
OrdinaryZone ==
    StandardOffset # SummerOffset =>
        /\ KeepsDay(SummerFrom, StandardOffset, SummerOffset)
        /\ KeepsDay(SummerUntil, SummerOffset, StandardOffset)

Weekday(date) == date % DaysPerWeek

\* datetime.combine(date, scheduled_time, tzinfo=zone), as a wall clock
Combine(date, time) == date * SecondsPerDay + time

-----------------------------------------------------------------------------
(* compute_next_run_at.  The two datetimes it compares carry the same      *)
(* tzinfo, so Python compares their wall clocks.                           *)

NextOnce(date, time, now) ==
    IF Combine(date, time) < localize_utc_naive(now)
    THEN None
    ELSE to_utc_naive(Combine(date, time))

WeeklyCandidate(date, time, weekdays, now, lastSent) ==
    /\ Weekday(date) \in weekdays
    /\ date # lastSent
    /\ Combine(date, time) >= localize_utc_naive(now)

\* Mutant of NextWeekly: the loop ends a day early.
NextWithinWeek(time, weekdays, now, lastSent) ==
    LET today  == local_schedule_date(now)
        window == {d \in today .. today + DaysPerWeek - 1 :
                     WeeklyCandidate(d, time, weekdays, now, lastSent)}
    IN  IF window = {}
        THEN None
        ELSE to_utc_naive(Combine(CHOOSE d \in window : \A e \in window : d <= e, time))

\* The loop looks at the local date of now and at DaysPerWeek days after it.
NextWeekly(time, weekdays, now, lastSent) ==
    LET today  == local_schedule_date(now)
        window == {d \in today .. today + DaysPerWeek :
                     WeeklyCandidate(d, time, weekdays, now, lastSent)}
    IN  IF window = {}
        THEN None
        ELSE to_utc_naive(Combine(CHOOSE d \in window : \A e \in window : d <= e, time))

compute_next_run_at(command, now, lastSent) ==
    IF command.schedule_type = "once"
    THEN NextOnce(command.scheduled_date, command.scheduled_time, now)
    ELSE NextWeekly(command.scheduled_time, command.weekdays, now, lastSent)

-----------------------------------------------------------------------------
(* Retries of a failed automatic attempt.                                  *)

RetryDelay(retryCount, retryAfter) ==
    LET computed == Smaller(PublishRetryBaseDelay * 2 ^ retryCount, PublishRetryMaxDelay)
    IN  IF retryAfter = None THEN computed ELSE Larger(computed, retryAfter)

\* The local date the automatic delivery belongs to, None when unknown.
automatic_delivery_local_date(row) ==
    IF row.command.schedule_type = "once" THEN row.command.scheduled_date
    ELSE IF row.next_run_at # None THEN local_schedule_date(row.next_run_at)
    ELSE IF row.retry_window_started_at # None
         THEN local_schedule_date(row.retry_window_started_at)
    ELSE None

\* Mutant of plan_transient_retry: nothing looks at the date of the next attempt.
plan_retry_past_midnight(row, failedAt, retryAfter) ==
    LET nextRun      == failedAt + RetryDelay(row.retry_count, retryAfter)
        deliveryDate == automatic_delivery_local_date(row)
        refused      == deliveryDate # None /\ local_schedule_date(failedAt) > deliveryDate
    IN  [should_retry      |-> ~refused,
         retry_count       |-> row.retry_count + 1,
         window_started_at |-> IF row.retry_window_started_at # None THEN row.retry_window_started_at
                               ELSE IF row.next_run_at # None THEN row.next_run_at
                               ELSE failedAt,
         next_run_at       |-> IF refused THEN None ELSE nextRun]

\* The retry is refused when the delivery date is over ("automatic-window-
\* closed") or would be by then ("retry-crosses-local-midnight").
plan_transient_retry(row, failedAt, retryAfter) ==
    LET nextRun      == failedAt + RetryDelay(row.retry_count, retryAfter)
        deliveryDate == automatic_delivery_local_date(row)
        refused      == /\ deliveryDate # None
                        /\ \/ local_schedule_date(failedAt) > deliveryDate
                           \/ local_schedule_date(nextRun) > deliveryDate
    IN  [should_retry      |-> ~refused,
         retry_count       |-> row.retry_count + 1,
         window_started_at |-> IF row.retry_window_started_at # None THEN row.retry_window_started_at
                               ELSE IF row.next_run_at # None THEN row.next_run_at
                               ELSE failedAt,
         next_run_at       |-> IF refused THEN None ELSE nextRun]
=============================================================================
