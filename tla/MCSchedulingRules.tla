-------------------------- MODULE MCSchedulingRules --------------------------
(***************************************************************************)
(* compute_next_run_at for TLC: one weekly schedule and one date of a last *)
(* publication, asked again at every instant of a few weeks, against a     *)
(* definition that searches for the answer.                                *)
(***************************************************************************)
EXTENDS SchedulingRules

CONSTANT MaxTime   \* bound: the last instant asked about

\* The day of a last publication is never one to come: with clocks that change at
\* midnight it could be, when they go back, and eight days might not be enough.
ASSUME ZoneAssumption == OrdinaryZone

VARIABLES now, time, weekdays, lastSent

vars == <<now, time, weekdays, lastSent>>

WeeklyJob == [schedule_type |-> "weekly", weekdays |-> weekdays, scheduled_time |-> time]

\* The last publication was before the first question, or on its day.
Init ==
    /\ now = 0
    /\ time \in 0 .. SecondsPerDay - 1
    /\ weekdays \in (SUBSET (0 .. DaysPerWeek - 1)) \ {{}}
    /\ lastSent \in {None} \cup (-1 .. local_schedule_date(0))

Next ==
    /\ now < MaxTime
    /\ now' = now + 1
    /\ UNCHANGED <<time, weekdays, lastSent>>

Spec == Init /\ [][Next]_vars

-----------------------------------------------------------------------------
\* The instants at which the wall clock shows the slot on one of its days
Slot(instant) ==
    /\ localize_utc_naive(instant) % SecondsPerDay = time
    /\ Weekday(local_schedule_date(instant)) \in weekdays
    /\ local_schedule_date(instant) # lastSent

\* As long as the clocks do not change before it, the next run of a weekly job
\* is the first slot that is not over; and there is always one: eight days are
\* enough when the only weekday is today's and today is done
\* (compute_next_run_at).
FirstSlot ==
    LET next == compute_next_run_at(WeeklyJob, now, lastSent)
    IN  /\ next \in Int
        /\ (\A instant \in Smaller(now, next) .. next : UtcOffset(instant) = UtcOffset(now))
           => /\ next >= now
              /\ Slot(next)
              /\ \A instant \in now .. next - 1 : ~Slot(instant)

\* Whatever the clocks do meanwhile, the next run is on a selected day that is
\* not the last publication's, and it lies in the past by no more than the hour
\* that is repeated (compute_next_run_at compares wall clocks).
DaylightSafe ==
    LET next == compute_next_run_at(WeeklyJob, now, lastSent)
        hour == Larger(SummerOffset - StandardOffset, StandardOffset - SummerOffset)
    IN  /\ next \in Int
        /\ next >= now - hour
        /\ Weekday(local_schedule_date(next)) \in weekdays
        /\ local_schedule_date(next) # lastSent
=============================================================================
