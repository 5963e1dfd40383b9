----------------------- MODULE MCSchedulingRulesProofs -----------------------
(***************************************************************************)
(* The properties that TLC checks of compute_next_run_at, for every length *)
(* of the day and of the week and every ordinary zone with a summer time.  *)
(***************************************************************************)
EXTENDS MCSchedulingRules, SchedulingRulesProofs

USE DEF Larger, Smaller

\* The question is one that a weekly job may ask: its last publication is not on
\* a day to come, which is so at every later instant too.
QuestionInv ==
    /\ now \in Nat
    /\ time \in 0 .. SecondsPerDay - 1
    /\ weekdays \in SUBSET (0 .. DaysPerWeek - 1) /\ weekdays # {}
    /\ lastSent \in Int \cup {None}
    /\ lastSent \in Int => lastSent <= local_schedule_date(now)

\* Every question that is asked is one that a weekly job may ask.
LEMMA QuestionCorrect == Spec => []QuestionInv
<1> USE NoneAssumption
<1>1. Init => QuestionInv
  <2>1. 0 \in Int /\ local_schedule_date(0) \in Int
    BY ClockTypes
  <2> QED BY <2>1 DEF Init, QuestionInv
<1>2. QuestionInv /\ [Next]_vars => QuestionInv'
  <2> SUFFICES ASSUME QuestionInv, [Next]_vars PROVE QuestionInv'
    OBVIOUS
  <2>1. CASE UNCHANGED vars
    BY <2>1 DEF vars, QuestionInv
  <2>2. CASE Next
    <3>1. now \in Int /\ now' \in Int /\ now <= now'
      BY <2>2 DEF QuestionInv, Next
    <3>2. local_schedule_date(now) <= local_schedule_date(now')
      BY <3>1, ZoneAssumption, DatesGrow
    <3>3. local_schedule_date(now) \in Int /\ local_schedule_date(now') \in Int
      BY <3>1, ClockTypes
    <3> QED BY <2>2, <3>2, <3>3 DEF QuestionInv, Next
  <2> QED BY <2>1, <2>2
<1> QED BY <1>1, <1>2, PTL DEF Spec

LEMMA AnswerIsWeekly == compute_next_run_at(WeeklyJob, now, lastSent) = NextWeekly(time, weekdays, now, lastSent)
BY DEF compute_next_run_at, WeeklyJob

\* As long as the clocks do not change before it, the next run of a weekly job
\* is the first slot that is not over, and there always is one
\* (compute_next_run_at).
THEOREM NextRunIsFirstSlot == Spec => []FirstSlot
<1>1. QuestionInv => FirstSlot
  <2> SUFFICES ASSUME QuestionInv PROVE FirstSlot
    OBVIOUS
  <2> DEFINE next == NextWeekly(time, weekdays, now, lastSent)
  <2>1. /\ next \in Int
        /\ (\A instant \in Smaller(now, next) .. next : UtcOffset(instant) = UtcOffset(now))
           => /\ next >= now
              /\ WeeklySlot(next, time, weekdays, lastSent)
              /\ \A instant \in now .. next - 1 : ~WeeklySlot(instant, time, weekdays, lastSent)
    <3>1. now \in Int
      BY DEF QuestionInv
    <3> QED BY <3>1, WeeklyFirstSlot DEF QuestionInv
  <2>2. \A instant : WeeklySlot(instant, time, weekdays, lastSent) <=> Slot(instant)
    BY DEF WeeklySlot, Slot
  <2> HIDE DEF next
  <2>3. FirstSlot <=> /\ next \in Int
                      /\ (\A instant \in Smaller(now, next) .. next : UtcOffset(instant) = UtcOffset(now))
                         => /\ next >= now
                            /\ Slot(next)
                            /\ \A instant \in now .. next - 1 : ~Slot(instant)
    BY AnswerIsWeekly DEF FirstSlot, next
  <2> QED BY <2>1, <2>2, <2>3
<1> QED BY <1>1, QuestionCorrect, PTL

\* Whatever the clocks do meanwhile, the next run is on a selected day that is
\* not the last publication's, and it lies in the past by no more than the hour
\* that is repeated (compute_next_run_at compares wall clocks).
THEOREM NextRunOnItsDay == Spec => []DaylightSafe
<1>1. QuestionInv => DaylightSafe
  <2> SUFFICES ASSUME QuestionInv PROVE DaylightSafe
    OBVIOUS
  <2>1. now \in Int
    BY DEF QuestionInv
  <2> DEFINE next == NextWeekly(time, weekdays, now, lastSent)
  <2>2. /\ next \in Int
        /\ next >= now - Larger(SummerOffset - StandardOffset, StandardOffset - SummerOffset)
        /\ Weekday(local_schedule_date(next)) \in weekdays
        /\ local_schedule_date(next) # lastSent
    BY <2>1, WeeklyDay, ZoneAssumption DEF QuestionInv
  <2> HIDE DEF next
  <2> QED BY <2>2, AnswerIsWeekly DEF DaylightSafe, next
<1> QED BY <1>1, QuestionCorrect, PTL
=============================================================================
