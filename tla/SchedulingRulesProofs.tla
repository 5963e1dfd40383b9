------------------------ MODULE SchedulingRulesProofs ------------------------
(***************************************************************************)
(* What the scheduling functions return, for every length of the day and   *)
(* of the week, every offset and every pair of retry delays.               *)
(***************************************************************************)
EXTENDS SchedulingRules, WellFoundedInduction, TLAPS

USE DEF Larger, Smaller

-----------------------------------------------------------------------------
(* Arithmetic.                                                             *)

\* A nonempty set of integers with a lower bound has a least element.
LEMMA LeastElement ==
  ASSUME NEW low \in Int, NEW S \in SUBSET Int, S # {}, \A x \in S : low <= x
  PROVE  \E least \in S : \A x \in S : least <= x
<1> DEFINE T == {n \in Nat : low + n \in S}
<1>1. T # {}
  <2>1. PICK x \in S : TRUE
    OBVIOUS
  <2>2. x - low \in Nat /\ low + (x - low) = x
    OBVIOUS
  <2> QED BY <2>1, <2>2
<1>2. IsWellFoundedOn(OpToRel(<, Nat), Nat)
  BY NatLessThanWellFounded
<1>3. PICK n \in T : \A m \in T : ~ (<<m, n>> \in OpToRel(<, Nat))
  BY <1>1, <1>2, WFMin
<1>4. \A m \in T : n <= m
  <2>1. \A m \in T : m \in Nat /\ n \in Nat /\ ~ (m < n)
    BY <1>3 DEF OpToRel
  <2> QED BY <2>1
<1>5. \A x \in S : low + n <= x
  <2> TAKE x \in S
  <2>1. x - low \in T
    <3>1. x - low \in Nat /\ low + (x - low) = x
      OBVIOUS
    <3> QED BY <3>1
  <2>2. n <= x - low /\ n \in Nat
    BY <1>4, <2>1
  <2> QED BY <2>2
<1>6. low + n \in S
  BY <1>3
<1> QED BY <1>5, <1>6

LEMMA NoMultipleBetween ==
  ASSUME NEW n \in Nat, NEW k \in Int, n * k < n, -n < n * k
  PROVE  k = 0
<1>1. ~ (k >= 1)
  <2> SUFFICES ASSUME k >= 1 PROVE FALSE
    OBVIOUS
  <2>1. n * k >= n * 1
    OBVIOUS
  <2> QED BY <2>1
<1>2. ~ (k <= -1)
  <2> SUFFICES ASSUME k <= -1 PROVE FALSE
    OBVIOUS
  <2>1. n * k <= n * (-1)
    OBVIOUS
  <2> QED BY <2>1
<1> QED BY <1>1, <1>2

\* An instant of a day is taken apart into the day and the time in one way.
LEMMA DayAndTime ==
  ASSUME NEW date \in Int, NEW time \in 0 .. SecondsPerDay - 1
  PROVE  /\ (date * SecondsPerDay + time) \div SecondsPerDay = date
         /\ (date * SecondsPerDay + time) % SecondsPerDay = time
<1> USE CalendarAssumption
<1> DEFINE S == SecondsPerDay
           x == date * S + time
           k == (x \div S) - date
<1>1. S \in Nat /\ S > 0 /\ x \in Int
  OBVIOUS
<1>2. x \div S \in Int /\ x % S \in 0 .. S - 1 /\ x = S * (x \div S) + (x % S)
  BY <1>1
<1>3. k \in Int /\ S * k = time - (x % S)
  <2>1. S * k = S * (x \div S) - S * date
    BY <1>1, <1>2
  <2> QED BY <2>1, <1>1, <1>2
<1>4. k = 0
  <2>1. S * k < S /\ -S < S * k
    BY <1>1, <1>2, <1>3
  <2> QED BY <2>1, <1>1, <1>3, NoMultipleBetween
<1> QED BY <1>1, <1>2, <1>3, <1>4

\* The day grows with the wall clock.
LEMMA QuotientGrows ==
  ASSUME NEW x \in Int, NEW y \in Int, x <= y
  PROVE  x \div SecondsPerDay <= y \div SecondsPerDay
<1> DEFINE S == SecondsPerDay
           p == x \div S
           q == y \div S
<1>1. S \in Nat /\ S > 0
  BY CalendarAssumption
<1>2. p \in Int /\ q \in Int /\ x = S * p + (x % S) /\ y = S * q + (y % S)
      /\ x % S >= 0 /\ y % S < S /\ x % S \in Int /\ y % S \in Int
  BY <1>1
<1>3. ASSUME p > q PROVE FALSE
  <2>1. S * p >= S * (q + 1)
    BY <1>1, <1>2, <1>3
  <2>2. S * (q + 1) = S * q + S
    BY <1>1, <1>2
  <2> QED BY <1>1, <1>2, <2>1, <2>2
<1> QED BY <1>2, <1>3

\* Between two instants of one day there is no other day.
LEMMA SameDayBetween ==
  ASSUME NEW low \in Int, NEW high \in Int, low \div SecondsPerDay = high \div SecondsPerDay,
         NEW x \in low .. high, NEW y \in low .. high
  PROVE  x \div SecondsPerDay = y \div SecondsPerDay
<1>1. SecondsPerDay \in Nat /\ SecondsPerDay > 0
  BY CalendarAssumption
<1>2. \A z \in low .. high : z \div SecondsPerDay = low \div SecondsPerDay
  <2> TAKE z \in low .. high
  <2>1. low \div SecondsPerDay <= z \div SecondsPerDay /\ z \div SecondsPerDay <= high \div SecondsPerDay
    BY QuotientGrows
  <2> QED BY <1>1, <2>1
<1> QED BY <1>2

\* Every residue has a representative among any DaysPerWeek consecutive days.
LEMMA ResidueInWindow ==
  ASSUME NEW first \in Int, NEW r \in 0 .. DaysPerWeek - 1
  PROVE  \E d \in first .. first + DaysPerWeek - 1 : d % DaysPerWeek = r
<1> USE CalendarAssumption
<1> DEFINE W == DaysPerWeek
           off == (r - first) % W
           q == (r - first) \div W
           d == first + off
           k == d \div W
<1>1. W \in Nat /\ W > 0
  OBVIOUS
<1>2. off \in 0 .. W - 1 /\ q \in Int /\ r - first = W * q + off
  BY <1>1
<1>3. d \in Int /\ d \in first .. first + W - 1 /\ d = r - W * q
  BY <1>2, <1>1
<1>4. k \in Int /\ d % W \in 0 .. W - 1 /\ d = W * k + (d % W)
  BY <1>1, <1>3
<1>5. W * (k + q) = r - (d % W)
  <2>1. W * (k + q) = W * k + W * q
    BY <1>1, <1>2, <1>4
  <2> QED BY <2>1, <1>1, <1>2, <1>3, <1>4
<1>6. k + q = 0
  <2>1. k + q \in Int /\ W * (k + q) < W /\ -W < W * (k + q)
    BY <1>1, <1>2, <1>4, <1>5
  <2> QED BY <2>1, <1>1, NoMultipleBetween
<1>7. d % W = r
  <2>1. W * (k + q) = 0
    BY <1>6, <1>1
  <2> QED BY <2>1, <1>5, <1>4
<1> QED BY <1>3, <1>7

-----------------------------------------------------------------------------
(* Types.                                                                  *)

LEMMA ClockTypes ==
  ASSUME NEW t \in Int
  PROVE  /\ localize_utc_naive(t) \in Int
         /\ to_utc_naive(t) \in Int
         /\ local_schedule_date(t) \in Int
<1> USE CalendarAssumption
<1>1. localize_utc_naive(t) \in Int
  BY DEF localize_utc_naive, UtcOffset
<1>2. to_utc_naive(t) \in Int
  BY DEF to_utc_naive
<1>3. local_schedule_date(t) \in Int
  BY <1>1 DEF local_schedule_date
<1> QED BY <1>1, <1>2, <1>3

LEMMA CombineType ==
  ASSUME NEW date \in Int, NEW time \in Int
  PROVE  Combine(date, time) \in Int
BY CalendarAssumption DEF Combine

\* The answer for a nonempty window is its first date.
LEMMA NextWeeklyChoice ==
  ASSUME NEW time, NEW weekdays, NEW now \in Int, NEW lastSent,
         \E d \in local_schedule_date(now) .. local_schedule_date(now) + DaysPerWeek :
            WeeklyCandidate(d, time, weekdays, now, lastSent)
  PROVE  \E d \in local_schedule_date(now) .. local_schedule_date(now) + DaysPerWeek :
            /\ WeeklyCandidate(d, time, weekdays, now, lastSent)
            /\ NextWeekly(time, weekdays, now, lastSent) = to_utc_naive(Combine(d, time))
            /\ \A e \in local_schedule_date(now) .. local_schedule_date(now) + DaysPerWeek :
                 WeeklyCandidate(e, time, weekdays, now, lastSent) => d <= e
<1> DEFINE today  == local_schedule_date(now)
           window == {d \in today .. today + DaysPerWeek :
                        WeeklyCandidate(d, time, weekdays, now, lastSent)}
           first  == CHOOSE d \in window : \A e \in window : d <= e
<1>1. today \in Int /\ DaysPerWeek \in Int
  BY ClockTypes, CalendarAssumption
<1>2. window # {} /\ NextWeekly(time, weekdays, now, lastSent) = to_utc_naive(Combine(first, time))
  BY DEF NextWeekly
<1>3. \E d \in window : \A e \in window : d <= e
  <2>1. window \in SUBSET Int /\ \A d \in window : today <= d
    BY <1>1
  <2> HIDE DEF window
  <2> QED BY <1>1, <1>2, <2>1, LeastElement
<1>4. first \in window /\ \A e \in window : first <= e
  <2> HIDE DEF window
  <2> QED BY <1>3
<1> HIDE DEF first
<1> QED BY <1>2, <1>4

LEMMA NextRunType ==
  ASSUME NEW command, NEW now \in Int, NEW lastSent,
         \/ command.schedule_type = "once" /\ command.scheduled_date \in Int
         \/ command.schedule_type # "once",
         command.scheduled_time \in Int
  PROVE  compute_next_run_at(command, now, lastSent) \in Int \cup {None}
<1>1. CASE command.schedule_type = "once"
  BY <1>1, ClockTypes, CombineType DEF compute_next_run_at, NextOnce
<1>2. CASE command.schedule_type # "once"
  <2> DEFINE next == NextWeekly(command.scheduled_time, command.weekdays, now, lastSent)
  <2>1. next \in Int \cup {None}
    <3> SUFFICES ASSUME \E d \in local_schedule_date(now) .. local_schedule_date(now) + DaysPerWeek :
                           WeeklyCandidate(d, command.scheduled_time, command.weekdays, now, lastSent)
                 PROVE  next \in Int
      BY DEF NextWeekly
    <3>1. local_schedule_date(now) \in Int /\ DaysPerWeek \in Int
      BY ClockTypes, CalendarAssumption
    <3>2. PICK d \in local_schedule_date(now) .. local_schedule_date(now) + DaysPerWeek :
            next = to_utc_naive(Combine(d, command.scheduled_time))
      BY NextWeeklyChoice
    <3>3. Combine(d, command.scheduled_time) \in Int
      <4> DEFINE time == command.scheduled_time
      <4>1. d \in Int /\ time \in Int
        BY <3>1
      <4> HIDE DEF time
      <4>2. Combine(d, time) \in Int
        BY <4>1, CombineType
      <4> QED BY <4>2 DEF time
    <3> HIDE DEF next
    <3> QED BY <3>2, <3>3, ClockTypes
  <2> QED BY <1>2, <2>1 DEF compute_next_run_at
<1> QED BY <1>1, <1>2

-----------------------------------------------------------------------------
(* Zones with a summer time.                                               *)

\* In an ordinary zone the local date never goes back.
LEMMA DatesGrow ==
  ASSUME OrdinaryZone, NEW t \in Int, NEW u \in Int, t <= u
  PROVE  local_schedule_date(t) <= local_schedule_date(u)
<1> USE CalendarAssumption
<1>1. localize_utc_naive(t) \in Int /\ localize_utc_naive(u) \in Int
  BY ClockTypes
<1>2. CASE localize_utc_naive(t) <= localize_utc_naive(u)
  BY <1>1, <1>2, QuotientGrows DEF local_schedule_date
<1>3. CASE localize_utc_naive(t) > localize_utc_naive(u)
  <2>1. \E at, before, after \in Int :
           /\ KeepsDay(at, before, after) /\ after < before
           /\ t < at /\ at <= u
           /\ localize_utc_naive(t) = t + before /\ localize_utc_naive(u) = u + after
    BY <1>3 DEF OrdinaryZone, localize_utc_naive, UtcOffset
  <2>2. PICK at, before, after \in Int :
           /\ KeepsDay(at, before, after) /\ after < before
           /\ t < at /\ at <= u
           /\ localize_utc_naive(t) = t + before /\ localize_utc_naive(u) = u + after
    BY <2>1
  <2>3. (at + after) \div SecondsPerDay = (at + before - 1) \div SecondsPerDay
    BY <2>2 DEF KeepsDay
  <2>4. (t + before) \div SecondsPerDay <= (at + before - 1) \div SecondsPerDay
    BY <2>2, QuotientGrows
  <2>5. (at + after) \div SecondsPerDay <= (u + after) \div SecondsPerDay
    BY <2>2, QuotientGrows
  <2>6. \A x \in Int : x \div SecondsPerDay \in Int
    OBVIOUS
  <2>7. at + after \in Int /\ at + before - 1 \in Int /\ t + before \in Int /\ u + after \in Int
    OBVIOUS
  <2> QED BY <2>2, <2>3, <2>4, <2>5, <2>6, <2>7 DEF local_schedule_date
<1> QED BY <1>1, <1>2, <1>3

\* In an ordinary zone the instant that stands for a wall clock is on the day of
\* that wall clock, even when the clock never shows it.
LEMMA DayOfWall ==
  ASSUME OrdinaryZone, NEW wall \in Int
  PROVE  local_schedule_date(to_utc_naive(wall)) = wall \div SecondsPerDay
<1> USE CalendarAssumption
<1> DEFINE shown == localize_utc_naive(to_utc_naive(wall))
<1>1. shown \in Int
  BY ClockTypes
<1>2. CASE shown = wall
  BY <1>2 DEF local_schedule_date
<1>3. CASE shown # wall
  <2>1. \E at, before, after \in Int :
           /\ KeepsDay(at, before, after) /\ before < after
           /\ at + before <= wall /\ wall < at + after
           /\ shown = wall + after - before
    BY <1>3 DEF OrdinaryZone, localize_utc_naive, to_utc_naive, UtcOffset
  <2>2. PICK at, before, after \in Int :
           /\ KeepsDay(at, before, after) /\ before < after
           /\ at + before <= wall /\ wall < at + after
           /\ shown = wall + after - before
    BY <2>1
  <2> DEFINE low  == at + before
             high == at + 2 * after - before - 1
  <2>3. low \in Int /\ high \in Int /\ wall \in low .. high /\ shown \in low .. high
        /\ low \div SecondsPerDay = high \div SecondsPerDay
    BY <1>1, <2>2 DEF KeepsDay
  <2> HIDE DEF low, high, shown
  <2>4. shown \div SecondsPerDay = wall \div SecondsPerDay
    <3>1. \A x, y \in low .. high : x \div SecondsPerDay = y \div SecondsPerDay
      BY <2>3, SameDayBetween
    <3> QED BY <2>3, <3>1
  <2> QED BY <2>4 DEF local_schedule_date, shown
<1> QED BY <1>2, <1>3

-----------------------------------------------------------------------------
(* Weekly jobs.                                                            *)

\* The wall clock shows the scheduled time, on a selected weekday that is not
\* the day of the last publication.
WeeklySlot(instant, time, weekdays, lastSent) ==
    /\ localize_utc_naive(instant) % SecondsPerDay = time
    /\ Weekday(local_schedule_date(instant)) \in weekdays
    /\ local_schedule_date(instant) # lastSent

\* The wall clock is before the end of its day, and not before its start.
LEMMA WallInDay ==
  ASSUME NEW now \in Int
  PROVE  /\ local_schedule_date(now) * SecondsPerDay <= localize_utc_naive(now)
         /\ localize_utc_naive(now) < (local_schedule_date(now) + 1) * SecondsPerDay
<1> USE CalendarAssumption
<1> DEFINE today == local_schedule_date(now)
<1>1. today \in Int /\ localize_utc_naive(now) \in Int
  BY ClockTypes
<1>2. localize_utc_naive(now) = SecondsPerDay * today + (localize_utc_naive(now) % SecondsPerDay)
  BY <1>1 DEF local_schedule_date
<1>3. localize_utc_naive(now) % SecondsPerDay \in 0 .. SecondsPerDay - 1
  BY <1>1
<1>4. (today + 1) * SecondsPerDay = SecondsPerDay * today + SecondsPerDay
  BY <1>1
<1>5. today * SecondsPerDay = SecondsPerDay * today
  BY <1>1
<1> HIDE DEF today
<1> QED BY <1>1, <1>2, <1>3, <1>4, <1>5 DEF today

\* The eight days that compute_next_run_at looks at are enough, even when the
\* only weekday is today's and today is done.
LEMMA WeeklyWindow ==
  ASSUME NEW time \in 0 .. SecondsPerDay - 1,
         NEW weekdays \in SUBSET (0 .. DaysPerWeek - 1), weekdays # {},
         NEW now \in Int,
         NEW lastSent \in Int \cup {None},
         lastSent \in Int => lastSent <= local_schedule_date(now)
  PROVE  \E d \in local_schedule_date(now) .. local_schedule_date(now) + DaysPerWeek :
            WeeklyCandidate(d, time, weekdays, now, lastSent)
<1> USE CalendarAssumption, NoneAssumption
<1> DEFINE today    == local_schedule_date(now)
           tomorrow == today + 1
<1>1. today \in Int /\ localize_utc_naive(now) \in Int
  BY ClockTypes
<1>2. PICK r \in weekdays : TRUE
  OBVIOUS
<1>3. PICK d \in tomorrow .. tomorrow + DaysPerWeek - 1 : d % DaysPerWeek = r
  <2>1. tomorrow \in Int /\ r \in 0 .. DaysPerWeek - 1
    BY <1>1, <1>2
  <2> HIDE DEF tomorrow
  <2> QED BY <2>1, ResidueInWindow
<1>4. d \in Int /\ d >= today + 1 /\ d \in today .. today + DaysPerWeek
  BY <1>1, <1>3
<1>5. d # lastSent
  BY <1>1, <1>4
<1>6. Combine(d, time) >= localize_utc_naive(now)
  <2>1. d * SecondsPerDay >= (today + 1) * SecondsPerDay
    BY <1>1, <1>4
  <2> QED BY <1>1, <1>4, <2>1, WallInDay DEF Combine
<1> QED BY <1>2, <1>3, <1>4, <1>5, <1>6 DEF WeeklyCandidate, Weekday

\* As long as the clocks do not change before it, the next run of a weekly job
\* is the first slot that is not over, and there always is one: the days that
\* compute_next_run_at looks at are enough, and it skips none.
THEOREM WeeklyFirstSlot ==
  ASSUME NEW time \in 0 .. SecondsPerDay - 1,
         NEW weekdays \in SUBSET (0 .. DaysPerWeek - 1), weekdays # {},
         NEW now \in Int,
         NEW lastSent \in Int \cup {None},
         lastSent \in Int => lastSent <= local_schedule_date(now)
  PROVE  LET next == NextWeekly(time, weekdays, now, lastSent)
         IN  /\ next \in Int
             /\ (\A instant \in Smaller(now, next) .. next : UtcOffset(instant) = UtcOffset(now))
                => /\ next >= now
                   /\ WeeklySlot(next, time, weekdays, lastSent)
                   /\ \A instant \in now .. next - 1 : ~WeeklySlot(instant, time, weekdays, lastSent)
<1> USE CalendarAssumption, NoneAssumption
<1> DEFINE today == local_schedule_date(now)
           next  == NextWeekly(time, weekdays, now, lastSent)
<1>1. today \in Int /\ localize_utc_naive(now) \in Int
  BY ClockTypes
<1>2. PICK d \in today .. today + DaysPerWeek :
        /\ WeeklyCandidate(d, time, weekdays, now, lastSent)
        /\ next = to_utc_naive(Combine(d, time))
        /\ \A e \in today .. today + DaysPerWeek :
             WeeklyCandidate(e, time, weekdays, now, lastSent) => d <= e
  BY WeeklyWindow, NextWeeklyChoice
<1>3. d \in Int /\ Combine(d, time) \in Int
  BY <1>1, <1>2, CombineType
<1>4. next \in Int
  BY <1>2, <1>3, ClockTypes
<1> HIDE DEF next
<1>5. SUFFICES ASSUME \A instant \in Smaller(now, next) .. next : UtcOffset(instant) = UtcOffset(now)
               PROVE  /\ next >= now
                      /\ WeeklySlot(next, time, weekdays, lastSent)
                      /\ \A instant \in now .. next - 1 : ~WeeklySlot(instant, time, weekdays, lastSent)
  BY <1>4 DEF next
<1>6. UtcOffset(next) = UtcOffset(now) /\ UtcOffset(now) \in Int
  BY <1>4, <1>5 DEF UtcOffset
<1>7. Combine(d, time) >= localize_utc_naive(now)
  BY <1>2 DEF WeeklyCandidate
<1>8. localize_utc_naive(next) = Combine(d, time)
  \* the whole of the summer time does not lie between the two either
  <2>1. SummerFrom \in Smaller(now, next) .. next => UtcOffset(SummerFrom) = UtcOffset(now)
    BY <1>4, <1>5
  <2> QED BY <1>2, <1>3, <1>4, <1>6, <1>7, <2>1 DEF localize_utc_naive, to_utc_naive, UtcOffset
<1>9. next >= now
  BY <1>4, <1>6, <1>7, <1>8 DEF localize_utc_naive
<1>10. local_schedule_date(next) = d /\ localize_utc_naive(next) % SecondsPerDay = time
  BY <1>3, <1>8, DayAndTime DEF local_schedule_date, Combine
<1>11. Weekday(d) \in weekdays /\ d # lastSent
  BY <1>2 DEF WeeklyCandidate
<1>12. \A instant \in now .. next - 1 : ~WeeklySlot(instant, time, weekdays, lastSent)
  <2> SUFFICES ASSUME NEW instant \in Int, now <= instant, instant < next,
                      WeeklySlot(instant, time, weekdays, lastSent)
               PROVE  FALSE
    BY <1>4
  <2> DEFINE wall == localize_utc_naive(instant)
             e    == local_schedule_date(instant)
  <2>0. UtcOffset(instant) = UtcOffset(now)
    BY <1>4, <1>5
  <2>1. wall \in Int /\ e \in Int /\ localize_utc_naive(now) <= wall /\ wall < Combine(d, time)
    BY <1>4, <1>6, <1>8, <2>0, ClockTypes DEF localize_utc_naive
  <2>2. Combine(e, time) = wall
    <3>1. wall = SecondsPerDay * (wall \div SecondsPerDay) + (wall % SecondsPerDay)
      BY <2>1
    <3> QED BY <2>1, <3>1 DEF WeeklySlot, Combine, local_schedule_date
  <2>3. WeeklyCandidate(e, time, weekdays, now, lastSent)
    BY <2>1, <2>2 DEF WeeklySlot, WeeklyCandidate
  <2>4. e < d
    <3> SUFFICES ASSUME e >= d PROVE FALSE
      BY <1>3, <2>1
    <3>1. e * SecondsPerDay >= d * SecondsPerDay
      BY <1>3, <2>1
    <3> QED BY <1>3, <2>1, <2>2, <3>1 DEF Combine
  <2>5. today <= e
    BY <1>1, <2>1, QuotientGrows DEF local_schedule_date
  <2> QED BY <1>1, <1>2, <2>1, <2>3, <2>4, <2>5
<1> QED BY <1>8, <1>9, <1>10, <1>11, <1>12 DEF WeeklySlot

\* Whatever the clocks of an ordinary zone do meanwhile, the next run of a
\* weekly job is on a selected day that is not the last publication's, and lies
\* in the past by no more than the hour that is repeated.
THEOREM WeeklyDay ==
  ASSUME OrdinaryZone,
         NEW time \in 0 .. SecondsPerDay - 1,
         NEW weekdays \in SUBSET (0 .. DaysPerWeek - 1), weekdays # {},
         NEW now \in Int,
         NEW lastSent \in Int \cup {None},
         lastSent \in Int => lastSent <= local_schedule_date(now)
  PROVE  LET next == NextWeekly(time, weekdays, now, lastSent)
         IN  /\ next \in Int
             /\ next >= now - Larger(SummerOffset - StandardOffset, StandardOffset - SummerOffset)
             /\ local_schedule_date(next) >= local_schedule_date(now)
             /\ Weekday(local_schedule_date(next)) \in weekdays
             /\ local_schedule_date(next) # lastSent
<1> USE CalendarAssumption, NoneAssumption
<1> DEFINE today == local_schedule_date(now)
           next  == NextWeekly(time, weekdays, now, lastSent)
<1>1. today \in Int /\ localize_utc_naive(now) \in Int
  BY ClockTypes
<1>2. PICK d \in today .. today + DaysPerWeek :
        /\ WeeklyCandidate(d, time, weekdays, now, lastSent)
        /\ next = to_utc_naive(Combine(d, time))
  BY WeeklyWindow, NextWeeklyChoice
<1>3. d \in Int /\ Combine(d, time) \in Int
  BY <1>1, <1>2, CombineType
<1> HIDE DEF next
<1>4. Combine(d, time) \div SecondsPerDay = d
  BY <1>3, DayAndTime DEF Combine
<1>5. local_schedule_date(next) = d
  BY <1>2, <1>3, <1>4, DayOfWall
<1>6. Combine(d, time) >= localize_utc_naive(now) /\ Weekday(d) \in weekdays /\ d # lastSent
  BY <1>2 DEF WeeklyCandidate
<1>7. next \in Int /\ next >= now - Larger(SummerOffset - StandardOffset, StandardOffset - SummerOffset)
  BY <1>2, <1>3, <1>6 DEF to_utc_naive, localize_utc_naive, UtcOffset
<1> QED BY <1>1, <1>2, <1>5, <1>6, <1>7 DEF next

-----------------------------------------------------------------------------
(* Retries.                                                                *)

\* The delay of a retry is the flood wait at least, and at most the larger of
\* the cap and the flood wait.
LEMMA RetryDelayBounds ==
  ASSUME NEW retryCount \in Nat, NEW retryAfter \in Nat \cup {None}
  PROVE  /\ RetryDelay(retryCount, retryAfter) \in Int
         /\ retryAfter # None => RetryDelay(retryCount, retryAfter) >= retryAfter
         /\ RetryDelay(retryCount, retryAfter)
              <= IF retryAfter = None THEN PublishRetryMaxDelay ELSE Larger(PublishRetryMaxDelay, retryAfter)
<1> DEFINE computed == Smaller(PublishRetryBaseDelay * 2 ^ retryCount, PublishRetryMaxDelay)
<1>1. 2 ^ retryCount \in Int
  OBVIOUS
<1>2. PublishRetryBaseDelay * 2 ^ retryCount \in Int
  BY <1>1, RetryAssumption
<1>3. computed \in Int /\ computed <= PublishRetryMaxDelay
  BY <1>2, RetryAssumption
<1> HIDE DEF computed
<1> QED BY <1>3, RetryAssumption, NoneAssumption DEF RetryDelay, computed

LEMMA RetryPlanType ==
  ASSUME NEW row, NEW failedAt \in Int, NEW retryAfter \in Nat \cup {None},
         row.retry_count \in Nat,
         row.retry_window_started_at \in Int \cup {None},
         row.next_run_at \in Int \cup {None}
  PROVE  LET plan == plan_transient_retry(row, failedAt, retryAfter)
         IN  /\ plan.should_retry \in BOOLEAN
             /\ plan.retry_count \in Nat
             /\ plan.window_started_at \in Int \cup {None}
             /\ plan.next_run_at \in Int \cup {None}
<1>1. failedAt + RetryDelay(row.retry_count, retryAfter) \in Int
  <2> DEFINE count == row.retry_count
  <2>1. count \in Nat
    OBVIOUS
  <2> HIDE DEF count
  <2>2. RetryDelay(count, retryAfter) \in Int
    BY <2>1, RetryDelayBounds
  <2> QED BY <2>2 DEF count
<1> QED BY <1>1 DEF plan_transient_retry
=============================================================================
