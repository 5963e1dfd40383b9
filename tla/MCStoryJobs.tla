----------------------------- MODULE MCStoryJobs -----------------------------
(***************************************************************************)
(* Small instances of StoryJobs for TLC: a day of a few seconds in a zone  *)
(* ahead of UTC, a week of two or three, and one schedule of each kind.    *)
(***************************************************************************)
EXTENDS StoryJobs

Once(date, time) == [schedule_type |-> "once", scheduled_date |-> date, scheduled_time |-> time]

Weekly(days, time) == [schedule_type |-> "weekly", weekdays |-> days, scheduled_time |-> time]

OnceSoon    == {Once(0, 2)}
OnceOnly    == {Once(1, 1)}
WeeklyOnly  == {Weekly({0, 1}, 2)}

OnceAndWeekly == OnceOnly \cup WeeklyOnly
=============================================================================
