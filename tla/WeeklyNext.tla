----------------------------- MODULE WeeklyNext -----------------------------
(***************************************************************************)
(* When a weekly reminder runs next.  Days are counted from a Sunday, day  *)
(* 0; the time of day stays, as AddDate leaves it (the server keeps UTC).  *)
(* A reminder without days is deactivated: CronManager counts it among     *)
(* those that run once.                                                    *)
(***************************************************************************)
EXTENDS Integers, FiniteSetsExt

Weekday(day) == day % 7
Week(day) == day \div 7

\* The form's DAYS_OF_WEEK: it lists Sunday last, but its id is 0.
DaysOfWeek == 0..6

\* The first chosen weekday that this week still has, or else the first of the week
\* intervalWeeks on.
calculateWeeklyNext(current, days, intervalWeeks) ==
  LET currentDay == Weekday(current)
      later == {d \in days : d > currentDay}
  IN  IF later # {}
      THEN current + (Min(later) - currentDay)
      ELSE current + (7 - currentDay) + (intervalWeeks - 1) * 7 + Min(days)

-----------------------------------------------------------------------------
\* What is meant by "every n weeks on these days": the days after the current run, in its
\* own week or the one n weeks on.
RunsOn(current, days, weeks, day) ==
  /\ day > current
  /\ Weekday(day) \in days
  /\ Week(day) - Week(current) \in {0, weeks}

\* The first of them.
IsNextRun(current, days, weeks, day) ==
  /\ RunsOn(current, days, weeks, day)
  /\ \A other \in (current + 1)..(day - 1) : ~RunsOn(current, days, weeks, other)
=============================================================================
