---------------------------- MODULE MCCronManager ----------------------------
(* A small instance of CronManager, and the weekly rule on every week, every choice of
   days and intervals of up to four weeks. *)
EXTENDS CronManager, WeeklyNext

ASSUME WeeklyRuleOnFourWeeks ==
  \A current \in 0..13, days \in SUBSET DaysOfWeek \ {{}}, weeks \in 1..4 :
    LET next == calculateWeeklyNext(current, days, weeks) IN
      /\ IsNextRun(current, days, weeks, next)
      /\ next - current \in 1..(7 * weeks)
=============================================================================
