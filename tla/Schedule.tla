------------------------------ MODULE Schedule ------------------------------
(***************************************************************************)
(* The dates a recurring rule visits (recurrence/engine.py).  The next     *)
(* occurrence is computed from the last one alone, so an error in one step *)
(* is carried into every later one: a nudge over a weekend, a short month  *)
(* or an edit of the rule must not make the schedule drift.                *)
(*                                                                         *)
(* A date is the number of a day and day 0 is a Monday.  A month is the    *)
(* number of months since the January the calendar begins with; FirstDay   *)
(* gives the day it begins on, so its length is a difference and the       *)
(* properties do not depend on which calendar it is.                       *)
(***************************************************************************)
EXTENDS Integers, FiniteSetsExt

CONSTANTS
  LastMonth,      \* BOUND: the last month of the calendar
  FirstDay,       \* the first day of each month, and of the one after the last
  ScheduleInput,  \* rows a user submits
  MaxReschedules  \* BOUND: edits of the rule

Month == 0..LastMonth
CalendarDate == FirstDay[0]..(FirstDay[LastMonth + 1] - 1)

\* days_in_month.  In no calendar are two months in a row short.
DaysInMonth(m) == FirstDay[m + 1] - FirstDay[m]

ScheduleRule ==
  [unit : {"day", "week", "month", "year"}, count : Nat \ {0}, anchor : CalendarDate,
   skip_weekends : BOOLEAN, policy : {"snap_to_end", "skip", "carry_forward"}]

ASSUME ScheduleAssumption ==
  /\ LastMonth \in Nat /\ MaxReschedules \in Nat
  /\ FirstDay \in [0..(LastMonth + 1) -> Nat]
  /\ \A m \in Month : DaysInMonth(m) \in 28..31
  /\ \A m \in 1..LastMonth : DaysInMonth(m - 1) = 31 \/ DaysInMonth(m) = 31
  /\ ScheduleInput \subseteq ScheduleRule

VARIABLES
  rule,        \* the schedule's columns of a recurring_rules row
  next,        \* its next_occurrence
  reschedules  \* counts towards MaxReschedules

scheduleVars == <<rule, next, reschedules>>

ScheduleTypeOK == rule \in ScheduleRule /\ next \in CalendarDate /\ reschedules \in 0..MaxReschedules

-----------------------------------------------------------------------------
\* The parts of a date.
MonthOf(d) == CHOOSE m \in Month : FirstDay[m] <= d /\ d < FirstDay[m + 1]
DayOf(d) == d - FirstDay[MonthOf(d)] + 1
DateOf(m, day) == FirstDay[m] + day - 1

Weekday(d) == d % 7
Weekend(d) == Weekday(d) >= 5

Lesser(a, b) == IF a <= b THEN a ELSE b

\* _add_months: the month it reaches, and the day in it.
MonthsLater(d, months, day, policy) ==
  LET reached == MonthOf(d) + months
  IN IF policy = "skip" THEN Min({m \in reached..LastMonth : day <= DaysInMonth(m)})
     ELSE reached
AddMonths(d, months, day, policy) ==
  LET m == MonthsLater(d, months, day, policy)
  IN DateOf(m, Lesser(day, DaysInMonth(m)))

\* The day of the month a rule asks for.  Mutant: the last occurrence's.
DesiredDay_OfLast(r, d) == DayOf(d)
DesiredDay(r, d) ==
  IF r.unit = "month" /\ r.policy = "carry_forward" THEN DayOf(d) ELSE DayOf(r.anchor)

\* Months between two occurrences.  Mutant: counted from the month that follows.
MonthStep_OneTooFar(r) == IF r.unit = "year" THEN 12 * r.count ELSE r.count + 1
MonthStep(r) == IF r.unit = "year" THEN 12 * r.count ELSE r.count

\* A weekend waits for Monday.
Workday(d) == IF Weekend(d) THEN d + (7 - Weekday(d)) ELSE d

\* calculate_next_date before weekends are looked at.
PlainNext(r, d) ==
  CASE r.unit = "day" -> d + r.count
    [] r.unit = "week" -> d + 7 * r.count
    [] OTHER -> AddMonths(d, MonthStep(r), DesiredDay(r, d), r.policy)

NextDate(r, d) == IF r.skip_weekends THEN Workday(PlainNext(r, d)) ELSE PlainNext(r, d)

\* The next occurrence is within the calendar, the months it may pass over included.
InCalendar(r, d) ==
  IF r.unit \in {"month", "year"} THEN MonthOf(d) + MonthStep(r) + 2 <= LastMonth
  ELSE d + 7 * r.count + 2 \in CalendarDate

-----------------------------------------------------------------------------
\* A new rule is first due on its anchor.
ScheduleInit == rule \in ScheduleInput /\ next = rule.anchor /\ reschedules = 0

\* catch_up_rule moves on from an occurrence it posted or found.
Advance ==
  /\ InCalendar(rule, next)
  /\ next' = NextDate(rule, next)
  /\ UNCHANGED <<rule, reschedules>>

\* RecurringRuleService.update: the form sends the next occurrence back as it was, and
\* a later start moves it.
Update(row) ==
  /\ reschedules < MaxReschedules /\ reschedules' = reschedules + 1
  /\ rule' = row
  /\ next' = IF row.anchor > next THEN row.anchor ELSE next

ScheduleNext == Advance \/ \E row \in ScheduleInput : Update(row)

ScheduleSpec == ScheduleInit /\ [][ScheduleNext]_scheduleVars

-----------------------------------------------------------------------------
(* Properties, of every step from one occurrence to the next, whatever     *)
(* date an edit or a weekend left the schedule on.                         *)

\* The months from one occurrence to the next that a rule asks for.
Period(r) == IF r.unit = "year" THEN 12 * r.count ELSE r.count

\* The next occurrence is later than the last, by no more than the interval, a short
\* month passed over and a weekend: catch_up_rule's loop ends, and a rule in the past
\* is caught up.
Later(r, d, e) ==
  /\ d < e
  /\ CASE r.unit = "day" -> e <= d + r.count + 2
       [] r.unit = "week" -> e <= d + 7 * r.count + 2
       [] OTHER -> MonthOf(e) <= MonthOf(d) + Period(r)
                     + (IF r.policy = "skip" THEN 1 ELSE 0)
                     + (IF r.skip_weekends THEN 1 ELSE 0)
AlwaysLater == InCalendar(rule, next) => Later(rule, next, NextDate(rule, next))

\* Unless weekends move it, an occurrence is on the anchor's day of the month; snapped,
\* on the last day of a month too short for it, from which the schedule comes back.
\* Carried forward, a day once lost to a short month stays lost.
OnTheDay(r, d, e) ==
  ~r.skip_weekends /\ r.unit \in {"month", "year"}
  => CASE r.unit = "month" /\ r.policy = "carry_forward" ->
            DayOf(e) = Lesser(DayOf(d), DaysInMonth(MonthOf(e)))
       [] r.policy = "skip" -> DayOf(e) = DayOf(r.anchor)
       [] OTHER -> DayOf(e) = Lesser(DayOf(r.anchor), DaysInMonth(MonthOf(e)))
KeepsTheDay == [][Advance => OnTheDay(rule, next, next')]_scheduleVars

\* A rule that does not skip short months has one occurrence in each month of its
\* interval, unless a weekend at the end of a month can move it into the next.
OncePerPeriod(r, d, e) ==
  /\ r.unit \in {"month", "year"} /\ r.policy # "skip"
  /\ r.skip_weekends => r.policy = "snap_to_end" /\ DayOf(r.anchor) <= 26
  => MonthOf(e) = MonthOf(d) + Period(r)
EveryPeriodOnce == [][Advance => OncePerPeriod(rule, next, next')]_scheduleVars

\* A rule that skips weekends is due on workdays, its first occurrence excepted.
OnWorkday(r, d, e) == r.skip_weekends => ~Weekend(e)
WorkdaysOnly == [][Advance => OnWorkday(rule, next, next')]_scheduleVars
=============================================================================
