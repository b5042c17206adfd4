----------------------------- MODULE MCSchedule -----------------------------
(* The Gregorian calendar from January 2022 to December 2028, which has   *)
(* two leap years and month ends on every day of the week.                *)
EXTENDS Forecast

\* Days of the year before each month, and the leap days of 2024 and 2028.
Before == <<0, 31, 59, 90, 120, 151, 181, 212, 243, 273, 304, 334>>
Leap(year) == year % 4 = 2

\* 1 January 2022 was a Saturday.
MCFirstDay ==
  [m \in 0..(LastMonth + 1) |->
     LET year == m \div 12
     IN 5 + 365 * year + ((year + 1) \div 4) + Before[(m % 12) + 1]
          + IF Leap(year) /\ m % 12 >= 2 THEN 1 ELSE 0]

Jan(day) == 5 + day - 1
\* 31 and 26 January 2022, 29 February 2024.
MCAnchor == {Jan(31), Jan(26), MCFirstDay[25] + 28}

MCRuleInput ==
  [unit : {"month", "year"}, count : {1}, anchor : MCAnchor,
   skip_weekends : BOOLEAN, policy : {"snap_to_end", "skip", "carry_forward"}]
  \cup
  [unit : {"week", "month"}, count : {5}, anchor : {Jan(31)},
   skip_weekends : BOOLEAN, policy : {"snap_to_end"}]
  \cup
  [unit : {"day"}, count : {1}, anchor : {MCFirstDay[81]},
   skip_weekends : BOOLEAN, policy : {"snap_to_end"}]

-----------------------------------------------------------------------------
(* Forecasts in February 2024, two months ahead.                           *)

MCForecastMonth == {25}

\* Half of the usual spending in winter and three halves of it in April.
MCSeason == [m \in 0..11 |-> IF m <= 1 THEN 1 ELSE IF m = 3 THEN 3 ELSE 2]
MCRate == [d \in CalendarDate |-> 1 + (d % 2)]
\* 100 halved every six months, going back three months from the last.
MCWeight == <<79, 89, 100>>
MCSpending == <<3, 4>>

\* The rent is paid in dollars; a fortnightly income ends in April 2024.
MCRuleColumns == [id |-> 1, type |-> "expense", cents |-> 5, usd |-> TRUE, end |-> NoEnd]
MCOtherRules ==
  <<[unit |-> "week", count |-> 2, anchor |-> Jan(31), skip_weekends |-> FALSE,
     policy |-> "snap_to_end", id |-> 2, type |-> "income", cents |-> 2, usd |-> FALSE,
     next |-> MCFirstDay[22] + 9, end |-> MCFirstDay[27] + 20]>>

MCModification ==
  <<[kind |-> "remove_rule", id |-> 1],
    [kind |-> "modify_rule", id |-> 2, cents |-> 7, month |-> 27],
    [kind |-> "add_rule", type |-> "expense", cents |-> 1, unit |-> "month"],
    [kind |-> "one_time", type |-> "income", cents |-> 6, month |-> 25],
    [kind |-> "adjust_category", category |-> 1, cents |-> 6],
    [kind |-> "adjust_category", category |-> 2, cents |-> 9]>>
=============================================================================
