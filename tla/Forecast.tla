------------------------------ MODULE Forecast ------------------------------
(***************************************************************************)
(* What ForecastService computes from recurring rules, whatever state the  *)
(* schedule of one of them is in: it walks every rule from its next        *)
(* occurrence, month by month with one pointer per rule, over the rest of  *)
(* the current month and the months of the horizon, adds estimates of the  *)
(* other spending and single events, and follows the balance day by day.   *)
(* A scenario repeats that on modified inputs, once for all modifications  *)
(* and once for each.                                                      *)
(*                                                                         *)
(* A rule of a forecast is its schedule with id (NoRule when the scenario  *)
(* adds it), type, cents, usd, next and end (NoEnd: none).  Cents times    *)
(* Season[month] / 2 stands for a seasonal factor, Rate[day] / 2 for an    *)
(* exchange rate.  The medians behind the factors and the random paths     *)
(* behind the percentiles are left out.                                    *)
(***************************************************************************)
EXTENDS Schedule, SequencesExt

CONSTANTS
  Horizon,      \* months after the current one
  Season,       \* month of the year -> seasonal factor, in halves
  Rate,         \* day -> dollar rate, in halves
  Weight,       \* weights of the recent months, oldest first
  StartBalance, \* balance at the end of today
  Earning,      \* estimate of the other income
  Spending,     \* category -> estimate of the other spending
  OtherRules,   \* rules next to the one of the schedule, a sequence
  RuleColumns,  \* id, type, cents, usd and end of the one of the schedule
  Modification, \* what a scenario may change, a sequence
  ForecastMonth,\* BOUND: months of next in which forecasts are made
  MaxTotal,     \* BOUND: cents of the history's amounts
  HistoryLength \* BOUND: months of history

NoRule == 0
NoEnd == FirstDay[LastMonth + 1]

ASSUME ForecastAssumption ==
  /\ Horizon \in Nat \ {0} /\ StartBalance \in Int /\ Earning \in Nat
  /\ Season \in [0..11 -> Nat] /\ Rate \in [CalendarDate -> Nat]
  /\ \A i \in DOMAIN Weight : Weight[i] \in Nat \ {0}
  /\ \A m \in ForecastMonth : m + Horizon <= LastMonth

LastDay(m) == FirstDay[m + 1] - 1
AtLeastZero(x) == IF x < 0 THEN 0 ELSE x
Sum(f) == MapThenSumSet(LAMBDA x : f[x], DOMAIN f)

\* int(round(n / d)) of amounts that are not negative: a half to the even one.
Rounded(n, d) ==
  LET q == n \div d
      r == n % d
  IN IF 2 * r > d \/ (2 * r = d /\ q % 2 = 1) THEN q + 1 ELSE q

-----------------------------------------------------------------------------
(* The occurrences of a rule.  calculate_next_date is always later         *)
(* (AlwaysLater), so the loops' check for that is left out.                *)

\* The occurrences up to a day, from the pointer on, and where the pointer is then.
Visits(r, last) ==
  LET from[d \in Nat] ==
        IF d > last \/ d > r.end THEN {} ELSE {d} \cup from[NextDate(r, d)]
  IN from[r.next]
Pointer(r, last) ==
  LET from[d \in Nat] == IF d > last \/ d > r.end THEN d ELSE from[NextDate(r, d)]
  IN from[r.next]
Walked(rules, last) ==
  [i \in DOMAIN rules |-> [rules[i] EXCEPT !.next = Pointer(rules[i], last)]]

\* The occurrences a month counts.  Mutant: those the pointer still stood on as well.
Charged_FromPointer(rules, first, last) ==
  UNION {{<<i, d>> : d \in Visits(rules[i], last)} : i \in DOMAIN rules}
Charged(rules, first, last) ==
  {c \in UNION {{<<i, d>> : d \in Visits(rules[i], last)} : i \in DOMAIN rules} :
     c[2] >= first}

\* The dates whose dollar rates are fetched before anything is added up.
FxDates(rules, today) ==
  UNION {{d \in Visits(rules[i], LastDay(MonthOf(today) + Horizon)) : d > today} :
           i \in {j \in DOMAIN rules : rules[j].usd}}

\* An occurrence's amount: a modified one from its month on, then in euros, a half cent up.
InEuros(r, d, cents) == IF r.usd THEN (cents * Rate[d] + 1) \div 2 ELSE cents
AmountOf(p, r, d) ==
  InEuros(r, d, IF r.id \in DOMAIN p.modified /\ d >= p.modified[r.id].from
                  THEN p.modified[r.id].cents ELSE r.cents)

\* Of the occurrences of one type, and of the single events of a month.
Recurring(p, rules, charged, type) ==
  MapThenSumSet(LAMBDA c : AmountOf(p, rules[c[1]], c[2]),
                {c \in charged : rules[c[1]].type = type})
OneTime(p, m, type) ==
  MapThenSumSet(LAMBDA i : p.events[i].cents,
                {i \in DOMAIN p.events : p.events[i].month = m /\ p.events[i].type = type})

-----------------------------------------------------------------------------
(* A month                                                                 *)

\* The first k days' part of an amount spread over n days, whose first days take what is
\* left over.
Part(amount, n, k) == (amount \div n) * k + Lesser(k, amount % n)

\* The balance after k of a month's n days: single events fall on the first.
Running(p, month, k) ==
  LET until == {c \in month.charged : c[2] < month.first + k}
      n == month.last - month.first + 1
  IN month.open
       + Recurring(p, month.rules, until, "income")
       - Recurring(p, month.rules, until, "expense")
       + OneTime(p, MonthOf(month.first), "income")
       - OneTime(p, MonthOf(month.first), "expense")
       + Part(month.earning, n, k) - Part(month.spending, n, k)

\* _minimum_balance: that of a month without days left is what it opens with.
MinimumBalance(p, month) ==
  Min({month.open} \cup
      {Running(p, month, k) : k \in 1..(month.last - month.first + 1)})

\* What estimates make of a whole month, category by category, and of the days left of one.
Estimated(p, m) ==
  LET Amount(c) == Rounded(p.spending[c] * Season[m % 12], 2)
  IN MapThenSumSet(Amount, DOMAIN p.spending)
EstimatedFor(total, m, days) ==
  Rounded(total * Season[m % 12] * days, 2 * DaysInMonth(m))

\* The sums of a month that opens with a balance: its rules are at their pointers.
Summed(p, rules, open, first, last, earning, spending) ==
  LET charged == Charged(rules, first, last)
      m == MonthOf(last)
      bare == [rules |-> rules, open |-> open, first |-> first, last |-> last,
               charged |-> charged, earning |-> earning, spending |-> spending]
      income == Recurring(p, rules, charged, "income") + earning + OneTime(p, m, "income")
      expenses == Recurring(p, rules, charged, "expense") + spending + OneTime(p, m, "expense")
  IN bare @@ [income |-> income, expenses |-> expenses,
              end |-> open + income - expenses]

\* The rest of the current month.  On its last day no rule is walked.
CurrentMonth(p, today) ==
  LET m == MonthOf(today)
      days == LastDay(m) - today
      full == p.mode = "full"
  IN Summed(p, p.rules, StartBalance, today + 1, LastDay(m),
            IF full THEN EstimatedFor(Earning, m, days) ELSE 0,
            IF full THEN EstimatedFor(Sum(p.spending), m, days) ELSE 0)
WalkedMonth(month) ==
  IF month.first > month.last THEN month.rules ELSE Walked(month.rules, month.last)

\* _project: the current month is month 0.
Project(p, today) ==
  LET month[i \in 0..Horizon] ==
        IF i = 0 THEN CurrentMonth(p, today)
        ELSE LET before == month[i - 1]
                 m == MonthOf(today) + i
             IN Summed(p, WalkedMonth(before), before.end, FirstDay[m], LastDay(m),
                       IF p.mode = "full" THEN Rounded(Earning * Season[m % 12], 2) ELSE 0,
                       IF p.mode = "full" THEN Estimated(p, m) ELSE 0)
  IN month

\* months_until_negative, here past the horizon when the balance stays above zero.
MonthsUntilNegative(p, month) ==
  Min({i \in DOMAIN month : MinimumBalance(p, month[i]) < 0} \cup {Horizon + 1})

-----------------------------------------------------------------------------
(* Scenarios                                                               *)

Of(mods, kind) == SelectSeq(mods, LAMBDA m : m.kind = kind)

\* An added rule starts with the first month of the horizon.
AddedRule(m, today) ==
  LET start == FirstDay[MonthOf(today) + 1]
  IN [id |-> NoRule, type |-> m.type, cents |-> m.cents, usd |-> FALSE,
      unit |-> m.unit, count |-> 1, anchor |-> start, next |-> start, end |-> NoEnd,
      skip_weekends |-> FALSE, policy |-> "snap_to_end"]

\* Which rules stay: an added one has no id.
Stays(r, removed) == r.id = NoRule \/ r.id \notin removed

\* _apply_modifications: removals last, and of two changes of one thing the later counts.
ApplyModifications(p, mods, today) ==
  LET removed == {m.id : m \in ToSet(Of(mods, "remove_rule"))}
      added == Of(mods, "add_rule")
      modify == Of(mods, "modify_rule")
      adjust == Of(mods, "adjust_category")
      Latest(seq, Same(_)) == seq[Max({i \in DOMAIN seq : Same(seq[i])})]
      all == p.rules \o [i \in DOMAIN added |-> AddedRule(added[i], today)]
      Change(id) == Latest(modify, LAMBDA m : m.id = id)
      Estimate(c) == Latest(adjust, LAMBDA m : m.category = c).cents
  IN [p EXCEPT
        !.rules = SelectSeq(all, LAMBDA r : Stays(r, removed)),
        !.modified = [id \in {m.id : m \in ToSet(modify)} |->
                        [cents |-> Change(id).cents, from |-> FirstDay[Change(id).month]]],
        !.events = Of(mods, "one_time"),
        !.spending = [c \in {m.category : m \in ToSet(adjust)} |-> Estimate(c)] @@ p.spending]

\* The caller's rules after a projection, which moves the pointers of those it is given: a
\* copy.  Mutant: the caller's own.
RulesAfter_Shared(rules, moved) == moved
RulesAfter(rules, moved) == rules

\* scenario: after the baseline, the difference a list of modifications makes to each
\* month's end.
Deltas(p, baseline, mods, today) ==
  LET rules == RulesAfter(p.rules, WalkedMonth(baseline[Horizon]))
      changed == Project(ApplyModifications([p EXCEPT !.rules = rules], mods, today), today)
  IN [i \in 1..Horizon |-> changed[i].end - baseline[i].end]

-----------------------------------------------------------------------------
(* The history behind the estimates                                        *)

\* _load_variable_history: months after the last two idle ones, from an active one on.
HistoryMonths(activity) ==
  LET gaps == {i \in 1..(HistoryLength - 1) : activity[i] = 0 /\ activity[i + 1] = 0}
      start == IF gaps = {} THEN 1 ELSE Max(gaps) + 2
  IN {i \in start..HistoryLength : \E j \in start..i : activity[j] # 0}

\* base_amount: the weighted average, the largest month counting as the next largest.
BaseAmount(values) ==
  LET largest == Min({i \in DOMAIN values : \A j \in DOMAIN values : values[j] <= values[i]})
      others == {values[i] : i \in DOMAIN values \ {largest}}
      kept == IF Len(values) >= 3 THEN [values EXCEPT ![largest] = Max(others)] ELSE values
  IN Rounded(MapThenSumSet(LAMBDA i : kept[i] * Weight[i], DOMAIN kept),
             MapThenSumSet(LAMBDA i : Weight[i], DOMAIN kept))

\* build_estimates: the total by the categories' shares, the largest takes the difference.
BuildEstimates(total, amount) ==
  LET kept == {c \in DOMAIN amount : amount[c] > 0}
      rounded == [c \in kept |-> Rounded(total * amount[c], Sum(amount))]
      largest == Min({c \in kept : \A b \in kept : rounded[b] <= rounded[c]})
  IN IF total <= 0 \/ kept = {} THEN <<>>
     ELSE [rounded EXCEPT ![largest] = @ + total - Sum(rounded)]

-----------------------------------------------------------------------------
(* Properties, of the forecasts made in a state of the schedule            *)

Base(mode) ==
  [rules |-> <<rule @@ RuleColumns @@ [next |-> next]>> \o OtherRules,
   spending |-> Spending, modified |-> <<>>, events |-> <<>>, mode |-> mode]

\* Days a forecast is made on: the next occurrence is ahead or due, or overdue on the last
\* day of its month.
Todays ==
  IF MonthOf(next) \notin ForecastMonth THEN {}
  ELSE {next - 20, next, LastDay(MonthOf(next))}

Occurrences(p, today) ==
  Charged(p.rules, today + 1, LastDay(MonthOf(today) + Horizon))

\* However the months are walked, every occurrence after today is counted in one month,
\* and has its dollar rate.
CountedOnce(p, today, month) ==
  /\ UNION {month[i].charged : i \in DOMAIN month} = {c \in Occurrences(p, today) : c[2] > today}
  /\ \A i \in DOMAIN month :
       \A c \in month[i].charged : MonthOf(c[2]) = MonthOf(today) + i
  /\ {c[2] : c \in {e \in Occurrences(p, today) : p.rules[e[1]].usd}} = FxDates(p.rules, today)

\* The last balance is today's with all that is counted, the day-by-day balance ends each
\* month where the sums do, and no month before the one warned of ends below zero.
MoneyAddsUp(p, today, month) ==
  LET all == Occurrences(p, today)
      InAll(field) == MapThenSumSet(LAMBDA i : month[i][field], DOMAIN month)
  IN /\ month[Horizon].end =
          StartBalance + Recurring(p, p.rules, all, "income")
            - Recurring(p, p.rules, all, "expense") + InAll("earning") - InAll("spending")
     /\ \A i \in DOMAIN month :
          /\ month[i].first <= month[i].last =>
               Running(p, month[i], month[i].last - month[i].first + 1) = month[i].end
          /\ i < MonthsUntilNegative(p, month) => month[i].end >= 0

\* The estimates of a list of categories add up to what was estimated in all; a month that
\* stands out, however far, does not change the estimate; and the history is the longest
\* one without a gap that begins with an active month.
Amounts == 0..MaxTotal
Suffix(i) == i..HistoryLength
EstimatesHold ==
  /\ \A total \in Amounts, amount \in [1..3 -> Amounts] :
       total > 0 /\ Sum(amount) > 0 => Sum(BuildEstimates(total, amount)) = total
  /\ \A values \in [DOMAIN Weight -> Amounts], i \in DOMAIN Weight :
       Len(Weight) >= 3 /\ (\A j \in DOMAIN values : values[j] <= values[i])
       => BaseAmount([values EXCEPT ![i] = @ + MaxTotal]) = BaseAmount(values)
  /\ \A activity \in [1..HistoryLength -> {0, 1}] :
       LET gapless == {i \in 1..HistoryLength :
             /\ activity[i] = 1
             /\ \A j \in i..(HistoryLength - 1) : activity[j] = 1 \/ activity[j + 1] = 1}
       IN HistoryMonths(activity) = UNION {Suffix(i) : i \in gapless}

\* A forecast counts what the schedule will bring, each occurrence once and in its month,
\* and its balances follow from that.
ForecastHolds ==
  /\ \A today \in Todays, mode \in {"recurring", "full"} :
       LET p == Base(mode)
           month == Project(p, today)
       IN CountedOnce(p, today, month) /\ MoneyAddsUp(p, today, month)
  /\ EstimatesHold

\* What a modification is about; two of the same are not independent.
Subject(m) ==
  CASE m.kind \in {"remove_rule", "modify_rule"} -> <<"rule", m.id>>
    [] m.kind = "adjust_category" -> <<"category", m.category>>
    [] OTHER -> <<"new", m>>

\* What is tried: each modification, those of two different things together, and for each
\* rule that is removed, that it costs nothing.
Free(m, today) == [kind |-> "modify_rule", id |-> m.id, cents |-> 0, month |-> MonthOf(today)]
Pairs ==
  LET Different(i, j) == i < j /\ Subject(Modification[i]) # Subject(Modification[j])
  IN {<<Modification[p[1]], Modification[p[2]]>> :
        p \in {q \in (DOMAIN Modification) \X (DOMAIN Modification) : Different(q[1], q[2])}}
Tried(today) ==
  Pairs \cup {<<m>> : m \in ToSet(Modification)}
        \cup {<<Free(m, today)>> : m \in ToSet(Of(Modification, "remove_rule"))}

\* What a pair of modifications does besides what each does alone.  The estimates of the
\* current month are added up before they are rounded: four roundings, half a cent each.
Besides(s) ==
  IF \A k \in 1..2 : s[k].kind = "adjust_category" THEN -2..2 ELSE {0}

\* The effects of modifications of different things add up, those of two categories but
\* for the rounding of the current month; a changed amount counts from its month on, and
\* to remove a rule is to make it cost nothing.
EffectsAddUp(effect, today) ==
  /\ \A s \in Pairs : \E besides \in Besides(s) : \A i \in 1..Horizon :
       effect[s][i] = effect[<<s[1]>>][i] + effect[<<s[2]>>][i] + besides
  /\ \A m \in ToSet(Of(Modification, "modify_rule")) : \A i \in 1..Horizon :
       MonthOf(today) + i < m.month => effect[<<m>>][i] = 0
  /\ \A m \in ToSet(Of(Modification, "remove_rule")) :
       effect[<<m>>] = effect[<<Free(m, today)>>]

\* The effects a scenario lists of its modifications add up to its effect as a whole, to
\* the cent but for two changed categories, whatever state the rule's schedule is in.
ScenarioAddsUp ==
  \A today \in Todays :
    LET p == Base("full")
        baseline == Project(p, today)
    IN EffectsAddUp([s \in Tried(today) |-> Deltas(p, baseline, s, today)], today)
=============================================================================
