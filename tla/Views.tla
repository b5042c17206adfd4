------------------------------- MODULE Views -------------------------------
(***************************************************************************)
(* What the screens compute from the book: the KPIs and their sparklines,  *)
(* the insight charts, the budgets' spending, the weekly digest, reports   *)
(* and balances.  Each figure is one or two queries of its own, written    *)
(* out for that screen, and the dashboard shows several of them side by    *)
(* side; nothing in the code says that they agree.                         *)
(*                                                                         *)
(* A query that sums expenses takes the gross amounts of some rows and     *)
(* subtracts the active allocations into the same rows, and floors the     *)
(* difference for each group it is grouped by.  A screen is modelled by    *)
(* the rows it selects and the groups it makes.                            *)
(*                                                                         *)
(* The book is Ledger's.  What Ledger leaves out of a row, its day within  *)
(* the month, category, tags and origin, is given per transaction here.    *)
(* A date is a number, a month has MonthLength of them, and an instant is  *)
(* a noon, when transactions happen, or the end of a day.                  *)
(***************************************************************************)
EXTENDS Ledger, FiniteSetsExt, SequencesExt

CONSTANTS
  MonthLength,  \* BOUND: the days of every month
  DayIn,        \* the day of the month of each transaction
  CategoryOf,   \* its category, given its type
  TagsOf,       \* the tags it has
  FromRule,     \* the transactions a recurring rule posted
  HiddenTag,    \* tags hidden from budgets
  Life,         \* of each durable purchase: acquired, lifespan, ended (0: not ended)
  AnchorId,     \* primary keys of balance anchors
  AnchorCents,  \* balances a user enters
  Place,        \* the order in which a query returns the categories and the tags
  BreakdownLimit, TagLimit, DeltaLimit, DigestLimit  \* the entries of a list that is cut

VARIABLE anchors  \* balance_anchors: id -> the instant and the balance

viewVars == <<txn, alloc, durable, rollup, anchors>>

LastMonthOf == Max(Month)
Category == UNION {{CategoryOf[t][ty] : ty \in TransactionType} : t \in TxnId}
Tag == UNION {TagsOf[t] : t \in TxnId}

ASSUME ViewsAssumption ==
  /\ MonthLength \in Nat \ {0} /\ LastMonthOf \in Nat \ {0} /\ Month = 1..LastMonthOf
  /\ DayIn \in [TxnId -> 1..MonthLength] /\ \A t \in TxnId : IsFiniteSet(TagsOf[t])
  /\ AnchorId \subseteq Nat /\ AnchorCents \subseteq Int
  /\ Place \in [Category \cup Tag -> Nat]
  /\ \A j, k \in Category \cup Tag : Place[j] = Place[k] => j = k
  /\ {BreakdownLimit, TagLimit, DeltaLimit, DigestLimit} \subseteq Nat \ {0}

Greater(a, b) == IF a >= b THEN a ELSE b
Lesser(a, b) == IF a <= b THEN a ELSE b

\* int(round(n / d)): to the nearest integer, a half to the even one.
Rounded(n, d) ==
  LET q == n \div d
      r == n % d
  IN IF 2 * r > d \/ (2 * r = d /\ q % 2 = 1) THEN q + 1 ELSE q

FirstDay(m) == (m - 1) * MonthLength + 1
LastDay(m) == m * MonthLength
MonthOf(d) == (d - 1) \div MonthLength + 1
Day == 1..LastDay(LastMonthOf)
Noon(d) == 2 * d
EndOfDay(d) == 2 * d + 1
Instant == Noon(1)..EndOfDay(LastDay(LastMonthOf))

ViewsTypeOK ==
  /\ DOMAIN anchors \subseteq AnchorId
  /\ anchors \in [DOMAIN anchors -> [at : Instant, balance : AnchorCents]]

-----------------------------------------------------------------------------
(* The rows of a query, and its sums                                       *)

Date(t) == FirstDay(txn[t].month) + DayIn[t] - 1
OccurredAt(t) == Noon(Date(t))
CategoryOfRow(t) == CategoryOf[t][txn[t].type]

\* _apply_transaction_tag_scope: any of the included tags, none of the excluded.
Whole == [included |-> {}, excluded |-> {}]
InScope(t, scope) ==
  /\ scope.included = {} \/ TagsOf[t] \cap scope.included # {}
  /\ TagsOf[t] \cap scope.excluded = {}

RowsBetween(s, e) == {t \in DOMAIN txn : ~txn[t].deleted /\ Date(t) \in s..e}
Rows(s, e, scope) == {t \in RowsBetween(s, e) : InScope(t, scope)}

Incomes(S) == {t \in S : txn[t].type = "income" /\ ~txn[t].is_reimbursement}
Expenses(S) == {t \in S : IsExpense(txn, t)}

ReimbursedOf(S) ==
  TotalAllocated(alloc, {p \in ActiveAllocations(txn, alloc) : p[2] \in S})

Income(S) == TotalAmount(txn, Incomes(S))
Net(S) == AtLeastZero(TotalAmount(txn, Expenses(S)) - ReimbursedOf(Expenses(S)))
Figures(S) == [income |-> Income(S), expenses |-> Net(S)]

\* The net amounts of expenses, added up row by row.
Shown(S) == SumFunction([t \in S |-> NetAmount(t)])

Plus(f, g) == [income |-> f.income + g.income, expenses |-> f.expenses + g.expenses]
Total(f) == SumFunction(f)

\* GROUP BY: the keys of the rows in S, each with its rows' net expenses or income.
Grouped(S, Key(_), Sum(_)) ==
  [k \in {Key(t) : t \in S} |-> Sum({t \in S : Key(t) = k})]
ByCategory(S, Sum(_)) == Grouped(S, CategoryOfRow, Sum)
Positive(f) == Restrict(f, {k \in DOMAIN f : f[k] > 0})

\* sorted(..., reverse=True)[:limit]: a list from the largest entry down, cut; of equal
\* entries the one the query returns first stays first.
\* Mutant: the list is cut as the query returns it.
Largest_Unsorted(f, limit) ==
  Restrict(f, {k \in DOMAIN f : Cardinality({j \in DOMAIN f : Place[j] < Place[k]}) < limit})
Ahead(f, k) == {j \in DOMAIN f : f[j] > f[k] \/ (f[j] = f[k] /\ Place[j] < Place[k])}
Largest(f, limit) == Restrict(f, {k \in DOMAIN f : Cardinality(Ahead(f, k)) < limit})
Negated(f) == [k \in DOMAIN f |-> -f[k]]
Smallest(f, limit) == Negated(Largest(Negated(f), limit))
NoLimit == 0

\* TransactionService.summary_for_period; the period "all" has no end.
SummaryForPeriod(s, e, scope) == Figures(Rows(s, e, scope))

-----------------------------------------------------------------------------
(* BalanceAnchorService.  An anchor states the balance at its instant; what *)
(* happens later is added to it, reimbursements and gross expenses.         *)

CreateAnchor(a, i, cents) ==
  /\ a \notin DOMAIN anchors
  /\ anchors' = [x \in DOMAIN anchors \cup {a} |->
                   IF x = a THEN [at |-> i, balance |-> cents] ELSE anchors[x]]
  /\ UNCHANGED ledgerVars

UpdateAnchor(a, i, cents) ==
  /\ a \in DOMAIN anchors
  /\ anchors' = [anchors EXCEPT ![a] = [at |-> i, balance |-> cents]]
  /\ UNCHANGED ledgerVars

DeleteAnchor(a) ==
  /\ a \in DOMAIN anchors
  /\ anchors' = Restrict(anchors, DOMAIN anchors \ {a})
  /\ UNCHANGED ledgerVars

\* ORDER BY, for an order without ties.
Sorted(S, Before(_, _)) ==
  [k \in 1..Cardinality(S) |->
     CHOOSE x \in S : Cardinality({y \in S : Before(y, x)}) = k - 1]

\* by as_of_at, id
AnchorBefore(a, b) ==
  anchors[a].at < anchors[b].at \/ (anchors[a].at = anchors[b].at /\ a < b)
AnchorsIn(i, j) == {a \in DOMAIN anchors : anchors[a].at \in i..j}

Flow(S) ==
  TotalAmount(txn, {t \in S : txn[t].type = "income"}) - TotalAmount(txn, Expenses(S))

\* Mutant: what happens at the anchor's own instant is added again.
FlowAfter_AtToo(i, j) ==
  Flow({t \in DOMAIN txn : ~txn[t].deleted /\ OccurredAt(t) \in i..j})
FlowAfter(i, j) ==
  Flow({t \in DOMAIN txn : ~txn[t].deleted /\ OccurredAt(t) \in (i + 1)..j})

\* The anchor that is active at an instant: balances_as_of moves one pointer over the
\* sorted anchors while it visits the sorted targets.
Checkpoints(targets) ==
  LET order == Sorted({a \in DOMAIN anchors : anchors[a].at <= Max(targets)}, AnchorBefore)
      sorted == Sorted(targets, <)
      Visit(seen, i) ==
        LET from == IF seen = <<>> THEN 0 ELSE seen[Len(seen)]
            due  == {k \in (from + 1)..Len(order) : anchors[order[k]].at <= i}
        IN Append(seen, IF due = {} THEN from ELSE Max(due))
      index == FoldLeft(Visit, <<>>, sorted)
  IN [i \in targets |->
        LET k == CHOOSE n \in 1..Len(sorted) : sorted[n] = i
        IN IF index[k] = 0 THEN [at |-> 0, balance |-> 0] ELSE anchors[order[index[k]]]]

\* balances_as_of
BalancesAsOf(targets) ==
  IF targets = {} THEN <<>>
  ELSE LET active == Checkpoints(targets)
       IN [i \in targets |-> active[i].balance + FlowAfter(active[i].at, i)]
BalanceAsOf(i) == BalancesAsOf({i})[i]

\* month_end_history: the last months, up to now, without those that end before the
\* first anchor, or before the first transaction when there is no anchor.
MonthEndHistory(months, now) ==
  LET current == MonthOf(now \div 2)
      Target(m) == IF m = current THEN now ELSE EndOfDay(LastDay(m))
      firsts == IF DOMAIN anchors # {} THEN {anchors[a].at : a \in DOMAIN anchors}
                ELSE {OccurredAt(t) : t \in {u \in DOMAIN txn : ~txn[u].deleted}}
      shown == {m \in (current - months + 1)..current :
                  m >= 1 /\ firsts # {} /\ Target(m) >= Min(firsts)}
      balances == BalancesAsOf({Target(m) : m \in shown})
  IN [m \in shown |-> balances[Target(m)]]

-----------------------------------------------------------------------------
(* MetricsService                                                          *)

\* The full months between the first and the last month of a period.
\* Mutant: the first month is taken from the rollups as well.
FullMonths_WithFirst(s, e) == MonthOf(s)..(MonthOf(e) - 1)
FullMonths(s, e) == (MonthOf(s) + 1)..(MonthOf(e) - 1)

FromRollups(M) ==
  [income |-> SumFunction([m \in M |-> rollup[m].income]),
   expenses |-> SumFunction([m \in M |-> rollup[m].expense])]

\* kpis: with tags from the rows; a full month from its rollup; otherwise the ends of
\* the period from the rows and the months between from their rollups.
KpiFigures(s, e, scope) ==
  IF scope # Whole THEN Figures(Rows(s, e, scope))
  ELSE IF s = FirstDay(MonthOf(s)) /\ e = LastDay(MonthOf(s)) THEN FromRollups({MonthOf(s)})
  ELSE IF MonthOf(s) = MonthOf(e) THEN Figures(Rows(s, e, Whole))
  ELSE Plus(Plus(Figures(Rows(s, LastDay(MonthOf(s)), Whole)),
                 Figures(Rows(FirstDay(MonthOf(e)), e, Whole))),
            FromRollups(FullMonths(s, e)))

\* With tags the balance is the net flow of the rows.
KpiBalance(s, e, scope) ==
  IF scope.included # {} THEN LET f == KpiFigures(s, e, scope) IN f.income - f.expenses
  ELSE BalanceAsOf(EndOfDay(e))

\* income_expense_between: the rows of a part of a month.
IncomeExpenseBetween(s, e, scope) == Figures(Rows(s, e, scope))

\* The last months of a period.
MonthsOf(s, e, most) == {m \in MonthOf(s)..MonthOf(e) : m > MonthOf(e) - most}

\* kpi_sparklines: a point per month, cut to the period; a full month comes from its
\* rollup where there is one, the others from the rows.
SparkFigures(s, e, scope, most) ==
  [m \in MonthsOf(s, e, most) |->
     LET from == Greater(s, FirstDay(m))
         to   == Lesser(e, LastDay(m))
         full == from = FirstDay(m) /\ to = LastDay(m)
         stored == rollup[m].income # 0 \/ rollup[m].expense # 0
     IN IF scope = Whole /\ full /\ stored THEN FromRollups({m})
        ELSE IncomeExpenseBetween(from, to, scope)]

\* With tags the balance is what has come in so far, from the first point on.
SparkBalances(s, e, scope, most) ==
  LET figures == SparkFigures(s, e, scope, most)
      ends == [m \in DOMAIN figures |-> EndOfDay(Lesser(e, LastDay(m)))]
      balances == BalancesAsOf(Range(ends))
  IN [m \in DOMAIN figures |->
        IF scope.included = {} THEN balances[ends[m]]
        ELSE SumFunction([n \in {k \in DOMAIN figures : k <= m} |->
                            figures[n].income - figures[n].expenses])]

\* category_breakdown: expenses net per category, those that are zero left out and the
\* list cut, unless there is no limit; incomes are never cut.  The percentages are of the
\* total before the cut.
CategoryBreakdown(s, e, kind, cats, scope, limit) ==
  LET rows == {t \in Rows(s, e, scope) : cats = {} \/ CategoryOfRow(t) \in cats}
      all  == IF kind = "income" THEN ByCategory(Incomes(rows), Income)
              ELSE Positive(ByCategory(Expenses(rows), Net))
  IN [shown |-> IF kind = "income" \/ limit = NoLimit THEN all ELSE Largest(all, limit),
      of    |-> Total(all)]

-----------------------------------------------------------------------------
(* ReimbursementService: what the two dialogs propose to allocate          *)

\* Mutant: what a trashed expense was given is still taken.
LeftToAllocate_TrashCounts(r) ==
  AtLeastZero(txn[r].amount - TotalAllocated(alloc, AllocationsFrom(alloc, r)))
LeftToAllocate(r) ==
  AtLeastZero(txn[r].amount - TotalAllocated(alloc,
    {p \in AllocationsFrom(alloc, r) : IsLive(txn, p[2]) /\ IsExpense(txn, p[2])}))
\* Only reimbursements that are not in the trash count here.
Unreimbursed(e) ==
  AtLeastZero(txn[e].amount - TotalAllocated(alloc,
    {p \in AllocationsInto(alloc, e) : IsLive(txn, p[1]) /\ IsReimbursement(txn, p[1])}))
AllocatedTo(r, e) == IF <<r, e>> \in DOMAIN alloc THEN alloc[<<r, e>>] ELSE 0

\* search_expenses_for_reimbursement
ExpensesForReimbursement(r) ==
  IF ~(IsLive(txn, r) /\ IsReimbursement(txn, r)) THEN <<>>
  ELSE [e \in {t \in DOMAIN txn : IsLive(txn, t) /\ IsExpense(txn, t)} |->
          [already |-> AllocatedTo(r, e), suggested |-> Lesser(LeftToAllocate(r), Unreimbursed(e))]]

\* open_reimbursements_for_expense: those with something left.
ReimbursementsForExpense(e) ==
  IF ~(IsLive(txn, e) /\ IsExpense(txn, e)) THEN <<>>
  ELSE [r \in {t \in DOMAIN txn : /\ IsLive(txn, t) /\ IsReimbursement(txn, t)
                                  /\ LeftToAllocate(t) > 0} |->
          [already |-> AllocatedTo(r, e), suggested |-> Lesser(LeftToAllocate(r), Unreimbursed(e))]]

-----------------------------------------------------------------------------
(* InsightsService                                                         *)

\* The days of a durable's life that its cost is spread over.
LastDayOfLife(t) ==
  LET natural == Life[t].acquired + Life[t].lifespan - 1
  IN IF Life[t].ended = 0 THEN natural ELSE Lesser(natural, Life[t].ended)

\* The share of one day: of n cents over l days the k-th gets the whole cents that
\* are added by it; the day an item ends early gets all that is left.
\* Mutant: the day it ends gets a share like the others.
ShareOn_NoRest(t, d) ==
  LET offset == d - Life[t].acquired
      spread(n) == (NetAmount(t) * n) \div Life[t].lifespan
  IN spread(offset + 1) - spread(offset)
ShareOn(t, d) ==
  LET offset == d - Life[t].acquired
      spread(n) == (NetAmount(t) * n) \div Life[t].lifespan
  IN IF d = Life[t].ended THEN NetAmount(t) - spread(offset)
     ELSE spread(offset + 1) - spread(offset)

\* durable_spread: the days of each live durable up to today.
DurableSpread(s, e, today, scope) ==
  {p \in durable \X (s..Lesser(e, today)) :
     /\ IsLive(txn, p[1]) /\ IsExpense(txn, p[1]) /\ InScope(p[1], scope)
     /\ p[2] \in Life[p[1]].acquired..LastDayOfLife(p[1])}
Shares(S) == SumFunction([p \in S |-> ShareOn(p[1], p[2])])

\* list_computed: what the list of durables says is used up and left of each, the days
\* owned counted up to the day before.
DurableCost(t, today) ==
  LET ended == Life[t].ended # 0 /\ Life[t].ended <= today
      owned == Greater(0, (IF ended THEN Life[t].ended ELSE today) - Life[t].acquired)
      used == IF ended THEN NetAmount(t)
              ELSE Rounded(NetAmount(t) * Lesser(owned, Life[t].lifespan), Life[t].lifespan)
  IN [owned |-> owned, amortized |-> used, remaining |-> AtLeastZero(NetAmount(t) - used),
      done |-> ended \/ owned >= Life[t].lifespan]

\* Expenses of S with the durables' cost on the days it is spread over: the durables'
\* own rows are left out and the shares added, before the floor or after it.
WithoutDurables(S) == S \ durable
SpreadNet(S, shares) ==
  AtLeastZero(TotalAmount(txn, Expenses(WithoutDurables(S))) + Shares(shares)
                - ReimbursedOf(Expenses(WithoutDurables(S))))

\* monthly_category_bands: per month, the categories' net expenses that are not zero,
\* and the balance unless the month ends before the first anchor.
MonthlyCategoryBands(e, back, scope) ==
  [m \in MonthsOf(1, e, back) |->
     LET at == EndOfDay(Lesser(e, LastDay(m)))
     IN [segments |-> Positive(ByCategory(
                        Expenses(Rows(FirstDay(m), Lesser(e, LastDay(m)), scope)), Net)),
         hidden |-> \A a \in DOMAIN anchors : at < anchors[a].at,
         balance |-> BalanceAsOf(at)]]

\* monthly_series: whole months, the first one too, but only up to the period's end.
MonthlySeries(s, e, back, scope, spread, today) ==
  LET months == MonthsOf(s, e, back)
      shares == DurableSpread(FirstDay(Min(months)), e, today, scope)
  IN [m \in months |->
        LET rows == Rows(FirstDay(m), Lesser(e, LastDay(m)), scope)
        IN [income |-> Income(rows),
            expenses |-> IF spread
                           THEN SpreadNet(rows, {p \in shares : MonthOf(p[2]) = m})
                           ELSE Net(rows)]]

\* top_tags: a transaction counts for each of its tags; the list is cut.
TopTags(s, e, kind, scope, limit) ==
  LET rows == Rows(s, e, scope)
      ofKind == IF kind = "income" THEN Incomes(rows) ELSE Expenses(rows)
      Amount(S) == IF kind = "income" THEN Income(S) ELSE Net(S)
      all == [g \in UNION {TagsOf[t] : t \in ofKind} |-> Amount({t \in ofKind : g \in TagsOf[t]})]
  IN Largest(all, limit)

\* category_trend: every live row of the category, reimbursement incomes included.
CategoryTrend(c, e, back, scope, spread, today) ==
  LET months == MonthsOf(1, e, back)
      shares == {p \in DurableSpread(1, e, today, scope) : CategoryOfRow(p[1]) = c}
  IN [m \in months |->
        LET rows == {t \in Rows(FirstDay(m), Lesser(e, LastDay(m)), scope) :
                       CategoryOfRow(t) = c}
        IN IF spread
             THEN AtLeastZero(TotalAmount(txn, WithoutDurables(rows))
                    + Shares({p \in shares : MonthOf(p[2]) = m})
                    - ReimbursedOf(Expenses(WithoutDurables(rows))))
             ELSE AtLeastZero(TotalAmount(txn, rows) - ReimbursedOf(Expenses(rows)))]

\* flow_data: the two sides of the diagram; what is missing on one side is drawn from
\* savings or goes there, as a node of its own.
FlowSources(s, e, scope) ==
  LET rows == Rows(s, e, scope)
      incomes == Positive(ByCategory(Incomes(rows), Income))
      missing == Total(Positive(ByCategory(Expenses(rows), Net))) - Total(incomes)
  IN IF missing <= 0 THEN incomes
     ELSE [k \in DOMAIN incomes \cup {"deficit"} |->
             IF k = "deficit" THEN missing ELSE incomes[k]]
FlowSinks(s, e, scope) ==
  LET rows == Rows(s, e, scope)
      expenses == Positive(ByCategory(Expenses(rows), Net))
      left == Total(Positive(ByCategory(Incomes(rows), Income))) - Total(expenses)
  IN IF left <= 0 THEN expenses
     ELSE [k \in DOMAIN expenses \cup {"savings"} |->
             IF k = "savings" THEN left ELSE expenses[k]]

\* The links of one source: its amount shared among the sinks in proportion, rounded
\* down, and the cents left over given to the largest remainders; of equal ones the
\* first sink, the largest, comes first, and the savings last.
LinksOf(amount, sinks) ==
  LET total == Total(sinks)
      floored == [k \in DOMAIN sinks |-> (amount * sinks[k]) \div total]
      left == amount - Total(floored)
      remainder == [k \in DOMAIN sinks |-> (amount * sinks[k]) % total]
      order == SetToSortSeq(DOMAIN sinks, LAMBDA j, k :
                 k = "savings" \/ (j # "savings" /\ sinks[j] > sinks[k]))
      place == [k \in DOMAIN sinks |-> CHOOSE i \in 1..Len(order) : order[i] = k]
      ahead(k) == {j \in DOMAIN sinks : remainder[j] > remainder[k]
                     \/ (remainder[j] = remainder[k] /\ place[j] < place[k])}
  IN [k \in DOMAIN sinks |->
        floored[k] + IF Cardinality(ahead(k)) < left THEN 1 ELSE 0]

\* expense_category_deltas: the period against the days of the same number before it, the
\* categories that went up most and those that went down most.
CategoryTotals(s, e, scope, spread, today) ==
  LET rows == Expenses(Rows(s, e, scope))
      shares == DurableSpread(s, e, today, scope)
      plain == IF spread THEN WithoutDurables(rows) ELSE rows
      cats == {CategoryOfRow(t) : t \in plain}
                \cup IF spread THEN {CategoryOfRow(p[1]) : p \in shares} ELSE {}
  IN [c \in cats |->
        LET own == {t \in plain : CategoryOfRow(t) = c}
        IN IF spread THEN SpreadNet(own, {p \in shares : CategoryOfRow(p[1]) = c})
           ELSE Net(own)]
ExpenseCategoryDeltas(s, e, scope, limit, spread, today) ==
  LET now == CategoryTotals(s, e, scope, spread, today)
      before == CategoryTotals(s - (e - s + 1), s - 1, scope, spread, today)
      At(f, c) == IF c \in DOMAIN f THEN f[c] ELSE 0
      deltas == [c \in DOMAIN now \cup DOMAIN before |-> At(now, c) - At(before, c)]
  IN [increases |-> Largest(deltas, limit), decreases |-> Smallest(deltas, limit)]

\* grouped_amounts, with the shares the charts add to it afterwards: no floor covers them.
GroupedAmounts(S, key) == Grouped(Expenses(S), LAMBDA t : key[t], Net)
WithShares(amounts, shares, key) ==
  [k \in DOMAIN amounts \cup {key[p] : p \in shares} |->
     (IF k \in DOMAIN amounts THEN amounts[k] ELSE 0)
       + Shares({p \in shares : key[p] = k})]

\* month_grid, recurring_split and day_calendar.
SpreadShares(s, e, spread, today) ==
  IF spread THEN DurableSpread(s, e, today, Whole) ELSE {}
GridRows(s, e, spread) ==
  IF spread THEN WithoutDurables(RowsBetween(s, e)) ELSE RowsBetween(s, e)
MonthGrid(s, e, spread, today) ==
  LET shares == SpreadShares(s, e, spread, today)
      key == [t \in DOMAIN txn |-> <<txn[t].month, CategoryOfRow(t)>>]
      keyOfShare == [p \in shares |-> <<MonthOf(p[2]), CategoryOfRow(p[1])>>]
  IN WithShares(GroupedAmounts(GridRows(s, e, spread), key), shares, keyOfShare)
RecurringSplit(s, e, spread, today) ==
  LET shares == SpreadShares(s, e, spread, today)
      key == [t \in DOMAIN txn |-> <<txn[t].month, t \in FromRule>>]
      keyOfShare == [p \in shares |-> <<MonthOf(p[2]), p[1] \in FromRule>>]
  IN WithShares(GroupedAmounts(GridRows(s, e, spread), key), shares, keyOfShare)
DayCalendar(s, e, spread, today) ==
  LET shares == {p \in SpreadShares(s, e, spread, today) : p[1] \notin FromRule}
      key == [t \in DOMAIN txn |-> Date(t)]
  IN WithShares(GroupedAmounts(GridRows(s, e, spread) \ FromRule, key),
                shares, [p \in shares |-> p[2]])

-----------------------------------------------------------------------------
(* BudgetService and DigestService: spending as budgets see it             *)

BudgetRows(s, e) == {t \in Expenses(RowsBetween(s, e)) : TagsOf[t] \cap HiddenTag = {}}

\* spent_by_category_for_month and spent_by_category_for_year; the overall budget's
\* spending is the sum of the categories'.
SpentByCategory(s, e) == ByCategory(BudgetRows(s, e), Net)

\* burndown_for_month: what the rows show, day by day, added up.
Burndown(m, cats) ==
  [d \in FirstDay(m)..LastDay(m) |->
     Shown({t \in BudgetRows(FirstDay(m), d) : cats = {} \/ CategoryOfRow(t) \in cats})]

\* _derive_progress for a budget of a month, seen on the day asOf.
Elapsed(m, asOf) ==
  IF asOf < FirstDay(m) THEN 0
  ELSE IF asOf > LastDay(m) THEN MonthLength ELSE asOf - FirstDay(m) + 1
Progress(budget, spent, m, asOf) ==
  LET elapsed == Elapsed(m, asOf)
      left == MonthLength - elapsed
  IN [remaining |-> budget - spent,
      daily |-> IF left > 0 THEN Rounded(budget - spent, left) ELSE budget - spent,
      projected |-> IF elapsed > 0 THEN Rounded(spent * MonthLength, elapsed) ELSE spent]

\* weekly_digest, for the week that begins on day w: the expenses the list shows, the
\* categories that took most, and the expenses far above what is usual in theirs.
WeekExpenses(w, weeks, length) ==
  Expenses(RowsBetween(w - weeks * length, w - 1))
WeeklyDigest(w, length) ==
  LET current == WeekExpenses(w + length, 1, length)
      trailing == WeekExpenses(w, 4, length)
      Usual(t) == LET alike == {u \in trailing : CategoryOfRow(u) = CategoryOfRow(t)}
                  IN IF alike = {} THEN -1 ELSE Rounded(Shown(alike), Cardinality(alike))
  IN [total |-> Shown(current),
      versusLast |-> Shown(current) - Shown(WeekExpenses(w, 1, length)),
      versusUsual |-> Shown(current) - Rounded(Shown(trailing), 4),
      categories |-> Largest(ByCategory(current, Shown), DigestLimit),
      unusual |-> {t \in current : Usual(t) >= 0 /\ NetAmount(t) > 2 * Usual(t)},
      postings |-> {t \in RowsBetween(w, w + length - 1) : t \in FromRule}]

-----------------------------------------------------------------------------
(* ReportService.gather_data.  A report of the whole account lists gross   *)
(* amounts under the account's balance; one that is narrowed to a type,    *)
(* categories or tags lists net amounts under a balance of its own.        *)

Narrow(o) == o.kind # "any" \/ o.cats # {} \/ o.scope # Whole
ReportKind(o) == IF o.kind = "any" THEN TransactionType ELSE {o.kind}
OfReport(o, S) ==
  {t \in S : /\ txn[t].type \in ReportKind(o)
             /\ o.cats = {} \/ CategoryOfRow(t) \in o.cats
             /\ InScope(t, o.scope)}

ReportOverview(o) ==
  IF o.kind = "any" /\ o.cats = {} THEN KpiFigures(o.start, o.end, o.scope)
  ELSE Figures(OfReport(o, RowsBetween(o.start, o.end)))

ReportTrend(o) ==
  LET rows == OfReport([o EXCEPT !.kind = "any"], RowsBetween(o.start, o.end))
  IN IF o.kind = "income" THEN Grouped(Incomes(rows), Date, Income)
     ELSE Grouped(Expenses(rows), Date, Net)

ReportRows(o) ==
  LET rows == OfReport(o, RowsBetween(o.start, o.end))
  IN IF Narrow(o) THEN Incomes(rows) \cup Expenses(rows) ELSE rows
ReportAmount(o, t) ==
  IF Narrow(o) /\ IsExpense(txn, t) THEN NetAmount(t) ELSE txn[t].amount

ReportOpening(o) ==
  IF Narrow(o)
    THEN LET before == OfReport(o, RowsBetween(1, o.start - 1))
         IN TotalAmount(txn, {t \in before : txn[t].type = "income"}) - Net(before)
    ELSE BalanceAsOf(EndOfDay(o.start - 1))

\* The running balance: each anchor is put in place of it before the first row at or
\* after its instant.
ReportRunning(o) ==
  LET rows == Sorted(ReportRows(o), LAMBDA t, u :
                OccurredAt(t) < OccurredAt(u) \/ (OccurredAt(t) = OccurredAt(u) /\ t < u))
      order == Sorted(AnchorsIn(Noon(o.start) - 1, EndOfDay(o.end)), AnchorBefore)
      Anchored(state, t) ==
        LET due == {k \in (state.used + 1)..Len(order) :
                      ~Narrow(o) /\ anchors[order[k]].at <= OccurredAt(t)}
        IN IF due = {} THEN state
           ELSE [state EXCEPT !.used = Max(due), !.balance = anchors[order[Max(due)]].balance]
      Step(state, t) ==
        LET from == Anchored(state, t)
            now  == from.balance + IF txn[t].type = "income" THEN ReportAmount(o, t)
                                   ELSE -ReportAmount(o, t)
        IN [from EXCEPT !.balance = now, !.shown = Append(@, <<t, now>>)]
  IN FoldLeft(Step, [balance |-> ReportOpening(o), used |-> 0, shown |-> <<>>], rows).shown

ReportSubtotals(o) ==
  LET KeyOf(t) == <<CategoryOfRow(t), txn[t].type>>
      Sum(S) == SumFunction([t \in S |-> ReportAmount(o, t)])
  IN Grouped(ReportRows(o), KeyOf, Sum)

-----------------------------------------------------------------------------
AnchorStep ==
  \/ \E a \in AnchorId, i \in Instant, cents \in AnchorCents : CreateAnchor(a, i, cents)
  \/ \E a \in AnchorId, i \in Instant, cents \in AnchorCents : UpdateAnchor(a, i, cents)
  \/ \E a \in AnchorId : DeleteAnchor(a)

ViewsInit == Init /\ anchors = <<>>
ViewsNext == (Next /\ UNCHANGED anchors) \/ AnchorStep
ViewsSpec == ViewsInit /\ [][ViewsNext]_viewVars

-----------------------------------------------------------------------------
(* Properties                                                              *)

Period == {p \in Day \X Day : p[1] <= p[2]}
Scopes == {Whole} \cup {[included |-> {g}, excluded |-> {}] : g \in Tag}
                  \cup {[included |-> {}, excluded |-> {g}] : g \in Tag}

\* What the rows of the transaction list show, added up.
Listed(S) == [income |-> Income(S), expenses |-> Shown(Expenses(S))]
TotalFigures(f) ==
  [income |-> SumFunction([m \in DOMAIN f |-> f[m].income]),
   expenses |-> SumFunction([m \in DOMAIN f |-> f[m].expenses])]

\* The KPIs of any period, put together from rows at its ends and rollups between, are
\* what the transaction list of that period adds up to, as are its summary line and the
\* points of the sparklines under them; a tag's KPIs and those without it make the whole.
KpisAddUp ==
  \A p \in Period :
    /\ \A scope \in Scopes :
         LET listed == Listed(Rows(p[1], p[2], scope))
         IN /\ KpiFigures(p[1], p[2], scope) = listed
            /\ SummaryForPeriod(p[1], p[2], scope) = listed
            /\ TotalFigures(SparkFigures(p[1], p[2], scope, LastMonthOf)) = listed
    /\ \A g \in Tag :
         Plus(KpiFigures(p[1], p[2], [included |-> {g}, excluded |-> {}]),
              KpiFigures(p[1], p[2], [included |-> {}, excluded |-> {g}]))
           = KpiFigures(p[1], p[2], Whole)

\* What the list shows of each category.
Spending(S) == [c \in Category |-> Listed({t \in S : CategoryOfRow(t) = c}).expenses]

\* A list that is cut gives each entry the amount it really has; what it leaves out is
\* zero, or else the list is full and shows nothing smaller.
ShowsMost(shown, amounts, limit) ==
  /\ DOMAIN shown \subseteq DOMAIN amounts /\ Cardinality(DOMAIN shown) <= limit
  /\ \A k \in DOMAIN shown : shown[k] = amounts[k]
  /\ \A j \in DOMAIN amounts \ DOMAIN shown :
       amounts[j] # 0 => /\ Cardinality(DOMAIN shown) = limit
                         /\ \A k \in DOMAIN shown : amounts[j] <= shown[k]

\* The charts of one period show the same money: the categories of the dashboard's ring
\* and of the month bands, the days of a report's trend, the months of the series, the
\* cells of the grid, the recurring and the other share and the rows of the day calendar
\* all add up to the KPIs.  The lists that are cut, of categories, of tags and of changes
\* against the days before, show the entries that are largest by the transaction list
\* and by the tag's own KPIs, and give their shares of the whole, not of what is shown.
ChartsAgree ==
  \A p \in Period :
    LET s == p[1]
        e == p[2]
        whole == KpiFigures(s, e, Whole)
        first == FirstDay(MonthOf(s))
        Months == MonthOf(e) - MonthOf(s) + 1
        ring == CategoryBreakdown(s, e, "expense", {}, Whole, NoLimit)
        top == CategoryBreakdown(s, e, "expense", {}, Whole, BreakdownLimit)
        incomes == CategoryBreakdown(s, e, "income", {}, Whole, BreakdownLimit)
    IN /\ Total(ring.shown) = whole.expenses /\ top.of = whole.expenses
       /\ ShowsMost(top.shown, Spending(RowsBetween(s, e)), BreakdownLimit)
       /\ Total(incomes.shown) = whole.income /\ incomes.of = whole.income
       /\ Total(ReportTrend([start |-> s, end |-> e, kind |-> "any", cats |-> {},
                             scope |-> Whole])) = whole.expenses
       /\ TotalFigures(MonthlySeries(s, e, LastMonthOf, Whole, FALSE, e))
            = KpiFigures(first, e, Whole)
       /\ LET bands == MonthlyCategoryBands(e, Months, Whole)
          IN SumFunction([m \in DOMAIN bands |-> Total(bands[m].segments)])
               = KpiFigures(first, e, Whole).expenses
       /\ Total(MonthGrid(s, e, FALSE, e)) = whole.expenses
       /\ Total(RecurringSplit(s, e, FALSE, e)) = whole.expenses
       /\ Total(DayCalendar(s, e, FALSE, e)) + Listed(RowsBetween(s, e) \cap FromRule).expenses
            = whole.expenses
       /\ ShowsMost(TopTags(s, e, "expense", Whole, TagLimit),
            [g \in Tag |-> KpiFigures(s, e, [included |-> {g}, excluded |-> {}]).expenses],
            TagLimit)
       /\ s - (e - s + 1) >= 1 =>
            LET now    == Spending(RowsBetween(s, e))
                before == Spending(RowsBetween(s - (e - s + 1), s - 1))
                change == [c \in Category |-> now[c] - before[c]]
                deltas == ExpenseCategoryDeltas(s, e, Whole, DeltaLimit, FALSE, e)
            IN /\ ShowsMost(deltas.increases, change, DeltaLimit)
               /\ ShowsMost(Negated(deltas.decreases), Negated(change), DeltaLimit)

\* A durable purchase that is spread over its life loses and gains no cent: its shares
\* are never negative, never ahead of the whole, and add up to its net amount, whether
\* it lives out its days or ends early; the list of durables says of each day what the
\* charts have spread before it, to the cent; and once every life is over the spread charts
\* add up to what the plain ones do.
SpreadAddsUp ==
  LET final == LastDay(LastMonthOf)
      whole == TotalFigures(MonthlySeries(1, final, LastMonthOf, Whole, FALSE, final))
  IN /\ \A t \in durable : IsLive(txn, t) =>
          LET days == Life[t].acquired..LastDayOfLife(t)
              SharesTo(d) == Shares({p \in DurableSpread(1, d, final, Whole) : p[1] = t})
          IN /\ \A d \in days : ShareOn(t, d) >= 0
             /\ SharesTo(final) = NetAmount(t)
             /\ \A d \in days :
                  LET cost == DurableCost(t, d)
                      spread == IF d = Life[t].ended THEN SharesTo(d) ELSE SharesTo(d - 1)
                  IN cost.amortized - spread \in 0..1
             /\ \A d \in days : SharesTo(d) <= NetAmount(t)
     /\ TotalFigures(MonthlySeries(1, final, LastMonthOf, Whole, TRUE, final)) = whole
     /\ Total(MonthGrid(1, final, TRUE, final)) = whole.expenses
     /\ Total(RecurringSplit(1, final, TRUE, final)) = whole.expenses
     /\ SumFunction([c \in {CategoryOf[t]["expense"] : t \in TxnId} |->
                       Total(CategoryTrend(c, final, LastMonthOf, Whole, TRUE, final))])
          = whole.expenses

\* The flow diagram is balanced: both sides carry the same money, each source's links
\* add up to it to the cent, and what flows into a sink is off by less than a cent for
\* each source.
FlowConserved ==
  \A p \in Period :
    LET sources == FlowSources(p[1], p[2], Whole)
        sinks == FlowSinks(p[1], p[2], Whole)
    IN /\ Total(sources) = Total(sinks)
       /\ Total(sinks) > 0 =>
            LET links == [k \in DOMAIN sources |-> LinksOf(sources[k], sinks)]
            IN /\ \A k \in DOMAIN sources : Total(links[k]) = sources[k]
               /\ \A j \in DOMAIN sinks :
                    LET into == SumFunction([k \in DOMAIN sources |-> links[k][j]])
                    IN into - sinks[j] \in (1 - Cardinality(DOMAIN sources))
                                             ..(Cardinality(DOMAIN sources) - 1)

\* The balance if one goes through time an instant at a time: what happens moves it, and
\* the latest anchor at an instant replaces it.
WalkedBalance ==
  LET walk[i \in 1..Max(Instant)] ==
        IF i = 1 THEN 0
        ELSE IF AnchorsIn(i, i) # {}
          THEN anchors[Max(AnchorsIn(i, i))].balance
          ELSE walk[i - 1] + Flow({t \in DOMAIN txn : ~txn[t].deleted /\ OccurredAt(t) = i})
  IN walk

\* The balance of any moment, asked for alone or with others, is the one a walk through
\* time reaches; the balance KPI, the sparkline's last point, the month bands and the
\* month-end history show the same, and the history leaves out what came before the data.
BalanceIsWalk ==
  LET walked == WalkedBalance
      all == BalancesAsOf(Instant)
      now == Max(Instant)
      history == MonthEndHistory(LastMonthOf, now)
  IN /\ \A i \in Instant : all[i] = walked[i] /\ BalanceAsOf(i) = walked[i]
     /\ \A d \in Day :
          LET spark == SparkBalances(1, d, Whole, LastMonthOf)
          IN /\ KpiBalance(1, d, Whole) = walked[EndOfDay(d)]
             /\ \A m \in DOMAIN spark : spark[m] = walked[EndOfDay(Lesser(d, LastDay(m)))]
     /\ \A m \in Month :
          LET at == EndOfDay(LastDay(m))
          IN IF m \in DOMAIN history THEN history[m] = walked[at]
             ELSE /\ \A a \in DOMAIN anchors : anchors[a].at > at
                  /\ DOMAIN anchors = {} => walked[at] = 0
     /\ \A m \in Month :
          MonthlyCategoryBands(LastDay(LastMonthOf), LastMonthOf, Whole)[m].balance
            = walked[EndOfDay(LastDay(m))]

\* Adding the suggested amount to what an expense already has from a reimbursement is
\* accepted by upsert_allocation, and nothing more would be, in whichever of the two
\* dialogs it is shown; only an allocation from the trash, which the dialogs do not count
\* and upsert_allocation does, may stand in the way.
SuggestionIsTheMost ==
  \A r, e \in DOMAIN txn :
    LET listed == ExpensesForReimbursement(r)
        offered == ReimbursementsForExpense(e)
        Takes(row, cents) == CanAllocate(txn, alloc, r, e, row.already + cents)
    IN /\ e \in DOMAIN listed /\ r \in DOMAIN offered => listed[e] = offered[r]
       /\ e \in DOMAIN listed =>
            /\ ~Takes(listed[e], listed[e].suggested + 1)
            /\ \/ Takes(listed[e], listed[e].suggested)
               \/ LeftToAllocate(r) = 0
               \/ \E p \in AllocationsInto(alloc, e) : ~IsLive(txn, p[1])

\* A report is consistent in itself: the subtotals of a narrowed one are its overview,
\* and the running balance of the whole account is after each day's last row the balance
\* of that moment, as long as no anchor lies at the very instant of a row.
ReportAddsUp ==
  \A p \in Period :
    LET account == [start |-> p[1], end |-> p[2], kind |-> "any", cats |-> {}, scope |-> Whole]
        shown == ReportRunning(account)
        narrow == {[account EXCEPT !.kind = ty] : ty \in TransactionType}
                    \cup {[account EXCEPT !.cats = {c}] : c \in Category}
    IN /\ \A o \in narrow :
            LET subtotals == ReportSubtotals(o)
                Of(ty) == Total(Restrict(subtotals, {k \in DOMAIN subtotals : k[2] = ty}))
            IN ReportOverview(o) = [income |-> Of("income"), expenses |-> Of("expense")]
       /\ (\A t \in ReportRows(account) : AnchorsIn(OccurredAt(t), OccurredAt(t)) = {}) =>
            \A k \in 1..Len(shown) :
              (k = Len(shown) \/ OccurredAt(shown[k][1]) < OccurredAt(shown[k + 1][1]))
                => shown[k][2] = BalanceAsOf(OccurredAt(shown[k][1]))

\* Budgets and the digest see the expenses the list shows: the months of a year add up to
\* the year, the burndown ends at what is spent, a projection starts from nothing else,
\* ends at what was spent and is never below it, and the digest's week is the KPIs', with
\* the categories that took most of it.
BudgetsSeeTheList ==
  LET Spent(m) == Total(SpentByCategory(FirstDay(m), LastDay(m)))
      Visible(m) == {t \in RowsBetween(FirstDay(m), LastDay(m)) : TagsOf[t] \cap HiddenTag = {}}
  IN /\ \A m \in Month :
          /\ Spent(m) = Listed(Visible(m)).expenses
          /\ Burndown(m, {})[LastDay(m)] = Spent(m)
          /\ \A c \in DOMAIN SpentByCategory(FirstDay(m), LastDay(m)) :
               Burndown(m, {c})[LastDay(m)] = SpentByCategory(FirstDay(m), LastDay(m))[c]
          /\ \A asOf \in Day : Progress(0, Spent(m), m, asOf).projected >= Spent(m)
          /\ Progress(0, Spent(m), m, LastDay(m)).projected = Spent(m)
     /\ Total(SpentByCategory(1, LastDay(LastMonthOf)))
          = SumFunction([m \in Month |-> Spent(m)])
     /\ \A w \in {d \in Day : d % 2 = 0} :
          LET digest == WeeklyDigest(w, 2)
          IN /\ digest.total = KpiFigures(w, Lesser(w + 1, LastDay(LastMonthOf)), Whole).expenses
             /\ ShowsMost(digest.categories, Spending(RowsBetween(w, w + 1)), DigestLimit)
             /\ digest.unusual \subseteq Expenses(Rows(w, w + 1, Whole))

-----------------------------------------------------------------------------
(* What the runs check of these: those that stand alone, and two groups.   *)

\* Every chart, budget and digest of a period shows the same money as its KPIs, as far as
\* it shows it.
FiguresAgree == ChartsAgree /\ BudgetsSeeTheList

\* What is divided is divided to the cent: a durable purchase over the days of its life,
\* a source of the flow diagram among its sinks.
CentsKept == SpreadAddsUp /\ FlowConserved

\* Every balance on a screen or in a report is the one that a walk through time reaches.
BalancesHold == ViewsTypeOK /\ BalanceIsWalk /\ ReportAddsUp
=============================================================================
