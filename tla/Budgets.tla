------------------------------ MODULE Budgets -------------------------------
(***************************************************************************)
(* Monthly budgets: templates that hold over a range of dates, overrides   *)
(* of one month, and the budget that is in effect (BudgetService), with    *)
(* the changes the assistant proposes, applies and undoes on them          *)
(* (assistant_actions.py) and the merge of two categories.                 *)
(*                                                                         *)
(* A budget is in effect in a month by its dates alone, and the month's    *)
(* first day is all that is looked at: a date is 2 * m for the first day   *)
(* of month m and 2 * m + 1 for the days after it.  A yearly budget is the *)
(* same with years for months and no overrides.  A template is known by    *)
(* its scope and start, which are unique together for a category; the      *)
(* overall budget, whose scope the unique constraint does not cover, has   *)
(* one template per start as long as requests do not overlap.              *)
(***************************************************************************)
EXTENDS Integers, FiniteSets, FiniteSetsExt, Functions

CONSTANTS
  Scope,      \* expense categories, and the overall budget
  LastMonth,  \* BOUND: months 0..LastMonth
  Amount,     \* amounts a user enters
  StartsOn,   \* dates a user submits as the start of a template
  EndsOn,     \* and as its end
  Null,       \* no end, no budget, no plan
  MaxEdits    \* BOUND: requests and proposals

Month == 0..LastMonth
Date == 0..(2 * LastMonth + 1)
FirstOf(m) == 2 * m

ASSUME BudgetsAssumption ==
  /\ LastMonth \in Nat /\ MaxEdits \in Nat
  /\ StartsOn \subseteq Date /\ EndsOn \subseteq Date \cup {Null}
  /\ Null \notin Date \cup Amount

VARIABLES
  templates,  \* budget_templates: <<scope, starts_on>> -> amount and ends_on
  overrides,  \* budget_overrides: <<scope, month>> -> amount
  plan,       \* a change the assistant proposed, and what undoes it
  edits       \* counts towards MaxEdits

vars == <<templates, overrides, plan, edits>>

BudgetTemplate == [amount : Amount, ends : Date \cup {Null}]

Kind == {"month", "onward", "remove"}

TypeOK ==
  /\ DOMAIN templates \subseteq Scope \X Date
  /\ templates \in [DOMAIN templates -> BudgetTemplate]
  /\ DOMAIN overrides \subseteq Scope \X Month
  /\ overrides \in [DOMAIN overrides -> Amount]
  /\ edits \in 0..MaxEdits
  /\ plan.pc \in {"none", "proposed", "applied"}

-----------------------------------------------------------------------------
\* The start dates of the templates of a scope.
Starts(T, c) == {d \in Date : <<c, d>> \in DOMAIN T}

Reaches(T, c, d, e) == T[<<c, d>>].ends = Null \/ T[<<c, d>>].ends >= e

\* _active_templates_for_date, and apply_template_from's template to end.
ActiveStarts(T, c, e) == {d \in Starts(T, c) : d <= e /\ Reaches(T, c, d, e)}

\* effective_budgets_for_month: an override, or the latest template to start.
EffectiveIn(T, O, c, m) ==
  IF <<c, m>> \in DOMAIN O THEN O[<<c, m>>]
  ELSE LET active == ActiveStarts(T, c, FirstOf(m))
       IN IF active = {} THEN Null ELSE T[<<c, Max(active)>>].amount

Effective(c, m) == EffectiveIn(templates, overrides, c, m)

\* A table with one row inserted or replaced.
Put(table, key, row) == [k \in DOMAIN table \cup {key} |-> IF k = key THEN row ELSE table[k]]
Without(table, keys) == Restrict(table, DOMAIN table \ keys)

-----------------------------------------------------------------------------
\* Requests, each one transaction.

Edit == edits < MaxEdits /\ edits' = edits + 1

\* The template with this scope and start is replaced, or a new one is added,
\* whatever other templates hold at the time.  The forms send no end before the start.
UpsertTemplate(c, starts, ends, a) ==
  /\ Edit
  /\ templates' = Put(templates, <<c, starts>>, [amount |-> a, ends |-> ends])
  /\ UNCHANGED <<overrides, plan>>

\* The end of a template applied from a date: that of the template it cuts short,
\* and before the next one that starts.  Mutant: the next one is not looked at.
EarlierEnd(end, next) == IF end = Null \/ end > next - 1 THEN next - 1 ELSE end
EndsBeforeNext_Open(T, c, starts, end) == end
EndsBeforeNext(T, c, starts, end) ==
  LET later == {d \in Starts(T, c) : d > starts}
  IN IF later = {} THEN end ELSE EarlierEnd(end, Min(later))

\* apply_template_from's templates.
AppliedFrom(T, c, m, a) ==
  LET starts == FirstOf(m)
      active == ActiveStarts(T, c, starts)
      cut == <<c, Max(active)>>
  IN IF starts \in Starts(T, c)
     THEN [T EXCEPT ![<<c, starts>>].amount = a]
     ELSE IF active = {}
     THEN Put(T, <<c, starts>>, [amount |-> a, ends |-> EndsBeforeNext(T, c, starts, Null)])
     ELSE Put([T EXCEPT ![cut].ends = starts - 1], <<c, starts>>,
              [amount |-> a, ends |-> EndsBeforeNext(T, c, starts, T[cut].ends)])

\* The overrides it leaves.  Mutant: it leaves all.
OverridesFrom_All(O, c, m) == O
OverridesFrom(O, c, m) == Without(O, {<<c, m>>})

ApplyFrom(c, m, a) ==
  /\ Edit
  /\ templates' = AppliedFrom(templates, c, m, a)
  /\ overrides' = OverridesFrom(overrides, c, m)
  /\ UNCHANGED plan

DeleteTemplate(key) ==
  /\ Edit
  /\ templates' = Without(templates, {key})
  /\ UNCHANGED <<overrides, plan>>

UpsertOverride(c, m, a) ==
  /\ Edit
  /\ overrides' = Put(overrides, <<c, m>>, a)
  /\ UNCHANGED <<templates, plan>>

DeleteOverride(key) ==
  /\ Edit
  /\ overrides' = Without(overrides, {key})
  /\ UNCHANGED <<templates, plan>>

\* The rows of a table with those of one scope given to another.  Mutant: only copied.
Moved_Copied(table, source, target) ==
  [k \in DOMAIN table \cup {<<target, g[2]>> : g \in {g \in DOMAIN table : g[1] = source}} |->
     IF k \in DOMAIN table THEN table[k] ELSE table[<<source, k[2]>>]]
Moved(table, source, target) ==
  LET given == {k \in DOMAIN table : k[1] = source}
      key(k) == IF k[1] = target /\ <<source, k[2]>> \in given THEN <<source, k[2]>> ELSE k
  IN [k \in (DOMAIN table \ given) \cup {<<target, g[2]>> : g \in given} |-> table[key(k)]]

\* CategoryService.merge on the budgets of two categories.  It is refused when both
\* have a template with the same start or an override of the same month.
Conflict(table, source, target) ==
  \E k \in DOMAIN table : k[1] = source /\ <<target, k[2]>> \in DOMAIN table
Merge(source, target) ==
  /\ Edit
  /\ source # target
  /\ ~Conflict(templates, source, target) /\ ~Conflict(overrides, source, target)
  /\ templates' = Moved(templates, source, target)
  /\ overrides' = Moved(overrides, source, target)
  /\ UNCHANGED plan

-----------------------------------------------------------------------------
\* A change the assistant proposes.  It is kept with the rows of its scope, and what
\* the card showed was in effect.

NoPlan == [pc |-> "none"]

\* _budget_state.  Mutant: templates only.
RowsOf_NoOverrides(T, O, c) ==
  [templates |-> Restrict(T, {k \in DOMAIN T : k[1] = c}), overrides |-> Restrict(O, {})]
RowsOf(T, O, c) ==
  [templates |-> Restrict(T, {k \in DOMAIN T : k[1] = c}),
   overrides |-> Restrict(O, {k \in DOMAIN O : k[1] = c})]

\* _without_budget: the rows of a scope once the budget ends before a month.
StartsBefore(d, m) == d < FirstOf(m)
CutAt(row, d) == IF row.ends # Null /\ row.ends < d THEN row ELSE [row EXCEPT !.ends = d - 1]
WithoutBudget(rows, m) ==
  [templates |-> [k \in {k \in DOMAIN rows.templates : StartsBefore(k[2], m)}
                    |-> CutAt(rows.templates[k], FirstOf(m))],
   overrides |-> Restrict(rows.overrides, {k \in DOMAIN rows.overrides : k[2] < m})]

Propose(kind, c, m, a) ==
  LET before == RowsOf(templates, overrides, c)
  IN /\ Edit
     /\ plan.pc \in {"none", "applied"}
     /\ kind = "remove" => WithoutBudget(before, m) # before
     /\ plan' = [pc |-> "proposed", kind |-> kind, scope |-> c, month |-> m, amount |-> a,
                 before |-> before, shown |-> [q \in Month |-> Effective(c, q)]]
     /\ UNCHANGED <<templates, overrides>>

\* The user dismisses the card, or it is refused because the rows changed.
Dismiss ==
  /\ plan.pc = "proposed"
  /\ plan' = NoPlan
  /\ UNCHANGED <<templates, overrides, edits>>

\* _apply_restore_budgets: the rows of a scope become the given ones.
Replaced(table, c, rows) ==
  [k \in {k \in DOMAIN table : k[1] # c} \cup DOMAIN rows |->
     IF k \in DOMAIN rows THEN rows[k] ELSE table[k]]

\* Mutant: an override that an onward budget deleted does not come back.
RestoredOverrides_Kept(c, rows) == overrides
RestoredOverrides(c, rows) == Replaced(overrides, c, rows.overrides)

Restored(rows) ==
  /\ templates' = Replaced(templates, plan.scope, rows.templates)
  /\ overrides' = RestoredOverrides(plan.scope, rows)

\* _apply_budgets and _apply_remove_budgets.
Apply ==
  LET c == plan.scope
      m == plan.month
  IN /\ plan.pc = "proposed"
     /\ RowsOf(templates, overrides, c) = plan.before
     /\ CASE plan.kind = "month" ->
               /\ overrides' = Put(overrides, <<c, m>>, plan.amount)
               /\ UNCHANGED templates
          [] plan.kind = "onward" ->
               /\ templates' = AppliedFrom(templates, c, m, plan.amount)
               /\ overrides' = OverridesFrom(overrides, c, m)
          [] plan.kind = "remove" -> Restored(WithoutBudget(plan.before, m))
     /\ plan' = [pc |-> "applied", kind |-> plan.kind, scope |-> c, month |-> m,
                 amount |-> plan.amount, before |-> plan.before, shown |-> plan.shown,
                 current |-> RowsOf(templates', overrides', c)]
     /\ UNCHANGED edits

\* The approval of an undo: the rows must be those the change left.
Undo ==
  /\ plan.pc = "applied"
  /\ RowsOf(templates, overrides, plan.scope) = plan.current
  /\ Restored(plan.before)
  /\ plan' = NoPlan
  /\ UNCHANGED edits

Init ==
  /\ templates = <<>> /\ overrides = <<>>
  /\ plan = NoPlan /\ edits = 0

Next ==
  \/ \E c \in Scope, d \in StartsOn, a \in Amount :
       \E e \in {x \in EndsOn : x = Null \/ x >= d} : UpsertTemplate(c, d, e, a)
  \/ \E c \in Scope, m \in Month, a \in Amount : ApplyFrom(c, m, a) \/ UpsertOverride(c, m, a)
  \/ \E key \in DOMAIN templates : DeleteTemplate(key)
  \/ \E key \in DOMAIN overrides : DeleteOverride(key)
  \/ \E source, target \in Scope : Merge(source, target)
  \/ \E kind \in Kind, c \in Scope, m \in Month, a \in Amount : Propose(kind, c, m, a)
  \/ Dismiss \/ Apply \/ Undo

Spec == Init /\ [][Next]_vars

-----------------------------------------------------------------------------
(* Properties                                                              *)

\* Two templates of a scope overlap, or one begins and ends while another holds.
Overlap(T, c, d, e) == d < e /\ Reaches(T, c, d, e)
Disjoint(T, c) == \A d, e \in Starts(T, c) : ~Overlap(T, c, d, e)
Nested(T, c) ==
  \E d, e \in Starts(T, c) :
    /\ Overlap(T, c, d, e) /\ T[<<c, e>>].ends # Null
    /\ Reaches(T, c, d, T[<<c, e>>].ends + 1)

\* An amount set from a month on leaves the history alone, holds in that month, and
\* later until the next scheduled template, but not where a month has an override.  A
\* month that had a budget keeps one, unless templates were nested in one another.
ChangedFrom(c, m, a) ==
  LET later == {d \in Starts(templates, c) : d > FirstOf(m)}
      scheduled(q) == \E d \in later : d <= FirstOf(q)
  IN /\ \A q \in Month : q < m => Effective(c, q)' = Effective(c, q)
     /\ Effective(c, m)' = a
     /\ ~Nested(templates, c) =>
          \A q \in Month : q > m =>
            /\ scheduled(q) \/ <<c, q>> \in DOMAIN overrides
                 => Effective(c, q)' = Effective(c, q)
            /\ Effective(c, q)' \in {a, Effective(c, q)}
            /\ Effective(c, q) # Null => Effective(c, q)' # Null
OnwardChangesItsMonths ==
  [][\A c \in Scope, m \in Month, a \in Amount : ApplyFrom(c, m, a) => ChangedFrom(c, m, a)]_vars

\* Setting an amount from a month on never makes the templates of a scope overlap: it ends
\* the one in effect the day before and stops short of the next one.
StaysDisjoint ==
  [][\A c \in Scope, m \in Month, a \in Amount :
       ApplyFrom(c, m, a) /\ Disjoint(templates, c) => Disjoint(templates, c)']_vars

\* A removed budget is gone from its month on, and was there before as it was.
RemovalEndsIt ==
  [][Apply /\ plan.kind = "remove" =>
       \A q \in Month :
         EffectiveIn(templates', overrides', plan.scope, q) =
           IF q < plan.month THEN plan.shown[q] ELSE Null]_vars

\* A plan is applied to the budgets its card showed, whatever users did meanwhile.
PlanAsShown ==
  [][Apply => \A q \in Month : Effective(plan.scope, q) = plan.shown[q]]_vars

\* An undo brings back what was in effect when the change was proposed, and takes back
\* no edit made since.
UndoGivesBack ==
  [][Undo => \A q \in Month :
       EffectiveIn(templates', overrides', plan.scope, q) = plan.shown[q]]_vars

\* A merge gives every month that had a budget in either category one of the two, and
\* leaves the source without.
MergeKeepsBudgets ==
  [][\A s, t \in Scope : Merge(s, t) =>
       \A q \in Month :
         /\ Effective(s, q)' = Null
         /\ Effective(t, q)' \in {Effective(s, q), Effective(t, q)}
         /\ Effective(t, q)' = Null => Effective(s, q) = Null /\ Effective(t, q) = Null]_vars

=============================================================================
