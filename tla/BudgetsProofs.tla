---------------------------- MODULE BudgetsProofs ----------------------------
(***************************************************************************)
(* What changes of budgets keep to, for any categories, months and         *)
(* amounts.  What is in effect in a scope depends on the rows of that      *)
(* scope alone, and a plan keeps the rows it was made from: so a plan that *)
(* finds them unchanged shows what is in effect, and putting them back     *)
(* brings it back.                                                         *)
(***************************************************************************)
EXTENDS Budgets, DataLemmas

-----------------------------------------------------------------------------
(* The inductive invariant: rows are well formed, those a plan keeps       *)
(* included, and what a plan showed follows from the rows it keeps.        *)

TemplatesOK(T) == DOMAIN T \subseteq Scope \X Date /\ T \in [DOMAIN T -> BudgetTemplate]
OverridesOK(O) == DOMAIN O \subseteq Scope \X Month /\ O \in [DOMAIN O -> Amount]

OfScope(table, c) == \A k \in DOMAIN table : k[1] = c

PlanOK ==
  plan.pc \in {"proposed", "applied"} =>
    /\ plan.kind \in Kind /\ plan.scope \in Scope /\ plan.month \in Month
    /\ plan.amount \in Amount
    /\ TemplatesOK(plan.before.templates) /\ OfScope(plan.before.templates, plan.scope)
    /\ OverridesOK(plan.before.overrides) /\ OfScope(plan.before.overrides, plan.scope)
    /\ \A q \in Month : EffectiveIn(plan.before.templates, plan.before.overrides, plan.scope, q)
                          = plan.shown[q]

BudgetsInv == TypeOK /\ PlanOK

LEMMA Constants ==
  /\ LastMonth \in Nat /\ MaxEdits \in Nat
  /\ StartsOn \subseteq Date /\ EndsOn \subseteq Date \cup {Null}
  /\ Null \notin Date /\ Null \notin Amount
  /\ Date \subseteq Nat /\ IsFiniteSet(Date)
  /\ \A m \in Month : m \in Nat /\ FirstOf(m) \in Date
<1>1. LastMonth \in Nat
  BY BudgetsAssumption
<1>2. IsFiniteSet(Date) /\ Date \subseteq Nat
  BY <1>1, FS_Interval DEF Date
<1>3. \A m \in Month : m \in Nat /\ FirstOf(m) \in Date
  BY <1>1 DEF Month, FirstOf, Date
<1> QED BY <1>1, <1>2, <1>3, BudgetsAssumption

LEMMA LatestDate ==
  ASSUME NEW S, S \subseteq Date, S # {}
  PROVE  Max(S) \in S /\ \A d \in S : Max(S) >= d
<1>1. S \subseteq Int
  BY Constants
<1>2. IsFiniteSet(S)
  <2>1. IsFiniteSet(Date)
    BY Constants
  <2> QED BY <2>1, FS_Subset
<1> QED BY <1>1, <1>2, MaxInSet

LEMMA EarliestDate ==
  ASSUME NEW S, S \subseteq Date, S # {}
  PROVE  Min(S) \in S /\ \A d \in S : Min(S) <= d
<1>1. S \subseteq Nat
  BY Constants
<1> QED BY <1>1, MinOfNaturals

-----------------------------------------------------------------------------
(* Rows of one scope.                                                      *)

\* Two tables agree on a scope.
Same(T, U, c) ==
  \A d : /\ <<c, d>> \in DOMAIN T <=> <<c, d>> \in DOMAIN U
         /\ <<c, d>> \in DOMAIN T => T[<<c, d>>] = U[<<c, d>>]

\* What is in effect in a scope is decided by its rows.
LEMMA EffectiveOfRows ==
  ASSUME NEW T, NEW U, NEW O, NEW P, NEW c, Same(T, U, c), Same(O, P, c), NEW m
  PROVE  EffectiveIn(T, O, c, m) = EffectiveIn(U, P, c, m)
<1>1. ActiveStarts(T, c, FirstOf(m)) = ActiveStarts(U, c, FirstOf(m))
  BY DEF ActiveStarts, Starts, Reaches, Same
<1>2. \A d \in ActiveStarts(U, c, FirstOf(m)) : T[<<c, d>>] = U[<<c, d>>]
  BY DEF ActiveStarts, Starts, Same
<1>3. ActiveStarts(U, c, FirstOf(m)) # {} =>
        Max(ActiveStarts(U, c, FirstOf(m))) \in ActiveStarts(U, c, FirstOf(m))
  <2>1. ActiveStarts(U, c, FirstOf(m)) \subseteq Date
    BY DEF ActiveStarts, Starts
  <2> QED BY <2>1, LatestDate
<1>4. <<c, m>> \in DOMAIN O <=> <<c, m>> \in DOMAIN P
  BY DEF Same
<1>5. <<c, m>> \in DOMAIN O => O[<<c, m>>] = P[<<c, m>>]
  BY DEF Same
<1> QED BY <1>1, <1>2, <1>3, <1>4, <1>5 DEF EffectiveIn

LEMMA RowsAgree ==
  ASSUME NEW T, NEW O, NEW c
  PROVE  /\ Same(T, RowsOf(T, O, c).templates, c)
         /\ Same(O, RowsOf(T, O, c).overrides, c)
BY DEF Same, RowsOf, Restrict

LEMMA RowsTyped ==
  ASSUME NEW T, NEW O, NEW c, TemplatesOK(T), OverridesOK(O)
  PROVE  /\ TemplatesOK(RowsOf(T, O, c).templates) /\ OfScope(RowsOf(T, O, c).templates, c)
         /\ OverridesOK(RowsOf(T, O, c).overrides) /\ OfScope(RowsOf(T, O, c).overrides, c)
BY DEF TemplatesOK, OverridesOK, OfScope, RowsOf, Restrict

LEMMA ReplacedAgrees ==
  ASSUME NEW table, NEW c, NEW rows, OfScope(rows, c)
  PROVE  Same(Replaced(table, c, rows), rows, c)
BY DEF Same, Replaced, OfScope

-----------------------------------------------------------------------------
(* Well-formed rows stay well formed.                                      *)

LEMMA PutTyped ==
  ASSUME NEW c \in Scope
  PROVE  /\ \A T, d, row : TemplatesOK(T) /\ d \in Date /\ row \in BudgetTemplate
                             => TemplatesOK(Put(T, <<c, d>>, row))
         /\ \A O, m, a : OverridesOK(O) /\ m \in Month /\ a \in Amount
                             => OverridesOK(Put(O, <<c, m>>, a))
BY DEF TemplatesOK, OverridesOK, Put

LEMMA WithoutTyped ==
  ASSUME NEW keys
  PROVE  /\ \A T : TemplatesOK(T) => TemplatesOK(Without(T, keys))
         /\ \A O : OverridesOK(O) => OverridesOK(Without(O, keys))
BY DEF TemplatesOK, OverridesOK, Without, Restrict

LEMMA MovedTyped ==
  ASSUME NEW source \in Scope, NEW target \in Scope
  PROVE  /\ \A T : TemplatesOK(T) => TemplatesOK(Moved(T, source, target))
         /\ \A O : OverridesOK(O) => OverridesOK(Moved(O, source, target))
<1>1. ASSUME NEW table, NEW S, NEW R, DOMAIN table \subseteq Scope \X S,
             table \in [DOMAIN table -> R]
      PROVE  LET M == Moved(table, source, target)
             IN DOMAIN M \subseteq Scope \X S /\ M \in [DOMAIN M -> R]
  <2> DEFINE M == Moved(table, source, target)
             given == {k \in DOMAIN table : k[1] = source}
             key(k) == IF k[1] = target /\ <<source, k[2]>> \in given THEN <<source, k[2]>> ELSE k
             keys == (DOMAIN table \ given) \cup {<<target, g[2]>> : g \in given}
  <2>1. keys \subseteq Scope \X S
    BY <1>1
  <2>2. ASSUME NEW k \in keys PROVE key(k) \in DOMAIN table
    <3>1. CASE k \in DOMAIN table \ given
      BY <3>1
    <3>2. CASE k \in {<<target, g[2]>> : g \in given}
      <4>1. PICK g \in given : k = <<target, g[2]>>
        BY <3>2
      <4>2. g = <<source, g[2]>>
        BY <1>1, <4>1
      <4> QED BY <4>1, <4>2
    <3> QED BY <2>2, <3>1, <3>2
  <2>3. M = [k \in keys |-> table[key(k)]]
    BY DEF Moved
  <2>4. DOMAIN M = keys /\ \A k \in keys : M[k] = table[key(k)]
    BY <2>3
  <2> HIDE DEF keys, key
  <2>5. \A k \in keys : table[key(k)] \in R
    BY <1>1, <2>2
  <2>6. [k \in keys |-> table[key(k)]] \in [keys -> R]
    BY <2>5
  <2> QED BY <2>1, <2>3, <2>4, <2>6
<1> QED BY <1>1 DEF TemplatesOK, OverridesOK

LEMMA ReplacedTyped ==
  ASSUME NEW c
  PROVE  /\ \A T, rows : TemplatesOK(T) /\ TemplatesOK(rows) => TemplatesOK(Replaced(T, c, rows))
         /\ \A O, rows : OverridesOK(O) /\ OverridesOK(rows) => OverridesOK(Replaced(O, c, rows))
BY DEF TemplatesOK, OverridesOK, Replaced

LEMMA WithoutBudgetTyped ==
  ASSUME NEW rows, NEW c, NEW m \in Month,
         TemplatesOK(rows.templates), OfScope(rows.templates, c),
         OverridesOK(rows.overrides), OfScope(rows.overrides, c)
  PROVE  LET left == WithoutBudget(rows, m) IN
         /\ TemplatesOK(left.templates) /\ OfScope(left.templates, c)
         /\ OverridesOK(left.overrides) /\ OfScope(left.overrides, c)
<1> DEFINE T == rows.templates
           kept == {k \in DOMAIN T : StartsBefore(k[2], m)}
<1>1. ASSUME NEW k \in kept PROVE CutAt(T[k], FirstOf(m)) \in BudgetTemplate
  <2>1. T[k] \in BudgetTemplate /\ k[2] \in Date /\ k[2] < FirstOf(m)
    BY <1>1 DEF TemplatesOK, StartsBefore
  <2>2. FirstOf(m) - 1 \in Date
    <3>0. FirstOf(m) \in Date /\ FirstOf(m) \in Nat /\ k[2] \in Nat
      BY <2>1, Constants
    <3>1. FirstOf(m) # 0
      BY <2>1, <3>0
    <3> QED BY <3>0, <3>1, Constants DEF Date
  <2> QED BY <2>1, <2>2 DEF CutAt, BudgetTemplate
<1>2. WithoutBudget(rows, m).templates = [k \in kept |-> CutAt(T[k], FirstOf(m))]
  BY DEF WithoutBudget
<1>3. WithoutBudget(rows, m).overrides
        = Restrict(rows.overrides, {k \in DOMAIN rows.overrides : k[2] < m})
  BY DEF WithoutBudget
<1>4. /\ TemplatesOK(WithoutBudget(rows, m).templates)
      /\ OfScope(WithoutBudget(rows, m).templates, c)
  BY <1>1, <1>2 DEF TemplatesOK, OfScope
<1>5. /\ OverridesOK(WithoutBudget(rows, m).overrides)
      /\ OfScope(WithoutBudget(rows, m).overrides, c)
  BY <1>3 DEF OverridesOK, OfScope, Restrict
<1> QED BY <1>4, <1>5

\* The end of an applied template is before the next one starts.
LEMMA EndBeforeNext ==
  ASSUME NEW T, NEW c, NEW starts \in Date, NEW end \in Date \cup {Null}
  PROVE  LET e == EndsBeforeNext(T, c, starts, end) IN
         /\ e \in Date \cup {Null}
         /\ \A d \in Starts(T, c) : d > starts => e # Null /\ e < d
<1> DEFINE later == {d \in Starts(T, c) : d > starts}
<1>1. later \subseteq Date
  BY DEF Starts
<1>2. CASE later = {}
  BY <1>2 DEF EndsBeforeNext
<1>3. CASE later # {}
  <2>1. Min(later) \in later /\ \A d \in later : Min(later) <= d
    <3> HIDE DEF later
    <3> QED BY <1>1, <1>3, EarliestDate
  <2>2. Min(later) \in Nat /\ starts \in Nat /\ Min(later) > starts /\ Min(later) \in Date
    BY <1>1, <2>1, Constants
  <2>3. Min(later) - 1 \in Date
    BY <2>2, Constants DEF Date
  <2>4. EndsBeforeNext(T, c, starts, end) = EarlierEnd(end, Min(later))
    BY <1>3 DEF EndsBeforeNext
  <2> DEFINE e == EarlierEnd(end, Min(later))
  <2>5. e \in Date /\ e <= Min(later) - 1
    BY <2>2, <2>3, Constants DEF EarlierEnd
  <2>6. \A d \in later : d \in Nat /\ e < d
    <3> HIDE DEF e, later
    <3> QED BY <1>1, <2>1, <2>2, <2>5, Constants
  <2>7. e # Null
    BY <2>5, Constants
  <2> HIDE DEF e
  <2> QED BY <2>4, <2>5, <2>6, <2>7 DEF e
<1> QED BY <1>2, <1>3

-----------------------------------------------------------------------------
(* A template applied from a month on.                                     *)

NewTemplate(T, c, s, a, end) == [amount |-> a, ends |-> EndsBeforeNext(T, c, s, end)]

EndedAt(T, c, d, end) == [T EXCEPT ![<<c, d>>].ends = end]

\* The three ways it goes: its amount replaces that of the template with this start,
\* or a new one starts, and ends the one in effect if there is one.
Replaces(T, U, c, s, a) == s \in Starts(T, c) /\ U = [T EXCEPT ![<<c, s>>].amount = a]

Begins(T, U, c, s, a) ==
  /\ s \notin Starts(T, c) /\ ActiveStarts(T, c, s) = {}
  /\ U = Put(T, <<c, s>>, NewTemplate(T, c, s, a, Null))

Succeeds(T, U, c, s, a, d) ==
  /\ s \notin Starts(T, c) /\ d \in ActiveStarts(T, c, s)
  /\ d < s /\ s - 1 \in Date
  /\ \A x \in ActiveStarts(T, c, s) : x <= d
  /\ U = Put(EndedAt(T, c, d, s - 1), <<c, s>>, NewTemplate(T, c, s, a, T[<<c, d>>].ends))

LEMMA AppliedFromCases ==
  ASSUME NEW T, TemplatesOK(T), NEW c \in Scope, NEW m \in Month, NEW a \in Amount
  PROVE  LET s == FirstOf(m)
             U == AppliedFrom(T, c, m, a)
         IN Replaces(T, U, c, s, a) \/ Begins(T, U, c, s, a) \/ \E d : Succeeds(T, U, c, s, a, d)
<1> DEFINE s == FirstOf(m)
           U == AppliedFrom(T, c, m, a)
           active == ActiveStarts(T, c, s)
           d == Max(active)
<1>1. active \subseteq Date
  BY DEF ActiveStarts, Starts
<1>2. CASE s \in Starts(T, c)
  BY <1>2 DEF AppliedFrom, Replaces
<1>3. CASE s \notin Starts(T, c) /\ active = {}
  BY <1>3 DEF AppliedFrom, Begins, NewTemplate
<1>4. CASE s \notin Starts(T, c) /\ active # {}
  <2>1. d \in active /\ \A x \in active : d >= x
    <3> HIDE DEF active
    <3> QED BY <1>1, <1>4, LatestDate
  <2>2. s \in Date /\ s \in Nat /\ d \in Nat /\ \A x \in active : x \in Nat
    BY <1>1, <2>1, Constants
  <2>3. d <= s /\ d \in Starts(T, c)
    BY <2>1 DEF ActiveStarts
  <2>4. d < s
    BY <1>4, <2>2, <2>3
  <2>5. s - 1 \in Date
    BY <2>2, <2>4, Constants DEF Date
  <2>6. \A x \in active : x <= d
    <3> HIDE DEF active, d
    <3> QED BY <2>1, <2>2
  <2>7. U = Put(EndedAt(T, c, d, s - 1), <<c, s>>, NewTemplate(T, c, s, a, T[<<c, d>>].ends))
    BY <1>4 DEF AppliedFrom, EndedAt, NewTemplate
  <2>8. Succeeds(T, U, c, s, a, d)
    <3> HIDE DEF s, U, d
    <3> QED BY <1>4, <2>1, <2>4, <2>5, <2>6, <2>7 DEF Succeeds
  <2> QED BY <2>8
<1> QED BY <1>2, <1>3, <1>4

LEMMA NewTemplateFacts ==
  ASSUME NEW T, NEW c, NEW s \in Date, NEW a \in Amount, NEW end \in Date \cup {Null}
  PROVE  LET row == NewTemplate(T, c, s, a, end) IN
         /\ row \in BudgetTemplate
         /\ \A d \in Starts(T, c) : d > s => row.ends # Null /\ row.ends < d
BY EndBeforeNext DEF NewTemplate, BudgetTemplate

\* A new template between disjoint ones, whose end is before the next, overlaps none if
\* none of the others reaches its start.
LEMMA NewDisjoint ==
  ASSUME NEW T, TemplatesOK(T), NEW c, NEW s \in Date, s \notin Starts(T, c), Disjoint(T, c),
         \A d \in Starts(T, c) : d < s => ~Reaches(T, c, d, s),
         NEW row, \A d \in Starts(T, c) : d > s => row.ends # Null /\ row.ends < d,
         row.ends \in Date \cup {Null}
  PROVE  Disjoint(Put(T, <<c, s>>, row), c)
<1> DEFINE U == Put(T, <<c, s>>, row)
<1>1. /\ Starts(U, c) = Starts(T, c) \cup {s}
      /\ U[<<c, s>>] = row
      /\ \A d \in Starts(T, c) : U[<<c, d>>] = T[<<c, d>>]
  BY DEF Put, Starts
<1>2. \A d \in Starts(T, c) \cup {s} : d \in Nat
  BY Constants DEF Starts
<1> HIDE DEF U
<1>3. SUFFICES ASSUME NEW d \in Starts(U, c), NEW e \in Starts(U, c), Overlap(U, c, d, e)
               PROVE  FALSE
  BY DEF Disjoint, U
<1>4. CASE d # s /\ e # s
  <2>1. d \in Starts(T, c) /\ e \in Starts(T, c) /\ U[<<c, d>>] = T[<<c, d>>]
    BY <1>1, <1>4
  <2> QED BY <1>3, <2>1 DEF Disjoint, Overlap, Reaches
<1>5. CASE d = s
  <2>1. e \in Starts(T, c) /\ e > s /\ e \in Nat
    BY <1>1, <1>2, <1>3, <1>5 DEF Overlap
  <2>2. row.ends # Null /\ row.ends < e /\ row.ends \in Nat
    BY <2>1, Constants
  <2> QED BY <1>1, <1>3, <1>5, <2>1, <2>2 DEF Overlap, Reaches
<1>6. CASE d # s /\ e = s
  <2>1. d \in Starts(T, c) /\ d < s /\ U[<<c, d>>] = T[<<c, d>>]
    BY <1>1, <1>3, <1>6 DEF Overlap
  <2> QED BY <1>3, <1>6, <2>1 DEF Overlap, Reaches
<1> QED BY <1>4, <1>5, <1>6

LEMMA ReplacesFacts ==
  ASSUME NEW T, TemplatesOK(T), NEW U, NEW c \in Scope, NEW s \in Date, NEW a \in Amount,
         Replaces(T, U, c, s, a)
  PROVE  TemplatesOK(U) /\ (Disjoint(T, c) => Disjoint(U, c))
<1>1. TemplatesOK(U)
  BY DEF Replaces, TemplatesOK, BudgetTemplate, Starts
<1>2. /\ Starts(U, c) = Starts(T, c)
      /\ \A d \in Starts(T, c) : U[<<c, d>>].ends = T[<<c, d>>].ends
  BY DEF Replaces, Starts, TemplatesOK, BudgetTemplate
<1>3. Disjoint(T, c) => Disjoint(U, c)
  BY <1>2 DEF Disjoint, Overlap, Reaches
<1> QED BY <1>1, <1>3

LEMMA BeginsFacts ==
  ASSUME NEW T, TemplatesOK(T), NEW U, NEW c \in Scope, NEW s \in Date, NEW a \in Amount,
         Begins(T, U, c, s, a)
  PROVE  TemplatesOK(U) /\ (Disjoint(T, c) => Disjoint(U, c))
<1> DEFINE row == NewTemplate(T, c, s, a, Null)
<1>1. row \in BudgetTemplate /\ \A d \in Starts(T, c) : d > s => row.ends # Null /\ row.ends < d
  BY NewTemplateFacts
<1>2. row.ends \in Date \cup {Null} /\ U = Put(T, <<c, s>>, row) /\ s \notin Starts(T, c)
  BY <1>1 DEF BudgetTemplate, Begins
<1>3. \A d \in Starts(T, c) : d < s => ~Reaches(T, c, d, s)
  <2>1. \A d \in Starts(T, c) : d \in Nat
    BY Constants DEF Starts
  <2>2. s \in Nat
    BY Constants
  <2> QED BY <2>1, <2>2 DEF ActiveStarts, Begins
<1> HIDE DEF row
<1>4. TemplatesOK(U)
  BY <1>1, <1>2, PutTyped
<1>5. Disjoint(T, c) => Disjoint(U, c)
  BY <1>1, <1>2, <1>3, NewDisjoint
<1> QED BY <1>4, <1>5

LEMMA SucceedsFacts ==
  ASSUME NEW T, TemplatesOK(T), NEW U, NEW c \in Scope, NEW s \in Date, NEW a \in Amount,
         NEW d, Succeeds(T, U, c, s, a, d)
  PROVE  TemplatesOK(U) /\ (Disjoint(T, c) => Disjoint(U, c))
<1> DEFINE V == EndedAt(T, c, d, s - 1)
           row == NewTemplate(T, c, s, a, T[<<c, d>>].ends)
<1>1. /\ d \in Starts(T, c) /\ d \in ActiveStarts(T, c, s) /\ Reaches(T, c, d, s)
      /\ <<c, d>> \in DOMAIN T /\ T[<<c, d>>] \in BudgetTemplate
  BY DEF Succeeds, ActiveStarts, Starts, TemplatesOK
<1>2. d < s /\ s - 1 \in Date /\ s \notin Starts(T, c) /\ s - 1 # Null /\ s \in Nat
  BY Constants DEF Succeeds
<1>3. /\ Starts(V, c) = Starts(T, c)
      /\ \A e \in Starts(T, c) \ {d} : V[<<c, e>>] = T[<<c, e>>]
      /\ V[<<c, d>>].ends = s - 1
      /\ TemplatesOK(V)
  BY <1>1, <1>2 DEF EndedAt, Starts, TemplatesOK, BudgetTemplate
<1>4. T[<<c, d>>].ends \in Date \cup {Null}
  BY <1>1 DEF BudgetTemplate
<1>5. row \in BudgetTemplate /\ \A e \in Starts(T, c) : e > s => row.ends # Null /\ row.ends < e
  BY <1>4, NewTemplateFacts
<1>6. row.ends \in Date \cup {Null} /\ U = Put(V, <<c, s>>, row)
  BY <1>5 DEF BudgetTemplate, Succeeds
<1> HIDE DEF V, row
<1>7. TemplatesOK(U)
  BY <1>3, <1>5, <1>6, PutTyped
<1>8. ASSUME NEW e \in Starts(T, c)
      PROVE  /\ e \in Nat
             /\ T[<<c, e>>].ends # Null => T[<<c, e>>].ends \in Nat
  <2>1. e \in Date /\ T[<<c, e>>] \in BudgetTemplate
    BY DEF Starts, TemplatesOK
  <2> QED BY <2>1, Constants DEF BudgetTemplate
<1>9. ASSUME Disjoint(T, c) PROVE Disjoint(U, c)
  \* Only the one that was ended reached the new start.
  <2>1. ASSUME NEW e \in Starts(T, c), e < s, Reaches(V, c, e, s)
        PROVE  FALSE
    <3>0. /\ e \in Nat /\ d \in Nat /\ e <= s
          /\ T[<<c, e>>].ends # Null => T[<<c, e>>].ends \in Nat
      BY <1>1, <1>2, <1>8, <2>1
    <3>1. CASE e = d
      BY <1>2, <1>3, <2>1, <3>1 DEF Reaches
    <3>2. CASE e # d
      <4>1. Reaches(T, c, e, s)
        BY <1>3, <2>1, <3>2 DEF Reaches
      <4>2. e \in ActiveStarts(T, c, s)
        BY <3>0, <4>1 DEF ActiveStarts
      <4>3. e < d
        <5>1. e <= d
          BY <4>2 DEF Succeeds
        <5> QED BY <3>0, <3>2, <5>1
      <4>4. Reaches(T, c, e, d)
        BY <1>2, <3>0, <4>1 DEF Reaches
      <4> QED BY <1>1, <1>9, <4>3, <4>4 DEF Disjoint, Overlap
    <3> QED BY <3>1, <3>2
  <2>2. ASSUME NEW x \in Starts(T, c), NEW y \in Starts(T, c), Overlap(V, c, x, y)
        PROVE  FALSE
    <3>1. CASE x # d
      <4>1. Overlap(T, c, x, y)
        BY <1>3, <2>2, <3>1 DEF Overlap, Reaches
      <4> QED BY <1>9, <4>1 DEF Disjoint
    <3>2. CASE x = d
      <4>1. d < y /\ y <= s - 1
        BY <1>2, <1>3, <2>2, <3>2 DEF Overlap, Reaches
      <4>2. Reaches(T, c, d, y)
        <5>1. y \in Nat /\ (T[<<c, d>>].ends # Null => T[<<c, d>>].ends \in Nat)
          BY <1>1, <1>8
        <5> QED BY <1>1, <1>2, <4>1, <5>1 DEF Reaches
      <4> QED BY <1>1, <1>9, <4>1, <4>2 DEF Disjoint, Overlap
    <3> QED BY <3>1, <3>2
  <2>3. Disjoint(V, c)
    BY <1>3, <2>2 DEF Disjoint
  <2>4. /\ s \notin Starts(V, c)
        /\ \A e \in Starts(V, c) : e < s => ~Reaches(V, c, e, s)
        /\ \A e \in Starts(V, c) : e > s => row.ends # Null /\ row.ends < e
    BY <1>2, <1>3, <1>5, <2>1
  <2> QED BY <1>3, <1>6, <2>3, <2>4, NewDisjoint
<1> QED BY <1>7, <1>9

LEMMA AppliedFromFacts ==
  ASSUME NEW T, TemplatesOK(T), NEW c \in Scope, NEW m \in Month, NEW a \in Amount
  PROVE  LET U == AppliedFrom(T, c, m, a)
         IN TemplatesOK(U) /\ (Disjoint(T, c) => Disjoint(U, c))
<1> DEFINE s == FirstOf(m)
           U == AppliedFrom(T, c, m, a)
<1>1. s \in Date
  BY Constants
<1>2. Replaces(T, U, c, s, a) \/ Begins(T, U, c, s, a) \/ \E d : Succeeds(T, U, c, s, a, d)
  BY AppliedFromCases
<1> HIDE DEF s, U
<1>3. TemplatesOK(U) /\ (Disjoint(T, c) => Disjoint(U, c))
  BY <1>1, <1>2, ReplacesFacts, BeginsFacts, SucceedsFacts
<1> QED BY <1>3 DEF U

-----------------------------------------------------------------------------
(* Every step keeps the invariant.                                         *)

LEMMA RestoredFacts ==
  ASSUME BudgetsInv, plan.pc \in {"proposed", "applied"}, NEW rows,
         TemplatesOK(rows.templates), OfScope(rows.templates, plan.scope),
         OverridesOK(rows.overrides), OfScope(rows.overrides, plan.scope),
         Restored(rows)
  PROVE  /\ TemplatesOK(templates') /\ OverridesOK(overrides')
         /\ \A q \in Month : EffectiveIn(templates', overrides', plan.scope, q)
                               = EffectiveIn(rows.templates, rows.overrides, plan.scope, q)
<1>1. /\ templates' = Replaced(templates, plan.scope, rows.templates)
      /\ overrides' = Replaced(overrides, plan.scope, rows.overrides)
  BY DEF Restored, RestoredOverrides
<1>2. TemplatesOK(templates) /\ OverridesOK(overrides)
  BY DEF BudgetsInv, TypeOK, TemplatesOK, OverridesOK
<1>3. TemplatesOK(templates') /\ OverridesOK(overrides')
  BY <1>1, <1>2, ReplacedTyped
<1>4. /\ Same(templates', rows.templates, plan.scope)
      /\ Same(overrides', rows.overrides, plan.scope)
  BY <1>1, ReplacedAgrees
<1> QED BY <1>3, <1>4, EffectiveOfRows

LEMMA ApplyTyped ==
  ASSUME BudgetsInv, Apply
  PROVE  TemplatesOK(templates') /\ OverridesOK(overrides')
<1>1. TemplatesOK(templates) /\ OverridesOK(overrides)
  BY DEF BudgetsInv, TypeOK, TemplatesOK, OverridesOK
<1>2. /\ plan.pc = "proposed" /\ plan.kind \in Kind /\ plan.scope \in Scope
      /\ plan.month \in Month /\ plan.amount \in Amount
      /\ TemplatesOK(plan.before.templates) /\ OfScope(plan.before.templates, plan.scope)
      /\ OverridesOK(plan.before.overrides) /\ OfScope(plan.before.overrides, plan.scope)
  BY DEF BudgetsInv, PlanOK, Apply
<1>3. CASE plan.kind = "month"
  <2>1. /\ overrides' = Put(overrides, <<plan.scope, plan.month>>, plan.amount)
        /\ templates' = templates
    BY <1>3 DEF Apply
  <2> QED BY <1>1, <1>2, <2>1, PutTyped
<1>4. CASE plan.kind = "onward"
  <2>1. /\ templates' = AppliedFrom(templates, plan.scope, plan.month, plan.amount)
        /\ overrides' = Without(overrides, {<<plan.scope, plan.month>>})
    BY <1>4 DEF Apply, OverridesFrom
  <2> QED BY <1>1, <1>2, <2>1, AppliedFromFacts, WithoutTyped
<1>5. CASE plan.kind = "remove"
  <2>1. Restored(WithoutBudget(plan.before, plan.month))
    BY <1>5 DEF Apply
  <2> DEFINE left == WithoutBudget(plan.before, plan.month)
  <2>2. /\ TemplatesOK(left.templates) /\ OfScope(left.templates, plan.scope)
        /\ OverridesOK(left.overrides) /\ OfScope(left.overrides, plan.scope)
    BY <1>2, WithoutBudgetTyped
  <2> HIDE DEF left
  <2> QED BY <1>2, <2>1, <2>2, RestoredFacts DEF left
<1> QED BY <1>2, <1>3, <1>4, <1>5 DEF Kind

LEMMA ProposeKeeps ==
  ASSUME BudgetsInv, NEW kind \in Kind, NEW c \in Scope, NEW m \in Month, NEW a \in Amount,
         Propose(kind, c, m, a)
  PROVE  PlanOK'
<1> DEFINE before == RowsOf(templates, overrides, c)
<1>1. plan' = [pc |-> "proposed", kind |-> kind, scope |-> c, month |-> m, amount |-> a,
               before |-> before, shown |-> [q \in Month |-> Effective(c, q)]]
  BY DEF Propose
<1>2. TemplatesOK(templates) /\ OverridesOK(overrides)
  BY DEF BudgetsInv, TypeOK, TemplatesOK, OverridesOK
<1>3. /\ TemplatesOK(before.templates) /\ OfScope(before.templates, c)
      /\ OverridesOK(before.overrides) /\ OfScope(before.overrides, c)
  BY <1>2, RowsTyped
<1>4. \A q \in Month : EffectiveIn(before.templates, before.overrides, c, q) = Effective(c, q)
  BY RowsAgree, EffectiveOfRows DEF Effective
<1> HIDE DEF before
<1> QED BY <1>1, <1>3, <1>4 DEF PlanOK

LEMMA InitInv == Init => BudgetsInv
BY Constants DEF Init, BudgetsInv, TypeOK, PlanOK, NoPlan

LEMMA EditTyped == ASSUME TypeOK, Edit PROVE edits' \in 0..MaxEdits
BY Constants DEF TypeOK, Edit

LEMMA NextInv == BudgetsInv /\ [Next]_vars => BudgetsInv'
<1> SUFFICES ASSUME BudgetsInv, [Next]_vars PROVE BudgetsInv'
  OBVIOUS
<1>1. TemplatesOK(templates) /\ OverridesOK(overrides) /\ edits \in 0..MaxEdits
      /\ plan.pc \in {"none", "proposed", "applied"}
  BY DEF BudgetsInv, TypeOK, TemplatesOK, OverridesOK
<1>2. ASSUME TemplatesOK(templates'), OverridesOK(overrides'), edits' \in 0..MaxEdits,
             plan'.pc \in {"none", "proposed", "applied"}, PlanOK'
      PROVE  BudgetsInv'
  BY <1>2 DEF BudgetsInv, TypeOK, TemplatesOK, OverridesOK
<1>3. UNCHANGED plan => PlanOK'
  BY DEF BudgetsInv, PlanOK
<1>4. ASSUME NEW c \in Scope, NEW d \in StartsOn, NEW a \in Amount, NEW e \in EndsOn,
             UpsertTemplate(c, d, e, a)
      PROVE  BudgetsInv'
  <2>1. [amount |-> a, ends |-> e] \in BudgetTemplate /\ d \in Date
    BY Constants DEF BudgetTemplate
  <2>2. TemplatesOK(templates')
    BY <1>1, <1>4, <2>1, PutTyped DEF UpsertTemplate
  <2>3. edits' \in 0..MaxEdits
    BY <1>4, EditTyped DEF UpsertTemplate, BudgetsInv
  <2> QED BY <1>1, <1>2, <1>3, <1>4, <2>2, <2>3 DEF UpsertTemplate
<1>5. ASSUME NEW c \in Scope, NEW m \in Month, NEW a \in Amount, ApplyFrom(c, m, a)
      PROVE  BudgetsInv'
  <2>1. TemplatesOK(templates') /\ OverridesOK(overrides')
    BY <1>1, <1>5, AppliedFromFacts, WithoutTyped DEF ApplyFrom, OverridesFrom
  <2>2. edits' \in 0..MaxEdits
    BY <1>5, EditTyped DEF ApplyFrom, BudgetsInv
  <2> QED BY <1>1, <1>2, <1>3, <1>5, <2>1, <2>2 DEF ApplyFrom
<1>6. ASSUME NEW c \in Scope, NEW m \in Month, NEW a \in Amount, UpsertOverride(c, m, a)
      PROVE  BudgetsInv'
  <2>1. OverridesOK(overrides')
    BY <1>1, <1>6, PutTyped DEF UpsertOverride
  <2>2. edits' \in 0..MaxEdits
    BY <1>6, EditTyped DEF UpsertOverride, BudgetsInv
  <2> QED BY <1>1, <1>2, <1>3, <1>6, <2>1, <2>2 DEF UpsertOverride
<1>7. ASSUME NEW key, DeleteTemplate(key)
      PROVE  BudgetsInv'
  <2>1. TemplatesOK(templates')
    BY <1>1, <1>7, WithoutTyped DEF DeleteTemplate
  <2>2. edits' \in 0..MaxEdits
    BY <1>7, EditTyped DEF DeleteTemplate, BudgetsInv
  <2> QED BY <1>1, <1>2, <1>3, <1>7, <2>1, <2>2 DEF DeleteTemplate
<1>8. ASSUME NEW key, DeleteOverride(key)
      PROVE  BudgetsInv'
  <2>1. OverridesOK(overrides')
    BY <1>1, <1>8, WithoutTyped DEF DeleteOverride
  <2>2. edits' \in 0..MaxEdits
    BY <1>8, EditTyped DEF DeleteOverride, BudgetsInv
  <2> QED BY <1>1, <1>2, <1>3, <1>8, <2>1, <2>2 DEF DeleteOverride
<1>9. ASSUME NEW source \in Scope, NEW target \in Scope, Merge(source, target)
      PROVE  BudgetsInv'
  <2>1. TemplatesOK(templates') /\ OverridesOK(overrides')
    BY <1>1, <1>9, MovedTyped DEF Merge
  <2>2. edits' \in 0..MaxEdits
    BY <1>9, EditTyped DEF Merge, BudgetsInv
  <2> QED BY <1>1, <1>2, <1>3, <1>9, <2>1, <2>2 DEF Merge
<1>10. ASSUME NEW kind \in Kind, NEW c \in Scope, NEW m \in Month, NEW a \in Amount,
              Propose(kind, c, m, a)
       PROVE  BudgetsInv'
  <2>1. PlanOK'
    BY <1>10, ProposeKeeps
  <2>2. edits' \in 0..MaxEdits
    BY <1>10, EditTyped DEF Propose, BudgetsInv
  <2>3. plan'.pc = "proposed" /\ UNCHANGED <<templates, overrides>>
    BY <1>10 DEF Propose
  <2> QED BY <1>1, <1>2, <2>1, <2>2, <2>3
<1>11. CASE Dismiss
  <2>1. plan'.pc = "none" /\ UNCHANGED <<templates, overrides, edits>>
    BY <1>11 DEF Dismiss, NoPlan
  <2> QED BY <1>1, <1>2, <2>1 DEF PlanOK
<1>12. CASE Apply
  <2>1. TemplatesOK(templates') /\ OverridesOK(overrides')
    BY <1>12, ApplyTyped
  <2>2. /\ plan.pc = "proposed" /\ plan'.pc = "applied" /\ plan'.kind = plan.kind
        /\ plan'.scope = plan.scope /\ plan'.month = plan.month /\ plan'.amount = plan.amount
        /\ plan'.before = plan.before /\ plan'.shown = plan.shown /\ UNCHANGED edits
    BY <1>12 DEF Apply
  <2>3. PlanOK'
    BY <2>2 DEF BudgetsInv, PlanOK
  <2> QED BY <1>1, <1>2, <2>1, <2>2, <2>3
<1>13. CASE Undo
  <2>1. plan.pc = "applied" /\ Restored(plan.before) /\ plan'.pc = "none" /\ UNCHANGED edits
    BY <1>13 DEF Undo, NoPlan
  <2>2. TemplatesOK(templates') /\ OverridesOK(overrides')
    BY <2>1, RestoredFacts DEF BudgetsInv, PlanOK
  <2> QED BY <1>1, <1>2, <2>1, <2>2 DEF PlanOK
<1>14. CASE UNCHANGED vars
  BY <1>1, <1>2, <1>3, <1>14 DEF vars
<1> QED BY <1>4, <1>5, <1>6, <1>7, <1>8, <1>9, <1>10, <1>11, <1>12, <1>13, <1>14 DEF Next

-----------------------------------------------------------------------------
(* What is in effect once a budget ends, and once categories are merged.   *)

LEMMA RemovedEffect ==
  ASSUME NEW rows, NEW c, NEW m \in Month, NEW q \in Month, TemplatesOK(rows.templates)
  PROVE  EffectiveIn(WithoutBudget(rows, m).templates, WithoutBudget(rows, m).overrides, c, q)
           = IF q < m THEN EffectiveIn(rows.templates, rows.overrides, c, q) ELSE Null
<1> DEFINE T == rows.templates
           O == rows.overrides
           U == WithoutBudget(rows, m).templates
           P == WithoutBudget(rows, m).overrides
<1>1. /\ q \in Nat /\ m \in Nat /\ FirstOf(q) = 2 * q /\ FirstOf(m) = 2 * m
      /\ FirstOf(m) \in Date
  BY Constants DEF FirstOf
<1>2. /\ <<c, q>> \in DOMAIN P <=> <<c, q>> \in DOMAIN O /\ q < m
      /\ <<c, q>> \in DOMAIN P => P[<<c, q>>] = O[<<c, q>>]
  BY DEF WithoutBudget, Restrict
<1>3. /\ Starts(U, c) = {d \in Starts(T, c) : d < FirstOf(m)}
      /\ \A d \in Starts(U, c) : U[<<c, d>>] = CutAt(T[<<c, d>>], FirstOf(m))
  BY DEF WithoutBudget, StartsBefore, Starts
<1>4. ASSUME NEW d \in Starts(U, c)
      PROVE  /\ U[<<c, d>>].amount = T[<<c, d>>].amount
             /\ q < m => (Reaches(U, c, d, FirstOf(q)) <=> Reaches(T, c, d, FirstOf(q)))
             /\ ~(q < m) => ~Reaches(U, c, d, FirstOf(q))
  <2>1. T[<<c, d>>] \in BudgetTemplate
    BY <1>3 DEF TemplatesOK, Starts
  <2> DEFINE end == T[<<c, d>>].ends
  <2>2. end = Null \/ end \in Nat
    BY <2>1, Constants DEF BudgetTemplate
  <2>3. CASE end # Null /\ end < FirstOf(m)
    <3>1. U[<<c, d>>] = T[<<c, d>>]
      BY <1>3, <2>3 DEF CutAt
    <3>2. ~(q < m) => end < FirstOf(q)
      BY <1>1, <2>2, <2>3
    <3> QED BY <1>1, <2>2, <2>3, <3>1, <3>2 DEF Reaches
  <2>4. CASE ~(end # Null /\ end < FirstOf(m))
    <3>1. U[<<c, d>>] = [T[<<c, d>>] EXCEPT !.ends = FirstOf(m) - 1]
      BY <1>3, <2>4 DEF CutAt
    <3>2. U[<<c, d>>].amount = T[<<c, d>>].amount /\ U[<<c, d>>].ends = FirstOf(m) - 1
      BY <2>1, <3>1 DEF BudgetTemplate
    <3>3. q < m => end = Null \/ end >= FirstOf(q)
      BY <1>1, <2>2, <2>4
    <3> HIDE DEF U, end
    <3>4. q < m => Reaches(U, c, d, FirstOf(q))
      BY <1>1, <3>2 DEF Reaches
    <3>5. ~(q < m) => ~Reaches(U, c, d, FirstOf(q))
      <4>1. d \in Nat /\ d < FirstOf(m)
        BY <1>3, Constants DEF Starts
      <4>2. FirstOf(m) - 1 \in Date
        BY <1>1, <4>1, Constants DEF Date
      <4>3. FirstOf(m) - 1 # Null
        BY <4>2, Constants
      <4> QED BY <1>1, <3>2, <4>3 DEF Reaches
    <3>6. q < m => Reaches(T, c, d, FirstOf(q))
      BY <3>3 DEF Reaches, end
    <3> QED BY <3>2, <3>4, <3>5, <3>6
  <2> QED BY <2>3, <2>4
<1> HIDE DEF U, P
<1>5. CASE q < m
  <2>1. ActiveStarts(U, c, FirstOf(q)) = ActiveStarts(T, c, FirstOf(q))
    <3>1. \A d \in Starts(T, c) : d \in Nat
      BY Constants DEF Starts
    <3>2. \A d \in Starts(T, c) : d <= FirstOf(q) => d \in Starts(U, c)
      BY <1>1, <1>3, <1>5, <3>1
    <3> QED BY <1>3, <1>4, <1>5, <3>2 DEF ActiveStarts
  <2>2. ActiveStarts(U, c, FirstOf(q)) # {} =>
          U[<<c, Max(ActiveStarts(U, c, FirstOf(q)))>>].amount
            = T[<<c, Max(ActiveStarts(U, c, FirstOf(q)))>>].amount
    <3>1. ActiveStarts(U, c, FirstOf(q)) \subseteq Date
      BY DEF ActiveStarts, Starts
    <3>2. ActiveStarts(U, c, FirstOf(q)) # {} =>
            Max(ActiveStarts(U, c, FirstOf(q))) \in Starts(U, c)
      BY <3>1, LatestDate DEF ActiveStarts
    <3> QED BY <1>4, <3>2
  <2>3. EffectiveIn(U, P, c, q) = EffectiveIn(T, O, c, q)
    BY <1>2, <1>5, <2>1, <2>2 DEF EffectiveIn
  <2> QED BY <1>5, <2>3 DEF U, P
<1>6. CASE ~(q < m)
  <2>1. ActiveStarts(U, c, FirstOf(q)) = {}
    BY <1>4, <1>6 DEF ActiveStarts
  <2>2. EffectiveIn(U, P, c, q) = Null
    BY <1>2, <1>6, <2>1 DEF EffectiveIn
  <2> QED BY <1>6, <2>2 DEF U, P
<1> QED BY <1>5, <1>6

\* The rows of two scopes without a conflict, once one is given to the other.
LEMMA MovedRows ==
  ASSUME NEW table, NEW S, DOMAIN table \subseteq Scope \X S, NEW s \in Scope, NEW t \in Scope,
         s # t, ~Conflict(table, s, t), NEW d
  PROVE  LET M == Moved(table, s, t) IN
         /\ <<s, d>> \notin DOMAIN M
         /\ <<t, d>> \in DOMAIN M <=> <<s, d>> \in DOMAIN table \/ <<t, d>> \in DOMAIN table
         /\ <<s, d>> \in DOMAIN table => M[<<t, d>>] = table[<<s, d>>]
         /\ <<t, d>> \in DOMAIN table => M[<<t, d>>] = table[<<t, d>>]
<1> DEFINE M == Moved(table, s, t)
           given == {k \in DOMAIN table : k[1] = s}
           key(k) == IF k[1] = t /\ <<s, k[2]>> \in given THEN <<s, k[2]>> ELSE k
           keys == (DOMAIN table \ given) \cup {<<t, g[2]>> : g \in given}
<1>1. M = [k \in keys |-> table[key(k)]]
  BY DEF Moved
<1>2. \A x : <<s, x>> \in given <=> <<s, x>> \in DOMAIN table
  OBVIOUS
<1>3. \A g \in given : g = <<s, g[2]>>
  OBVIOUS
<1>4. <<s, d>> \notin keys
  BY <1>2
<1>5. <<t, d>> \in keys <=> <<s, d>> \in DOMAIN table \/ <<t, d>> \in DOMAIN table
  <2>1. <<t, d>> \in {<<t, g[2]>> : g \in given} <=> <<s, d>> \in DOMAIN table
    <3>1. ASSUME NEW g \in given, <<t, d>> = <<t, g[2]>>
          PROVE  <<s, d>> \in DOMAIN table
      BY <1>3, <3>1
    <3>2. ASSUME <<s, d>> \in DOMAIN table
          PROVE  \E g \in given : <<t, d>> = <<t, g[2]>>
      BY <1>2, <3>2
    <3> QED BY <3>1, <3>2
  <2>2. <<t, d>> \in DOMAIN table \ given <=> <<t, d>> \in DOMAIN table
    OBVIOUS
  <2> QED BY <2>1, <2>2
<1>6. <<s, d>> \in DOMAIN table => key(<<t, d>>) = <<s, d>>
  BY <1>2
<1>7. <<s, d>> \notin DOMAIN table => key(<<t, d>>) = <<t, d>>
  BY <1>2
<1>8. <<s, d>> \in DOMAIN table => <<t, d>> \notin DOMAIN table
  BY DEF Conflict
<1> HIDE DEF keys, key, M
<1>9. DOMAIN M = keys /\ \A k \in keys : M[k] = table[key(k)]
  BY <1>1
<1>10. /\ <<s, d>> \notin DOMAIN M
       /\ <<t, d>> \in DOMAIN M <=> <<s, d>> \in DOMAIN table \/ <<t, d>> \in DOMAIN table
       /\ <<s, d>> \in DOMAIN table => M[<<t, d>>] = table[<<s, d>>]
       /\ <<t, d>> \in DOMAIN table => M[<<t, d>>] = table[<<t, d>>]
  BY <1>4, <1>5, <1>6, <1>7, <1>8, <1>9
<1> QED BY <1>10 DEF M

LEMMA MergedEffect ==
  ASSUME NEW T, NEW O, TemplatesOK(T), OverridesOK(O), NEW s \in Scope, NEW t \in Scope, s # t,
         ~Conflict(T, s, t), ~Conflict(O, s, t), NEW q \in Month
  PROVE  LET of(c) == EffectiveIn(T, O, c, q)
             after(c) == EffectiveIn(Moved(T, s, t), Moved(O, s, t), c, q)
         IN /\ after(s) = Null
            /\ after(t) \in {of(s), of(t)}
            /\ after(t) = Null => of(s) = Null /\ of(t) = Null
<1> DEFINE U == Moved(T, s, t)
           P == Moved(O, s, t)
           of(c) == EffectiveIn(T, O, c, q)
           A == ActiveStarts(T, s, FirstOf(q))
           B == ActiveStarts(T, t, FirstOf(q))
<1>1. ASSUME NEW d
      PROVE  /\ <<s, d>> \notin DOMAIN U
             /\ <<t, d>> \in DOMAIN U <=> <<s, d>> \in DOMAIN T \/ <<t, d>> \in DOMAIN T
             /\ <<s, d>> \in DOMAIN T => U[<<t, d>>] = T[<<s, d>>]
             /\ <<t, d>> \in DOMAIN T => U[<<t, d>>] = T[<<t, d>>]
  <2>1. DOMAIN T \subseteq Scope \X Date
    BY DEF TemplatesOK
  <2> QED BY <2>1, MovedRows
<1>2. /\ <<s, q>> \notin DOMAIN P
      /\ <<t, q>> \in DOMAIN P <=> <<s, q>> \in DOMAIN O \/ <<t, q>> \in DOMAIN O
      /\ <<s, q>> \in DOMAIN O => P[<<t, q>>] = O[<<s, q>>]
      /\ <<t, q>> \in DOMAIN O => P[<<t, q>>] = O[<<t, q>>]
  <2>1. DOMAIN O \subseteq Scope \X Month
    BY DEF OverridesOK
  <2> HIDE DEF A, B, of
  <2>2. ASSUME NEW d
        PROVE  /\ <<s, d>> \notin DOMAIN P
               /\ <<t, d>> \in DOMAIN P <=> <<s, d>> \in DOMAIN O \/ <<t, d>> \in DOMAIN O
               /\ <<s, d>> \in DOMAIN O => P[<<t, d>>] = O[<<s, d>>]
               /\ <<t, d>> \in DOMAIN O => P[<<t, d>>] = O[<<t, d>>]
    BY <2>1, MovedRows
  <2> HIDE DEF P
  <2> QED BY <2>2
<1>3. /\ <<s, q>> \in DOMAIN O => O[<<s, q>>] # Null
      /\ <<t, q>> \in DOMAIN O => O[<<t, q>>] # Null
  BY Constants DEF OverridesOK
<1> HIDE DEF U, P
<1>4. ActiveStarts(U, s, FirstOf(q)) = {} /\ ActiveStarts(U, t, FirstOf(q)) = A \cup B
  <2>1. Starts(U, s) = {} /\ Starts(U, t) = Starts(T, s) \cup Starts(T, t)
    BY <1>1 DEF Starts
  <2>2. /\ \A d \in Starts(T, s) : Reaches(U, t, d, FirstOf(q)) <=> Reaches(T, s, d, FirstOf(q))
        /\ \A d \in Starts(T, t) : Reaches(U, t, d, FirstOf(q)) <=> Reaches(T, t, d, FirstOf(q))
    BY <1>1 DEF Starts, Reaches
  <2> QED BY <2>1, <2>2 DEF ActiveStarts
<1>5. A \subseteq Date /\ B \subseteq Date
  BY DEF ActiveStarts, Starts
<1>6. ASSUME NEW x \in A PROVE <<s, x>> \in DOMAIN T /\ U[<<t, x>>].amount = T[<<s, x>>].amount
                               /\ T[<<s, x>>].amount # Null
  <2>1. <<s, x>> \in DOMAIN T
    BY DEF ActiveStarts, Starts
  <2> QED BY <1>1, <2>1, Constants DEF TemplatesOK, BudgetTemplate
<1>7. ASSUME NEW x \in B PROVE <<t, x>> \in DOMAIN T /\ U[<<t, x>>].amount = T[<<t, x>>].amount
                               /\ T[<<t, x>>].amount # Null
  <2>1. <<t, x>> \in DOMAIN T
    BY DEF ActiveStarts, Starts
  <2> QED BY <1>1, <2>1, Constants DEF TemplatesOK, BudgetTemplate
<1>8. EffectiveIn(U, P, s, q) = Null
  BY <1>2, <1>4 DEF EffectiveIn
<1>9. CASE <<s, q>> \in DOMAIN O
  <2>1. EffectiveIn(U, P, t, q) = O[<<s, q>>] /\ of(s) = O[<<s, q>>]
    BY <1>2, <1>9 DEF EffectiveIn
  <2> QED BY <1>3, <1>8, <1>9, <2>1 DEF U, P
<1>10. CASE <<s, q>> \notin DOMAIN O /\ <<t, q>> \in DOMAIN O
  <2>1. EffectiveIn(U, P, t, q) = O[<<t, q>>] /\ of(t) = O[<<t, q>>]
    BY <1>2, <1>10 DEF EffectiveIn
  <2> QED BY <1>3, <1>8, <1>10, <2>1 DEF U, P
<1>11. CASE <<s, q>> \notin DOMAIN O /\ <<t, q>> \notin DOMAIN O
  <2>1. /\ of(s) = IF A = {} THEN Null ELSE T[<<s, Max(A)>>].amount
        /\ of(t) = IF B = {} THEN Null ELSE T[<<t, Max(B)>>].amount
        /\ EffectiveIn(U, P, t, q)
             = IF A \cup B = {} THEN Null ELSE U[<<t, Max(A \cup B)>>].amount
    BY <1>2, <1>4, <1>11 DEF EffectiveIn
  <2> HIDE DEF A, B, of
  <2>2. CASE A \cup B = {}
    BY <1>8, <2>1, <2>2 DEF U, P, of
  <2>3. CASE A \cup B # {}
    <3> DEFINE x == Max(A \cup B)
    <3>1. x \in A \cup B /\ \A d \in A \cup B : x >= d
      <4>1. A \cup B \subseteq Date
        BY <1>5
      <4> HIDE DEF x
      <4> QED BY <2>3, <4>1, LatestDate DEF x
    <3>2. \A d \in A \cup B : d \in Nat
      BY <1>5, Constants
    <3>3. A # {} => Max(A) \in A /\ \A d \in A : Max(A) >= d
      BY <1>5, LatestDate
    <3>4. B # {} => Max(B) \in B /\ \A d \in B : Max(B) >= d
      BY <1>5, LatestDate
    <3> HIDE DEF x
    <3>5. CASE x \in A
      <4>1. Max(A) = x
        BY <3>1, <3>2, <3>3, <3>5
      <4>2. EffectiveIn(U, P, t, q) = of(s) /\ of(s) # Null
        BY <1>6, <2>1, <2>3, <3>5, <4>1 DEF x
      <4> QED BY <1>8, <4>2 DEF U, P, of
    <3>6. CASE x \in B
      <4>1. Max(B) = x
        BY <3>1, <3>2, <3>4, <3>6
      <4>2. EffectiveIn(U, P, t, q) = of(t) /\ of(t) # Null
        BY <1>7, <2>1, <2>3, <3>6, <4>1 DEF x
      <4> QED BY <1>8, <4>2 DEF U, P, of
    <3> QED BY <3>1, <3>5, <3>6
  <2> QED BY <2>2, <2>3
<1> QED BY <1>9, <1>10, <1>11

-----------------------------------------------------------------------------
(* What is in effect after an amount is set from a month on.               *)

\* No template ends before it starts.
EndsLater(T) == \A k \in DOMAIN T : T[k].ends = Null \/ T[k].ends >= k[2]

\* What the templates of a scope say for a date, overrides aside.
Holds(T, c, e) ==
  LET active == ActiveStarts(T, c, e)
  IN IF active = {} THEN Null ELSE T[<<c, Max(active)>>].amount

\* The template that decides.
Top(T, c, e, x) == x \in ActiveStarts(T, c, e) /\ \A y \in ActiveStarts(T, c, e) : y <= x

LEMMA HoldsOfTop ==
  ASSUME NEW T, NEW c, NEW e
  PROVE  /\ \A x : Top(T, c, e, x) => Holds(T, c, e) = T[<<c, x>>].amount
         /\ ActiveStarts(T, c, e) # {} => \E x : Top(T, c, e, x)
         /\ ActiveStarts(T, c, e) = {} => Holds(T, c, e) = Null
<1> DEFINE active == ActiveStarts(T, c, e)
<1>1. active \subseteq Date /\ \A x \in active : x \in Nat
  BY Constants DEF ActiveStarts, Starts
<1>2. ASSUME active # {}
      PROVE  Max(active) \in active /\ \A x \in active : x <= Max(active)
  <2> HIDE DEF active
  <2>1. Max(active) \in active /\ \A x \in active : Max(active) >= x
    BY <1>1, <1>2, LatestDate
  <2> QED BY <1>1, <2>1
<1>3. active # {} => Top(T, c, e, Max(active))
  <2> SUFFICES ASSUME active # {} PROVE Top(T, c, e, Max(active))
    OBVIOUS
  <2>1. Max(active) \in active /\ \A x \in active : x <= Max(active)
    BY <1>2
  <2> QED BY <2>1 DEF Top
<1>4. ASSUME NEW x, Top(T, c, e, x) PROVE Holds(T, c, e) = T[<<c, x>>].amount
  <2>1. x \in active /\ \A y \in active : y <= x
    BY <1>4 DEF Top
  <2>2. Max(active) \in active /\ \A y \in active : y <= Max(active)
    BY <1>2, <2>1
  <2>3. Max(active) \in Nat /\ x \in Nat /\ x <= Max(active) /\ Max(active) <= x
    BY <1>1, <2>1, <2>2
  <2>4. Max(active) = x
    BY <2>3
  <2> QED BY <2>1, <2>4 DEF Holds
<1>5. ASSUME active = {} PROVE Holds(T, c, e) = Null
  BY <1>5 DEF Holds
<1> QED BY <1>3, <1>4, <1>5

LEMMA EffectiveHolds ==
  ASSUME NEW T, NEW O, NEW c, NEW q
  PROVE  EffectiveIn(T, O, c, q)
           = IF <<c, q>> \in DOMAIN O THEN O[<<c, q>>] ELSE Holds(T, c, FirstOf(q))
BY DEF EffectiveIn, Holds

\* How the templates of a scope look from each date once an amount holds from s on:
\* the same before s; from the next one's start on, those before s may be gone; and in
\* between either the new one counts too or none is gone.
FromOn(T, U, c, s, a) ==
  /\ s \in ActiveStarts(U, c, s)
  /\ U[<<c, s>>].amount = a
  /\ \A x \in Starts(U, c) \ {s} : x \in Starts(T, c) /\ U[<<c, x>>].amount = T[<<c, x>>].amount
  /\ \A e \in Date :
       /\ e < s => ActiveStarts(U, c, e) = ActiveStarts(T, c, e)
       /\ (\E d \in Starts(T, c) : s < d /\ d <= e) =>
            /\ ActiveStarts(U, c, e) \subseteq ActiveStarts(T, c, e)
            /\ \A x \in ActiveStarts(T, c, e) : x > s => x \in ActiveStarts(U, c, e)
       /\ ~(\E d \in Starts(T, c) : s < d /\ d <= e) =>
            \/ s \in ActiveStarts(U, c, e)
            \/ ActiveStarts(U, c, e) = ActiveStarts(T, c, e)

LEMMA RowFacts ==
  ASSUME NEW T, TemplatesOK(T), EndsLater(T), NEW c, NEW d \in Starts(T, c)
  PROVE  /\ d \in Nat /\ d \in Date /\ <<c, d>> \in DOMAIN T
         /\ T[<<c, d>>] \in BudgetTemplate /\ T[<<c, d>>].amount # Null
         /\ T[<<c, d>>].ends # Null => T[<<c, d>>].ends \in Nat /\ T[<<c, d>>].ends >= d
<1>1. <<c, d>> \in DOMAIN T /\ d \in Date
  BY DEF Starts
<1>2. T[<<c, d>>] \in BudgetTemplate
  BY <1>1 DEF TemplatesOK
<1>3. T[<<c, d>>].ends = Null \/ T[<<c, d>>].ends >= <<c, d>>[2]
  BY <1>1 DEF EndsLater
<1> QED BY <1>1, <1>2, <1>3, Constants DEF BudgetTemplate

LEMMA ReplacesFromOn ==
  ASSUME NEW T, TemplatesOK(T), EndsLater(T), NEW U, NEW c \in Scope, NEW s \in Date,
         NEW a \in Amount, Replaces(T, U, c, s, a)
  PROVE  FromOn(T, U, c, s, a) /\ EndsLater(U)
<1>1. s \in Starts(T, c) /\ U = [T EXCEPT ![<<c, s>>].amount = a]
  BY DEF Replaces
<1>2. /\ Starts(U, c) = Starts(T, c)
      /\ \A k \in DOMAIN T : U[k].ends = T[k].ends
      /\ DOMAIN U = DOMAIN T
      /\ U[<<c, s>>].amount = a
      /\ \A x \in Starts(T, c) : x # s => U[<<c, x>>] = T[<<c, x>>]
  BY <1>1 DEF Starts, TemplatesOK, BudgetTemplate
<1>3. EndsLater(U)
  BY <1>2 DEF EndsLater
<1>4. \A e : ActiveStarts(U, c, e) = ActiveStarts(T, c, e)
  BY <1>2 DEF ActiveStarts, Reaches, Starts
<1>5. s \in ActiveStarts(T, c, s)
  BY <1>1, RowFacts DEF ActiveStarts, Reaches
<1> QED BY <1>2, <1>3, <1>4, <1>5 DEF FromOn

\* The new template's end, from where later ones start.
LEMMA NewEnd ==
  ASSUME NEW T, NEW c, NEW s \in Date, NEW end \in Date \cup {Null}, end = Null \/ end >= s
  PROVE  LET new == EndsBeforeNext(T, c, s, end) IN
         /\ new = Null \/ (new \in Nat /\ new >= s)
         /\ \A d \in Starts(T, c) : d > s => new # Null /\ new < d
         /\ \A e \in Date : ~(\E d \in Starts(T, c) : s < d /\ d <= e)
              => (end = Null \/ end >= e => new = Null \/ new >= e)
<1> DEFINE later == {d \in Starts(T, c) : d > s}
           new == EndsBeforeNext(T, c, s, end)
<1>0. /\ later \subseteq Date /\ s \in Nat /\ Null \notin Date
      /\ \A d \in Date : d \in Nat
      /\ end # Null => end \in Nat
  BY Constants DEF Starts
<1>1. /\ new \in Date \cup {Null}
      /\ \A d \in Starts(T, c) : d > s => new # Null /\ new < d
  BY EndBeforeNext
<1>2. CASE later = {}
  <2>1. new = end
    BY <1>2 DEF EndsBeforeNext
  <2> HIDE DEF new, later
  <2> QED BY <1>0, <1>1, <2>1 DEF new
<1>3. CASE later # {}
  <2>1. Min(later) \in later
    <3> HIDE DEF later
    <3> QED BY <1>0, <1>3, EarliestDate
  <2>2. Min(later) \in Nat /\ Min(later) > s /\ Min(later) \in Starts(T, c)
    BY <1>0, <2>1
  <2>3. new = EarlierEnd(end, Min(later))
    BY <1>3 DEF EndsBeforeNext
  <2>4. new = Min(later) - 1 \/ (new = end /\ end # Null)
    BY <2>3 DEF EarlierEnd
  <2>5. new >= s /\ new \in Nat
    BY <1>0, <2>2, <2>4
  <2>6. ASSUME NEW e \in Date, ~(\E d \in Starts(T, c) : s < d /\ d <= e), end = Null \/ end >= e
        PROVE  new >= e
    <3>1. ~(Min(later) <= e) /\ e \in Nat
      BY <1>0, <2>2, <2>6
    <3> HIDE DEF later, new
    <3> QED BY <2>2, <2>4, <2>6, <3>1
  <2> HIDE DEF new, later
  <2> QED BY <1>1, <2>5, <2>6 DEF new
<1> QED BY <1>2, <1>3

LEMMA BeginsFromOn ==
  ASSUME NEW T, TemplatesOK(T), EndsLater(T), NEW U, NEW c \in Scope, NEW s \in Date,
         NEW a \in Amount, Begins(T, U, c, s, a)
  PROVE  FromOn(T, U, c, s, a) /\ EndsLater(U)
<1>0. PICK end : end = EndsBeforeNext(T, c, s, Null)
  OBVIOUS
<1>1. /\ s \notin Starts(T, c)
      /\ U = Put(T, <<c, s>>, [amount |-> a, ends |-> end])
  BY <1>0 DEF Begins, NewTemplate
<1>2. /\ Starts(U, c) = Starts(T, c) \cup {s}
      /\ DOMAIN U = DOMAIN T \cup {<<c, s>>}
      /\ U[<<c, s>>] = [amount |-> a, ends |-> end]
      /\ \A k \in DOMAIN T : k # <<c, s>> => U[k] = T[k]
  BY <1>1 DEF Put, Starts
<1>3. /\ end = Null \/ (end \in Nat /\ end >= s)
      /\ \A d \in Starts(T, c) : d > s => end # Null /\ end < d
      /\ \A e \in Date : ~(\E d \in Starts(T, c) : s < d /\ d <= e) => end = Null \/ end >= e
  BY <1>0, NewEnd
<1>4. s \in Nat /\ \A e \in Date : e \in Nat
  BY Constants
<1>5. EndsLater(U)
  BY <1>2, <1>3 DEF EndsLater
<1>6. ASSUME NEW e \in Date
      PROVE  /\ \A x \in Starts(T, c) : x \in ActiveStarts(U, c, e) <=> x \in ActiveStarts(T, c, e)
             /\ s \in ActiveStarts(U, c, e) <=> s <= e /\ (end = Null \/ end >= e)
             /\ ActiveStarts(U, c, e) \subseteq Starts(T, c) \cup {s}
             /\ ActiveStarts(T, c, e) \subseteq Starts(T, c)
  <2>1. \A x \in Starts(T, c) : x # s /\ <<c, x>> \in DOMAIN T
    BY <1>1 DEF Starts
  <2> QED BY <1>2, <2>1 DEF ActiveStarts, Reaches
<1>7. ASSUME NEW e \in Date, e < s
      PROVE  ActiveStarts(U, c, e) = ActiveStarts(T, c, e)
  BY <1>4, <1>6, <1>7
<1>8. ASSUME NEW e \in Date, NEW d \in Starts(T, c), s < d, d <= e
      PROVE  ActiveStarts(U, c, e) = ActiveStarts(T, c, e)
  <2>1. end # Null /\ end < d /\ end \in Nat /\ d \in Nat
    BY <1>3, <1>8, Constants DEF Starts
  <2>2. s \notin ActiveStarts(U, c, e)
    BY <1>4, <1>6, <1>8, <2>1
  <2> QED BY <1>6, <2>2
<1>9. ASSUME NEW e \in Date, ~(\E d \in Starts(T, c) : s < d /\ d <= e)
      PROVE  s \in ActiveStarts(U, c, e) \/ ActiveStarts(U, c, e) = ActiveStarts(T, c, e)
  BY <1>3, <1>6, <1>9
<1>10. s \in ActiveStarts(U, c, s)
  BY <1>3, <1>4, <1>6
<1>11. \A x \in Starts(U, c) \ {s} :
         x \in Starts(T, c) /\ U[<<c, x>>].amount = T[<<c, x>>].amount
  BY <1>2 DEF Starts
<1>12. U[<<c, s>>].amount = a
  BY <1>2
<1> QED BY <1>5, <1>7, <1>8, <1>9, <1>10, <1>11, <1>12 DEF FromOn

LEMMA SucceedsFromOn ==
  ASSUME NEW T, TemplatesOK(T), EndsLater(T), NEW U, NEW c \in Scope, NEW s \in Date,
         NEW a \in Amount, NEW d, Succeeds(T, U, c, s, a, d)
  PROVE  FromOn(T, U, c, s, a) /\ EndsLater(U)
<1>1. /\ s \notin Starts(T, c) /\ d \in Starts(T, c) /\ Reaches(T, c, d, s)
      /\ d < s /\ s - 1 \in Date
  BY DEF Succeeds, ActiveStarts
<1>2. /\ d \in Nat /\ <<c, d>> \in DOMAIN T /\ T[<<c, d>>] \in BudgetTemplate
      /\ s \in Nat /\ s - 1 # Null /\ \A e \in Date : e \in Nat
  BY <1>1, RowFacts, Constants
<1>3. PICK old : old = T[<<c, d>>].ends
  OBVIOUS
<1>4. old \in Date \cup {Null} /\ (old = Null \/ old >= s)
  BY <1>1, <1>2, <1>3 DEF BudgetTemplate, Reaches
<1>5. PICK end : end = EndsBeforeNext(T, c, s, old)
  OBVIOUS
<1>6. /\ end = Null \/ (end \in Nat /\ end >= s)
      /\ \A x \in Starts(T, c) : x > s => end # Null /\ end < x
      /\ \A e \in Date : ~(\E x \in Starts(T, c) : s < x /\ x <= e)
           => (old = Null \/ old >= e => end = Null \/ end >= e)
  BY <1>4, <1>5, NewEnd
<1>7. U = Put([T EXCEPT ![<<c, d>>].ends = s - 1], <<c, s>>, [amount |-> a, ends |-> end])
  BY <1>3, <1>5 DEF Succeeds, EndedAt, NewTemplate
<1>8. /\ Starts(U, c) = Starts(T, c) \cup {s}
      /\ DOMAIN U = DOMAIN T \cup {<<c, s>>}
      /\ U[<<c, s>>] = [amount |-> a, ends |-> end]
      /\ U[<<c, d>>].ends = s - 1 /\ U[<<c, d>>].amount = T[<<c, d>>].amount
      /\ \A k \in DOMAIN T : k # <<c, s>> /\ k # <<c, d>> => U[k] = T[k]
  BY <1>1, <1>2, <1>7 DEF Put, Starts, BudgetTemplate
<1>9. EndsLater(U)
  <2>1. s - 1 >= d
    BY <1>1, <1>2
  <2> QED BY <1>1, <1>6, <1>8, <2>1 DEF EndsLater
<1>10. ASSUME NEW e \in Date
       PROVE  /\ \A x \in Starts(T, c) : x # d =>
                   (x \in ActiveStarts(U, c, e) <=> x \in ActiveStarts(T, c, e))
              /\ d \in ActiveStarts(U, c, e) <=> d <= e /\ s - 1 >= e
              /\ d \in ActiveStarts(T, c, e) <=> d <= e /\ (old = Null \/ old >= e)
              /\ s \in ActiveStarts(U, c, e) <=> s <= e /\ (end = Null \/ end >= e)
              /\ ActiveStarts(U, c, e) \subseteq Starts(T, c) \cup {s}
              /\ ActiveStarts(T, c, e) \subseteq Starts(T, c)
  <2>1. \A x \in Starts(T, c) : x # s /\ <<c, x>> \in DOMAIN T
    BY <1>1 DEF Starts
  <2> QED BY <1>1, <1>2, <1>3, <1>8, <2>1 DEF ActiveStarts, Reaches
<1>11. ASSUME NEW e \in Date, e < s
       PROVE  ActiveStarts(U, c, e) = ActiveStarts(T, c, e)
  <2>1. e \in Nat /\ e <= s - 1 /\ (old = Null \/ old >= e)
    BY <1>2, <1>4, <1>11
  <2>2. s \notin ActiveStarts(U, c, e)
    BY <1>2, <1>10, <1>11
  <2>3. d \in ActiveStarts(U, c, e) <=> d \in ActiveStarts(T, c, e)
    BY <1>2, <1>10, <2>1
  <2> QED BY <1>1, <1>10, <2>2, <2>3
<1>12. ASSUME NEW e \in Date, NEW l \in Starts(T, c), s < l, l <= e
       PROVE  /\ ActiveStarts(U, c, e) \subseteq ActiveStarts(T, c, e)
              /\ \A x \in ActiveStarts(T, c, e) : x > s => x \in ActiveStarts(U, c, e)
  <2>1. end # Null /\ end < l /\ end \in Nat /\ l \in Nat /\ e \in Nat
    BY <1>2, <1>6, <1>12, Constants DEF Starts
  <2>2. s \notin ActiveStarts(U, c, e)
    BY <1>10, <1>12, <2>1
  <2>3. d \notin ActiveStarts(U, c, e)
    BY <1>2, <1>10, <1>12, <2>1
  <2>4. \A x \in ActiveStarts(T, c, e) : x > s => x # d
    BY <1>1, <1>2
  <2> QED BY <1>10, <2>2, <2>3, <2>4
<1>13. ASSUME NEW e \in Date, ~(\E l \in Starts(T, c) : s < l /\ l <= e),
              s \notin ActiveStarts(U, c, e)
       PROVE  ActiveStarts(U, c, e) = ActiveStarts(T, c, e)
  <2>1. CASE e < s
    BY <1>11, <2>1
  <2>2. CASE ~(e < s)
    <3>0. e \in Nat /\ s \in Nat
      BY <1>2
    <3>1. s <= e /\ e \in Nat
      BY <2>2, <3>0
    <3>2. ~(end = Null \/ end >= e)
      <4>1. s \in ActiveStarts(U, c, e) <=> s <= e /\ (end = Null \/ end >= e)
        BY <1>10
      <4> QED BY <1>13, <3>1, <4>1
    <3>3. ~(old = Null \/ old >= e)
      <4>1. old = Null \/ old >= e => end = Null \/ end >= e
        BY <1>6, <1>13
      <4> QED BY <3>2, <4>1
    <3>4. d \notin ActiveStarts(T, c, e) /\ d \notin ActiveStarts(U, c, e)
      BY <1>2, <1>10, <3>1, <3>3
    <3>5. \A x \in Starts(T, c) : x \in ActiveStarts(U, c, e) <=> x \in ActiveStarts(T, c, e)
      BY <1>10, <3>4
    <3>6. /\ ActiveStarts(U, c, e) \subseteq Starts(T, c)
          /\ ActiveStarts(T, c, e) \subseteq Starts(T, c)
      BY <1>10, <1>13
    <3> QED BY <3>5, <3>6
  <2> QED BY <2>1, <2>2
<1>14. s \in ActiveStarts(U, c, s)
  BY <1>2, <1>6, <1>10
<1>15. \A x \in Starts(U, c) \ {s} :
         x \in Starts(T, c) /\ U[<<c, x>>].amount = T[<<c, x>>].amount
  BY <1>8 DEF Starts
<1>16. U[<<c, s>>].amount = a
  BY <1>8
<1> QED BY <1>9, <1>11, <1>12, <1>13, <1>14, <1>15, <1>16 DEF FromOn

LEMMA AppliedFromOn ==
  ASSUME NEW T, TemplatesOK(T), EndsLater(T), NEW c \in Scope, NEW m \in Month, NEW a \in Amount
  PROVE  /\ FromOn(T, AppliedFrom(T, c, m, a), c, FirstOf(m), a)
         /\ EndsLater(AppliedFrom(T, c, m, a))
<1> DEFINE s == FirstOf(m)
           U == AppliedFrom(T, c, m, a)
<1>1. s \in Date
  BY Constants
<1>2. Replaces(T, U, c, s, a) \/ Begins(T, U, c, s, a) \/ \E d : Succeeds(T, U, c, s, a, d)
  BY AppliedFromCases
<1> HIDE DEF s, U
<1>3. FromOn(T, U, c, s, a) /\ EndsLater(U)
  BY <1>1, <1>2, ReplacesFromOn, BeginsFromOn, SucceedsFromOn
<1> QED BY <1>3 DEF s, U

\* What holds on each date follows.
LEMMA HoldsFromOn ==
  ASSUME NEW T, TemplatesOK(T), EndsLater(T), NEW U, NEW c \in Scope, NEW s \in Date,
         NEW a \in Amount, FromOn(T, U, c, s, a), NEW e \in Date
  PROVE  /\ e < s => Holds(U, c, e) = Holds(T, c, e)
         /\ e = s => Holds(U, c, e) = a
         /\ ~Nested(T, c) /\ (\E d \in Starts(T, c) : s < d /\ d <= e)
              => Holds(U, c, e) = Holds(T, c, e)
         /\ e > s /\ ~(\E d \in Starts(T, c) : s < d /\ d <= e)
              => /\ Holds(U, c, e) \in {a, Holds(T, c, e)}
                 /\ Holds(T, c, e) # Null => Holds(U, c, e) # Null
<1>0. s \in Nat /\ e \in Nat /\ a # Null
  BY Constants
<1>1. \A x \in ActiveStarts(T, c, e) : x \in Starts(T, c) /\ x <= e /\ Reaches(T, c, x, e)
  BY DEF ActiveStarts
<1>2. \A x \in ActiveStarts(U, c, e) : x \in Starts(U, c) /\ x <= e
  BY DEF ActiveStarts
<1>3. \A x \in Starts(U, c) : x \in Nat
  BY Constants DEF Starts
\* A decisive template other than the new one says the same.
<1>4. ASSUME NEW x, Top(T, c, e, x), Top(U, c, e, x), x # s
      PROVE  Holds(U, c, e) = Holds(T, c, e)
  <2>1. U[<<c, x>>].amount = T[<<c, x>>].amount
    BY <1>2, <1>4 DEF Top, FromOn
  <2> QED BY <1>4, <2>1, HoldsOfTop
<1>5. ASSUME ActiveStarts(U, c, e) = ActiveStarts(T, c, e), s \notin ActiveStarts(U, c, e)
      PROVE  Holds(U, c, e) = Holds(T, c, e)
  <2>1. CASE ActiveStarts(T, c, e) = {}
    BY <1>5, <2>1, HoldsOfTop
  <2>2. CASE ActiveStarts(T, c, e) # {}
    <3>1. PICK x : Top(T, c, e, x)
      BY <2>2, HoldsOfTop
    <3>2. Top(U, c, e, x) /\ x # s
      BY <1>5, <3>1 DEF Top
    <3> QED BY <1>4, <3>1, <3>2
  <2> QED BY <2>1, <2>2
<1>6. ASSUME e < s PROVE Holds(U, c, e) = Holds(T, c, e)
  <2>1. s \notin ActiveStarts(U, c, e)
    BY <1>0, <1>2, <1>6
  <2> QED BY <1>5, <1>6, <2>1 DEF FromOn
<1>7. ASSUME s \in ActiveStarts(U, c, e), \A d \in Starts(T, c) : d <= e => d <= s
      PROVE  Holds(U, c, e) = a
  <2>1. \A y \in ActiveStarts(U, c, e) : y = s \/ y \in Starts(T, c)
    BY <1>2 DEF FromOn
  <2>2. \A y \in ActiveStarts(U, c, e) : y <= s
    BY <1>0, <1>2, <1>7, <2>1
  <2>3. Top(U, c, e, s)
    BY <1>7, <2>2 DEF Top
  <2>4. U[<<c, s>>].amount = a
    BY DEF FromOn
  <2> QED BY <2>3, <2>4, HoldsOfTop
<1>8. ASSUME e = s PROVE Holds(U, c, e) = a
  <2>1. s \in ActiveStarts(U, c, e)
    BY <1>8 DEF FromOn
  <2> QED BY <1>7, <1>8, <2>1
<1>9. ASSUME ~Nested(T, c), NEW l \in Starts(T, c), s < l, l <= e
      PROVE  Holds(U, c, e) = Holds(T, c, e)
  <2>0. l \in Nat
    BY RowFacts
  <2>1. ASSUME NEW x, Top(T, c, e, x) PROVE x > s
    <3>1. /\ x \in Starts(T, c) /\ x \in Nat /\ Reaches(T, c, x, e)
          /\ \A y \in ActiveStarts(T, c, e) : y <= x
          /\ T[<<c, x>>].ends # Null => T[<<c, x>>].ends \in Nat
      BY <1>1, <2>1, RowFacts DEF Top
    <3>2. CASE l \in ActiveStarts(T, c, e)
      BY <1>0, <1>9, <2>0, <3>1, <3>2
    <3>3. CASE l \notin ActiveStarts(T, c, e)
      <4>1. T[<<c, l>>].ends # Null /\ T[<<c, l>>].ends \in Nat /\ T[<<c, l>>].ends < e
        <5>1. T[<<c, l>>].ends # Null => T[<<c, l>>].ends \in Nat
          BY RowFacts
        <5> QED BY <1>0, <1>9, <3>3, <5>1 DEF ActiveStarts, Reaches
      <4>2. Reaches(T, c, x, T[<<c, l>>].ends + 1) /\ Reaches(T, c, x, l)
        BY <1>0, <1>9, <2>0, <3>1, <4>1 DEF Reaches
      <4>3. ~(x < l)
        BY <1>9, <3>1, <4>1, <4>2 DEF Nested, Overlap
      <4> QED BY <1>0, <1>9, <2>0, <3>1, <4>3
    <3> QED BY <3>2, <3>3
  <2>2. /\ ActiveStarts(U, c, e) \subseteq ActiveStarts(T, c, e)
        /\ \A x \in ActiveStarts(T, c, e) : x > s => x \in ActiveStarts(U, c, e)
    BY <1>9 DEF FromOn
  <2>3. CASE ActiveStarts(T, c, e) = {}
    BY <2>2, <2>3, HoldsOfTop
  <2>4. CASE ActiveStarts(T, c, e) # {}
    <3>1. PICK x : Top(T, c, e, x)
      BY <2>4, HoldsOfTop
    <3>2. x > s /\ x # s
      BY <1>0, <1>1, <2>1, <3>1, RowFacts DEF Top
    <3>3. Top(U, c, e, x)
      BY <2>2, <3>1, <3>2 DEF Top
    <3> QED BY <1>4, <3>1, <3>2, <3>3
  <2> QED BY <2>3, <2>4
<1>10. ASSUME e > s, ~(\E d \in Starts(T, c) : s < d /\ d <= e)
       PROVE  /\ Holds(U, c, e) \in {a, Holds(T, c, e)}
              /\ Holds(T, c, e) # Null => Holds(U, c, e) # Null
  <2>1. \A d \in Starts(T, c) : d <= e => d <= s
    <3>1. \A d \in Starts(T, c) : d \in Nat
      BY RowFacts
    <3> QED BY <1>0, <1>10, <3>1
  <2>2. CASE s \in ActiveStarts(U, c, e)
    BY <1>0, <1>7, <2>1, <2>2
  <2>3. CASE s \notin ActiveStarts(U, c, e)
    BY <1>5, <1>10, <2>3 DEF FromOn
  <2> QED BY <2>2, <2>3
<1> QED BY <1>6, <1>8, <1>9, <1>10

-----------------------------------------------------------------------------
(* No template ever ends before it starts, nor one that a plan keeps.      *)

EndsInv ==
  /\ EndsLater(templates)
  /\ plan.pc \in {"proposed", "applied"} => EndsLater(plan.before.templates)

LEMMA TableEnds ==
  ASSUME NEW T, EndsLater(T)
  PROVE  /\ \A keys : EndsLater(Without(T, keys))
         /\ \A O, c : EndsLater(RowsOf(T, O, c).templates)
         /\ \A rows, c : EndsLater(rows) => EndsLater(Replaced(T, c, rows))
         /\ \A c, d, row : row.ends = Null \/ row.ends >= d => EndsLater(Put(T, <<c, d>>, row))
<1>1. \A keys : EndsLater(Without(T, keys))
  BY DEF EndsLater, Without, Restrict
<1>2. \A O, c : EndsLater(RowsOf(T, O, c).templates)
  BY DEF EndsLater, RowsOf, Restrict
<1>3. \A rows, c : EndsLater(rows) => EndsLater(Replaced(T, c, rows))
  BY DEF EndsLater, Replaced
<1>4. \A c, d, row : row.ends = Null \/ row.ends >= d => EndsLater(Put(T, <<c, d>>, row))
  BY DEF EndsLater, Put
<1> QED BY <1>1, <1>2, <1>3, <1>4

\* A template that is given to another category keeps its dates.
LEMMA MovedEnds ==
  ASSUME NEW T, TemplatesOK(T), EndsLater(T), NEW source, NEW target
  PROVE  EndsLater(Moved(T, source, target))
<1> DEFINE given == {k \in DOMAIN T : k[1] = source}
           key(k) == IF k[1] = target /\ <<source, k[2]>> \in given THEN <<source, k[2]>> ELSE k
           keys == (DOMAIN T \ given) \cup {<<target, g[2]>> : g \in given}
           M == Moved(T, source, target)
<1>1. ASSUME NEW k \in keys PROVE key(k) \in DOMAIN T /\ key(k)[2] = k[2]
  <2>1. CASE k \in DOMAIN T \ given
    BY <2>1
  <2>2. CASE k \in {<<target, g[2]>> : g \in given}
    <3>1. PICK g \in given : k = <<target, g[2]>>
      BY <2>2
    <3>2. g = <<source, g[2]>>
      BY <3>1 DEF TemplatesOK
    <3> QED BY <3>1, <3>2
  <2> QED BY <1>1, <2>1, <2>2
<1>2. M = [k \in keys |-> T[key(k)]]
  BY DEF Moved
<1> HIDE DEF keys, key, M
<1>3. ASSUME NEW k \in DOMAIN M PROVE M[k].ends = Null \/ M[k].ends >= k[2]
  <2>1. k \in keys /\ M[k] = T[key(k)]
    BY <1>2, <1>3
  <2>2. T[key(k)].ends = Null \/ T[key(k)].ends >= key(k)[2]
    BY <1>1, <2>1 DEF EndsLater
  <2> QED BY <1>1, <2>1, <2>2
<1>4. EndsLater(M)
  BY <1>3 DEF EndsLater
<1> QED BY <1>4 DEF M

\* A template that is cut the day before a month started before it.
LEMMA WithoutBudgetEnds ==
  ASSUME NEW rows, TemplatesOK(rows.templates), EndsLater(rows.templates), NEW m \in Month
  PROVE  EndsLater(WithoutBudget(rows, m).templates)
<1> DEFINE T == rows.templates
           U == WithoutBudget(rows, m).templates
<1>1. U = [k \in {k \in DOMAIN T : StartsBefore(k[2], m)} |-> CutAt(T[k], FirstOf(m))]
  BY DEF WithoutBudget
<1>2. ASSUME NEW k \in DOMAIN T, StartsBefore(k[2], m)
      PROVE  LET row == CutAt(T[k], FirstOf(m)) IN row.ends = Null \/ row.ends >= k[2]
  <2>1. /\ T[k] \in BudgetTemplate /\ k[2] \in Nat /\ FirstOf(m) \in Nat
        /\ k[2] < FirstOf(m)
    BY <1>2, Constants DEF TemplatesOK, StartsBefore
  <2>2. T[k].ends = Null \/ T[k].ends >= k[2]
    BY DEF EndsLater
  <2>3. FirstOf(m) - 1 >= k[2]
    BY <2>1
  <2> QED BY <2>1, <2>2, <2>3 DEF CutAt, BudgetTemplate
<1> HIDE DEF U
<1>3. EndsLater(U)
  BY <1>1, <1>2 DEF EndsLater
<1> QED BY <1>3 DEF U

LEMMA NextEnds == BudgetsInv /\ EndsInv /\ [Next]_vars => EndsInv'
<1> SUFFICES ASSUME BudgetsInv, EndsInv, [Next]_vars PROVE EndsInv'
  OBVIOUS
<1>1. TemplatesOK(templates) /\ EndsLater(templates)
  BY DEF BudgetsInv, TypeOK, TemplatesOK, EndsInv
<1>2. plan.pc \in {"proposed", "applied"} =>
        /\ plan.scope \in Scope /\ plan.month \in Month /\ plan.amount \in Amount
        /\ plan.kind \in Kind
        /\ TemplatesOK(plan.before.templates) /\ EndsLater(plan.before.templates)
  BY DEF BudgetsInv, PlanOK, EndsInv
<1>3. ASSUME UNCHANGED plan, EndsLater(templates') PROVE EndsInv'
  BY <1>3 DEF EndsInv
<1>4. ASSUME plan'.pc = "none", EndsLater(templates') PROVE EndsInv'
  BY <1>4 DEF EndsInv
<1>5. ASSUME NEW c \in Scope, NEW d \in StartsOn, NEW a \in Amount,
             NEW e \in {x \in EndsOn : x = Null \/ x >= d}, UpsertTemplate(c, d, e, a)
      PROVE  EndsInv'
  <2>1. templates' = Put(templates, <<c, d>>, [amount |-> a, ends |-> e]) /\ UNCHANGED plan
    BY <1>5 DEF UpsertTemplate
  <2> QED BY <1>1, <1>3, <2>1, TableEnds
<1>6. ASSUME NEW c \in Scope, NEW m \in Month, NEW a \in Amount, ApplyFrom(c, m, a)
      PROVE  EndsInv'
  BY <1>1, <1>3, <1>6, AppliedFromOn DEF ApplyFrom
<1>7. ASSUME UNCHANGED <<templates, plan>> PROVE EndsInv'
  BY <1>1, <1>3, <1>7
<1>8. ASSUME NEW key, DeleteTemplate(key) PROVE EndsInv'
  BY <1>1, <1>3, <1>8, TableEnds DEF DeleteTemplate
<1>9. ASSUME NEW source, NEW target, Merge(source, target) PROVE EndsInv'
  BY <1>1, <1>3, <1>9, MovedEnds DEF Merge
<1>10. ASSUME NEW kind, NEW c, NEW m, NEW a, Propose(kind, c, m, a) PROVE EndsInv'
  <2>1. UNCHANGED templates /\ plan'.before = RowsOf(templates, overrides, c)
    BY <1>10 DEF Propose
  <2> QED BY <1>1, <2>1, TableEnds DEF EndsInv
<1>11. CASE Dismiss
  BY <1>1, <1>4, <1>11 DEF Dismiss, NoPlan
<1>12. CASE Apply
  <2>1. plan.pc = "proposed" /\ plan'.before = plan.before
    BY <1>12 DEF Apply
  <2>2. EndsLater(templates')
    <3>1. CASE plan.kind = "month"
      BY <1>1, <1>12, <3>1 DEF Apply
    <3>2. CASE plan.kind = "onward"
      <4>1. templates' = AppliedFrom(templates, plan.scope, plan.month, plan.amount)
        BY <1>12, <3>2 DEF Apply
      <4> QED BY <1>1, <1>2, <2>1, <4>1, AppliedFromOn
    <3>3. CASE plan.kind = "remove"
      <4>1. templates' = Replaced(templates, plan.scope,
                                  WithoutBudget(plan.before, plan.month).templates)
        BY <1>12, <3>3 DEF Apply, Restored
      <4>2. EndsLater(WithoutBudget(plan.before, plan.month).templates)
        BY <1>2, <2>1, WithoutBudgetEnds
      <4> QED BY <1>1, <4>1, <4>2, TableEnds
    <3> QED BY <1>2, <2>1, <3>1, <3>2, <3>3 DEF Kind
  <2> QED BY <1>2, <2>1, <2>2 DEF EndsInv
<1>13. CASE Undo
  <2>1. /\ plan.pc = "applied" /\ plan'.pc = "none"
        /\ templates' = Replaced(templates, plan.scope, plan.before.templates)
    BY <1>13 DEF Undo, Restored, NoPlan
  <2> QED BY <1>1, <1>2, <1>4, <2>1, TableEnds
<1> QED
  BY <1>5, <1>6, <1>7, <1>8, <1>9, <1>10, <1>11, <1>12, <1>13
     DEF Next, UpsertOverride, DeleteOverride, vars

\* What an amount set from a month on changes.
LEMMA OnwardEffect ==
  ASSUME BudgetsInv, EndsInv, NEW c \in Scope, NEW m \in Month, NEW a \in Amount,
         ApplyFrom(c, m, a)
  PROVE  ChangedFrom(c, m, a)
<1> DEFINE s == FirstOf(m)
           T == templates
           U == templates'
           later == {d \in Starts(T, c) : d > s}
           scheduled(q) == \E d \in later : d <= FirstOf(q)
<1>1. TemplatesOK(T) /\ EndsLater(T) /\ OverridesOK(overrides)
  BY DEF BudgetsInv, TypeOK, TemplatesOK, OverridesOK, EndsInv
<1>2. /\ U = AppliedFrom(T, c, m, a)
      /\ overrides' = Without(overrides, {<<c, m>>})
  BY DEF ApplyFrom, OverridesFrom
<1>3. FromOn(T, U, c, s, a) /\ s \in Date
  BY <1>1, <1>2, AppliedFromOn, Constants
<1>4. ASSUME NEW q \in Month
      PROVE  /\ FirstOf(q) \in Date
             /\ FirstOf(q) < s <=> q < m
             /\ FirstOf(q) = s <=> q = m
             /\ FirstOf(q) > s <=> q > m
  BY Constants DEF FirstOf
<1>5. ASSUME NEW q \in Month
      PROVE  scheduled(q) <=> \E d \in Starts(T, c) : s < d /\ d <= FirstOf(q)
  <2>1. \A d \in Starts(T, c) : d > s <=> s < d
    BY <1>3, Constants DEF Starts
  <2> HIDE DEF s
  <2> QED BY <2>1
<1>6. ASSUME NEW q \in Month
      PROVE  /\ q < m => Holds(U, c, FirstOf(q)) = Holds(T, c, FirstOf(q))
             /\ q = m => Holds(U, c, FirstOf(q)) = a
             /\ ~Nested(T, c) /\ scheduled(q)
                  => Holds(U, c, FirstOf(q)) = Holds(T, c, FirstOf(q))
             /\ q > m /\ ~scheduled(q)
                  => /\ Holds(U, c, FirstOf(q)) \in {a, Holds(T, c, FirstOf(q))}
                     /\ Holds(T, c, FirstOf(q)) # Null => Holds(U, c, FirstOf(q)) # Null
  <2> HIDE DEF s, T, U, scheduled
  <2> QED BY <1>1, <1>3, <1>4, <1>5, HoldsFromOn
<1>7. /\ <<c, m>> \notin DOMAIN overrides'
      /\ \A q \in Month : q # m =>
           /\ <<c, q>> \in DOMAIN overrides' <=> <<c, q>> \in DOMAIN overrides
           /\ <<c, q>> \in DOMAIN overrides => overrides'[<<c, q>>] = overrides[<<c, q>>]
  BY <1>2 DEF Without, Restrict
<1>8. \A q \in Month :
        /\ Effective(c, q) = IF <<c, q>> \in DOMAIN overrides
                               THEN overrides[<<c, q>>] ELSE Holds(T, c, FirstOf(q))
        /\ Effective(c, q)' = IF <<c, q>> \in DOMAIN overrides'
                                THEN overrides'[<<c, q>>] ELSE Holds(U, c, FirstOf(q))
  BY EffectiveHolds DEF Effective
<1>9. m \in Nat /\ \A q \in Month : q \in Nat
  BY Constants
<1> HIDE DEF s, T, U, scheduled
<1>10. ASSUME NEW q \in Month, q < m PROVE Effective(c, q)' = Effective(c, q)
  <2>1. q # m /\ Holds(U, c, FirstOf(q)) = Holds(T, c, FirstOf(q))
    BY <1>6, <1>9, <1>10
  <2>2. CASE <<c, q>> \in DOMAIN overrides
    BY <1>7, <1>8, <2>1, <2>2
  <2>3. CASE <<c, q>> \notin DOMAIN overrides
    BY <1>7, <1>8, <2>1, <2>3
  <2> QED BY <2>2, <2>3
<1>11. Effective(c, m)' = a
  BY <1>6, <1>7, <1>8
<1>12. ASSUME NEW q \in Month, q > m, ~Nested(T, c)
       PROVE  /\ scheduled(q) \/ <<c, q>> \in DOMAIN overrides => Effective(c, q)' = Effective(c, q)
              /\ Effective(c, q)' \in {a, Effective(c, q)}
              /\ Effective(c, q) # Null => Effective(c, q)' # Null
  <2>1. q # m
    BY <1>9, <1>12
  <2>2. CASE <<c, q>> \in DOMAIN overrides
    BY <1>7, <1>8, <2>1, <2>2
  <2>3. CASE <<c, q>> \notin DOMAIN overrides
    <3>1. Effective(c, q) = Holds(T, c, FirstOf(q)) /\ Effective(c, q)' = Holds(U, c, FirstOf(q))
      BY <1>7, <1>8, <2>1, <2>3
    <3> QED BY <1>6, <1>12, <2>3, <3>1
  <2> QED BY <2>2, <2>3
<1> QED BY <1>10, <1>11, <1>12 DEF ChangedFrom, s, T, scheduled, later

-----------------------------------------------------------------------------
(* Theorems                                                                *)

LEMMA BudgetsInductive == Spec => []BudgetsInv
BY InitInv, NextInv, PTL DEF Spec

\* The rows of every scope stay well formed, one template per start: every request, plan
\* and undo writes dates and amounts only.
THEOREM BudgetsType == Spec => []TypeOK
<1>1. BudgetsInv => TypeOK
  BY DEF BudgetsInv
<1> QED BY <1>1, BudgetsInductive, PTL

\* apply_template_from never makes templates of a scope overlap that did not: it ends the
\* one in effect the day before and stops short of the next one.
THEOREM BudgetsStayDisjoint == Spec => StaysDisjoint
<1>1. ASSUME BudgetsInv, NEW c \in Scope, NEW m \in Month, NEW a \in Amount,
             ApplyFrom(c, m, a), Disjoint(templates, c)
      PROVE  Disjoint(templates', c)
  <2>1. TemplatesOK(templates)
    BY <1>1 DEF BudgetsInv, TypeOK, TemplatesOK
  <2>2. templates' = AppliedFrom(templates, c, m, a)
    BY <1>1 DEF ApplyFrom
  <2> QED BY <1>1, <2>1, <2>2, AppliedFromFacts
<1>2. BudgetsInv /\ [Next]_vars =>
        [\A c \in Scope, m \in Month, a \in Amount :
           ApplyFrom(c, m, a) /\ Disjoint(templates, c) => Disjoint(templates, c)']_vars
  BY <1>1
<1> QED BY <1>2, BudgetsInductive, PTL DEF Spec, StaysDisjoint

\* A change the assistant proposed is applied to the budgets its card showed: its check that
\* the scope's rows are those of the proposal (_budget_state) covers all that is in effect.
THEOREM BudgetsPlanAsShown == Spec => PlanAsShown
<1>1. ASSUME BudgetsInv, Apply, NEW q \in Month
      PROVE  Effective(plan.scope, q) = plan.shown[q]
  <2>1. plan.pc = "proposed" /\ RowsOf(templates, overrides, plan.scope) = plan.before
    BY <1>1 DEF Apply
  <2>2. EffectiveIn(plan.before.templates, plan.before.overrides, plan.scope, q) = plan.shown[q]
    BY <1>1, <2>1 DEF BudgetsInv, PlanOK
  <2>3. /\ Same(templates, plan.before.templates, plan.scope)
        /\ Same(overrides, plan.before.overrides, plan.scope)
    BY <2>1, RowsAgree
  <2> QED BY <2>2, <2>3, EffectiveOfRows DEF Effective
<1>2. BudgetsInv /\ [Next]_vars =>
        [Apply => \A q \in Month : Effective(plan.scope, q) = plan.shown[q]]_vars
  BY <1>1
<1> QED BY <1>2, BudgetsInductive, PTL DEF Spec, PlanAsShown

\* An undo of a budget change (_apply_restore_budgets) brings back what was in effect in
\* every month when the change was proposed.
THEOREM BudgetsUndoGivesBack == Spec => UndoGivesBack
<1>1. ASSUME BudgetsInv, Undo, NEW q \in Month
      PROVE  EffectiveIn(templates', overrides', plan.scope, q) = plan.shown[q]
  <2>1. plan.pc = "applied" /\ Restored(plan.before)
    BY <1>1 DEF Undo
  <2>2. /\ TemplatesOK(plan.before.templates) /\ OfScope(plan.before.templates, plan.scope)
        /\ OverridesOK(plan.before.overrides) /\ OfScope(plan.before.overrides, plan.scope)
        /\ EffectiveIn(plan.before.templates, plan.before.overrides, plan.scope, q)
             = plan.shown[q]
    BY <1>1, <2>1 DEF BudgetsInv, PlanOK
  <2> QED BY <1>1, <2>1, <2>2, RestoredFacts
<1>2. BudgetsInv /\ [Next]_vars =>
        [Undo => \A q \in Month :
           EffectiveIn(templates', overrides', plan.scope, q) = plan.shown[q]]_vars
  BY <1>1
<1> QED BY <1>2, BudgetsInductive, PTL DEF Spec, UndoGivesBack

\* A budget the assistant removes from a month on (_without_budget) is gone in every later
\* month, templates that start later and overrides included, and as it was before.
THEOREM BudgetsRemovalEndsIt == Spec => RemovalEndsIt
<1>1. ASSUME BudgetsInv, Apply, plan.kind = "remove", NEW q \in Month
      PROVE  EffectiveIn(templates', overrides', plan.scope, q) =
               IF q < plan.month THEN plan.shown[q] ELSE Null
  <2> DEFINE left == WithoutBudget(plan.before, plan.month)
  <2>1. plan.pc = "proposed" /\ Restored(left)
    BY <1>1 DEF Apply
  <2>2. /\ TemplatesOK(plan.before.templates) /\ OfScope(plan.before.templates, plan.scope)
        /\ OverridesOK(plan.before.overrides) /\ OfScope(plan.before.overrides, plan.scope)
        /\ plan.month \in Month
        /\ EffectiveIn(plan.before.templates, plan.before.overrides, plan.scope, q)
             = plan.shown[q]
    BY <1>1, <2>1 DEF BudgetsInv, PlanOK
  <2>3. /\ TemplatesOK(left.templates) /\ OfScope(left.templates, plan.scope)
        /\ OverridesOK(left.overrides) /\ OfScope(left.overrides, plan.scope)
    BY <2>2, WithoutBudgetTyped
  <2>4. EffectiveIn(left.templates, left.overrides, plan.scope, q)
          = IF q < plan.month THEN plan.shown[q] ELSE Null
    BY <2>2, RemovedEffect
  <2> HIDE DEF left
  <2>5. EffectiveIn(templates', overrides', plan.scope, q)
          = EffectiveIn(left.templates, left.overrides, plan.scope, q)
    BY <1>1, <2>1, <2>3, RestoredFacts
  <2> QED BY <2>4, <2>5
<1>2. BudgetsInv /\ [Next]_vars =>
        [Apply /\ plan.kind = "remove" =>
           \A q \in Month :
             EffectiveIn(templates', overrides', plan.scope, q) =
               IF q < plan.month THEN plan.shown[q] ELSE Null]_vars
  BY <1>1
<1> QED BY <1>2, BudgetsInductive, PTL DEF Spec, RemovalEndsIt

\* CategoryService.merge gives every month that had a budget in either category one of the
\* two, and leaves the source without: no override or template is lost on the way.
THEOREM BudgetsMergeKeeps == Spec => MergeKeepsBudgets
<1> DEFINE kept(s, t, q) ==
      /\ Effective(s, q)' = Null
      /\ Effective(t, q)' \in {Effective(s, q), Effective(t, q)}
      /\ Effective(t, q)' = Null => Effective(s, q) = Null /\ Effective(t, q) = Null
<1>1. ASSUME BudgetsInv, NEW s \in Scope, NEW t \in Scope, Merge(s, t), NEW q \in Month
      PROVE  kept(s, t, q)
  <2>1. TemplatesOK(templates) /\ OverridesOK(overrides)
    BY <1>1 DEF BudgetsInv, TypeOK, TemplatesOK, OverridesOK
  <2>2. /\ s # t /\ ~Conflict(templates, s, t) /\ ~Conflict(overrides, s, t)
        /\ templates' = Moved(templates, s, t) /\ overrides' = Moved(overrides, s, t)
    BY <1>1 DEF Merge
  <2> QED BY <2>1, <2>2, MergedEffect DEF Effective
<1>2. BudgetsInv /\ [Next]_vars =>
        [\A s, t \in Scope : Merge(s, t) => \A q \in Month : kept(s, t, q)]_vars
  BY <1>1
<1> QED BY <1>2, BudgetsInductive, PTL DEF Spec, MergeKeepsBudgets

\* An amount set from a month on (apply_template_from) changes no month before it, holds
\* in that month, and later until the next scheduled template; overridden months keep
\* theirs, and no month that had a budget loses it unless templates were nested.
THEOREM BudgetsOnwardChanges == Spec => OnwardChangesItsMonths
<1>1. Init => EndsInv
  BY DEF Init, EndsInv, EndsLater, NoPlan
<1>2. BudgetsInv /\ EndsInv /\ [Next]_vars => EndsInv'
  BY NextEnds
<1>3. BudgetsInv /\ EndsInv /\ [Next]_vars =>
        [\A c \in Scope, m \in Month, a \in Amount :
           ApplyFrom(c, m, a) => ChangedFrom(c, m, a)]_vars
  BY OnwardEffect
<1> QED BY <1>1, <1>2, <1>3, BudgetsInductive, PTL DEF Spec, OnwardChangesItsMonths
=============================================================================
