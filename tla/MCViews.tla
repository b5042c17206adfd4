------------------------------- MODULE MCViews -------------------------------
(* The screens over a small book: two expenses, a reimbursement and another *)
(* income, six days in three months.  A behaviour either changes the book   *)
(* or, over a book that stays as it is, the balance anchors.                *)
EXTENDS Views
VARIABLE part

Row(ty, re, cents, m) ==
  [type |-> ty, is_reimbursement |-> re, amount |-> cents, month |-> m, deleted |-> FALSE]
\* The book the anchors are tried on.
MCBook ==
  << Row("expense", FALSE, 3, 1), Row("expense", FALSE, 2, 2),
     Row("income", TRUE, 4, 1), Row("income", FALSE, 7, 3) >>

\* The rows a transaction may have.
Plan ==
  << {Row("expense", FALSE, 3, m) : m \in {1, 2}},
     {Row("expense", FALSE, 5, 2), Row("expense", FALSE, 2, 3)},
     {Row("income", TRUE, 4, 1), Row("income", FALSE, 4, 1)},
     {Row("income", FALSE, 7, 3)} >>

MCDayIn == <<2, 1, 1, 2>>
MCCategoryOf ==
  << [expense |-> "food", income |-> "pay"], [expense |-> "home", income |-> "pay"],
     [expense |-> "home", income |-> "gift"], [expense |-> "food", income |-> "pay"] >>
MCTagsOf == << {"trip"}, {"car", "trip"}, {"car"}, {"trip"} >>
\* Every list is cut after its first entry.
MCPlace == [food |-> 4, home |-> 3, pay |-> 2, gift |-> 1, trip |-> 6, car |-> 5]
MCLife ==
  << [acquired |-> 2, lifespan |-> 4, ended |-> 0], [acquired |-> 3, lifespan |-> 3, ended |-> 4],
     [acquired |-> 1, lifespan |-> 1, ended |-> 0], [acquired |-> 6, lifespan |-> 9, ended |-> 6] >>

ChangeBook ==
  \/ \E t \in TxnId : \E row \in Plan[t] :
       Create(t, row.type, row.is_reimbursement, row.amount, row.month)
  \/ \E t \in DOMAIN txn : \E row \in Plan[t] :
       Update(t, row.type, "unset", row.amount, row.month)
  \/ \E t \in DOMAIN txn : SoftDelete({t})
  \/ \E t \in DOMAIN txn : RestoreFromTrash({t})
  \/ \E e \in {1, 2}, cents \in {1, 3} : UpsertAllocation(3, e, cents)
  \/ \E t \in {1, 2} \cap DOMAIN txn : UpsertDurable(t)

InitPart ==
  \/ part = "book" /\ ViewsInit
  \/ /\ part = "anchors" /\ anchors = <<>> /\ alloc = <<>> /\ durable = {}
     /\ txn = [t \in TxnId |-> MCBook[t]]
     /\ rollup = [m \in Month |-> MonthTotals(txn, <<>>, m)]
NextPart ==
  /\ \/ part = "book" /\ ChangeBook /\ UNCHANGED anchors
     \/ part = "anchors" /\ AnchorStep
  /\ UNCHANGED part
SpecPart == InitPart /\ [][NextPart]_<<viewVars, part>>
=============================================================================
