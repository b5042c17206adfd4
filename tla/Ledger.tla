------------------------------- MODULE Ledger -------------------------------
(***************************************************************************)
(* One user's transactions, the reimbursement allocations between them,    *)
(* the durable purchases tracked on them and the monthly rollup the        *)
(* dashboard reads instead of summing transactions.                        *)
(*                                                                         *)
(* Every action is one whole service call of TransactionService,           *)
(* CSVService, ReimbursementService or DurablePurchaseService, committed   *)
(* as one database transaction.  A call that raises rolls back, so the     *)
(* conditions under which the code raises are guards here.                 *)
(*                                                                         *)
(* A row that does not exist is simply not in the function's domain:       *)
(* txn and alloc are partial functions on TxnId and TxnId \X TxnId.  A     *)
(* rollup row is deleted when both of its totals are zero and created only *)
(* when one is not, so here each month has a record and zeros mean "no     *)
(* row".  The day of a transaction matters only through its month.         *)
(***************************************************************************)
EXTENDS Integers, FiniteSets, Functions

CONSTANTS
  TxnId,      \* primary keys of transactions
  Month,      \* the (year, month) pairs a transaction can fall in
  MaxCents    \* BOUND: the largest amount of a transaction

ASSUME LedgerAssumption == MaxCents \in Nat /\ IsFiniteSet(TxnId)

VARIABLES
  txn,      \* transactions: id -> row, trashed rows included
  alloc,    \* reimbursement_allocations: <<reimbursement, expense>> -> cents
  durable,  \* durable_purchases: the transactions tracked as durable
  rollup    \* monthly_rollups: month -> income and net expenses

ledgerVars == <<txn, alloc, durable, rollup>>

Cents == 0..MaxCents

TransactionType == {"income", "expense"}

TransactionRow ==
  [type : TransactionType, is_reimbursement : BOOLEAN, amount : Cents,
   month : Month, deleted : BOOLEAN]

TypeOK ==
  /\ DOMAIN txn \subseteq TxnId
  /\ txn \in [DOMAIN txn -> TransactionRow]
  /\ DOMAIN alloc \subseteq TxnId \X TxnId
  /\ alloc \in [DOMAIN alloc -> Cents \ {0}]
  /\ durable \subseteq DOMAIN txn
  /\ DOMAIN rollup = Month

-----------------------------------------------------------------------------
(* Reading the tables.  The operators that a handler evaluates after its   *)
(* flush take the tables as parameters: T for transactions, A for          *)
(* allocations.                                                            *)

IsLive(T, t) == t \in DOMAIN T /\ ~T[t].deleted

IsReimbursement(T, t) == T[t].type = "income" /\ T[t].is_reimbursement

IsExpense(T, t) == T[t].type = "expense"

\* A sum over the rows of a table: SUM(amount_cents) of the rows in S.
TotalAmount(T, S) == SumFunction([t \in S |-> T[t].amount])
TotalAllocated(A, S) == SumFunction(Restrict(A, S))

AllocationsFrom(A, r) == {p \in DOMAIN A : p[1] = r}
AllocationsInto(A, e) == {p \in DOMAIN A : p[2] = e}

\* Allocations that count: both ends live, a reimbursement and an expense.
ActiveAllocations(T, A) ==
  {p \in DOMAIN A : /\ IsLive(T, p[1]) /\ IsReimbursement(T, p[1])
                    /\ IsLive(T, p[2]) /\ IsExpense(T, p[2])}

IncomeRows(T, m) ==
  {t \in DOMAIN T : /\ ~T[t].deleted /\ T[t].month = m
                    /\ T[t].type = "income" /\ ~T[t].is_reimbursement}

ExpenseRows(T, m) ==
  {t \in DOMAIN T : ~T[t].deleted /\ T[t].month = m /\ T[t].type = "expense"}

ReimbursedRows(T, A, m) == {p \in ActiveAllocations(T, A) : T[p[2]].month = m}

AtLeastZero(n) == IF n < 0 THEN 0 ELSE n

\* recompute_monthly_rollup: income without reimbursements, and expenses net of
\* the active reimbursements of that month's expenses, whenever they came in.
MonthTotals(T, A, m) ==
  [income  |-> TotalAmount(T, IncomeRows(T, m)),
   expense |-> AtLeastZero(TotalAmount(T, ExpenseRows(T, m))
                             - TotalAllocated(A, ReimbursedRows(T, A, m)))]

\* A handler recomputes the months it believes it touched and no other.
RecomputeMonths(months) ==
  rollup' = [m \in Month |->
               IF m \in months THEN MonthTotals(txn', alloc', m) ELSE rollup[m]]

\* DELETE of transaction rows, with what the foreign keys do: allocations and
\* durable purchases of a deleted row are deleted with it.
WithoutTransactions(A, S) ==
  Restrict(A, {p \in DOMAIN A : p[1] \notin S /\ p[2] \notin S})

\* Mutant: the foreign key of durable_purchases does not cascade.
DurableWithout_NoCascade(S) == durable
DurableWithout(S) == durable \ S

\* The months of the expenses that the reimbursements in S pay for.
ExpenseMonths(T, A, S) ==
  {T[p[2]].month : p \in {q \in DOMAIN A : q[1] \in S}}

-----------------------------------------------------------------------------
(* TransactionService                                                      *)

NewRow(ty, re, a, m) ==
  [type |-> ty, is_reimbursement |-> re, amount |-> a, month |-> m,
   deleted |-> FALSE]

\* create: a reimbursement flag on an expense is refused.
Create(t, ty, re, a, m) ==
  /\ t \notin DOMAIN txn
  /\ re => ty = "income"
  /\ txn' = [u \in DOMAIN txn \cup {t} |->
               IF u = t THEN NewRow(ty, re, a, m) ELSE txn[u]]
  /\ UNCHANGED <<alloc, durable>>
  /\ RecomputeMonths({m})

\* CSVService.commit: all rows of the file, then each of their months once.  An
\* expense row's reimbursement flag is dropped.
FreshRows == {row \in TransactionRow : ~row.deleted /\ (row.is_reimbursement => row.type = "income")}

ImportCsv(rows) ==
  /\ DOMAIN rows \cap DOMAIN txn = {}
  /\ txn' = [u \in DOMAIN txn \cup DOMAIN rows |->
               IF u \in DOMAIN rows THEN rows[u] ELSE txn[u]]
  /\ UNCHANGED <<alloc, durable>>
  /\ RecomputeMonths({rows[t].month : t \in DOMAIN rows})

\* The request's is_reimbursement is optional: "unset" keeps the row's flag.
ReimbursementFlag == {"yes", "no", "unset"}

FlagAfterUpdate(row, ty, flag) ==
  /\ ty = "income"
  /\ flag = "yes" \/ (flag = "unset" /\ row.is_reimbursement)

\* Mutant: only the new month is recomputed.
MonthsOfUpdate_NewOnly(row, m, dropped) ==
  {m} \cup {txn[p[2]].month : p \in dropped}
MonthsOfUpdate(row, m, dropped) ==
  {row.month, m} \cup {txn[p[2]].month : p \in dropped}

DurableOfUpdate(t, ty) ==
  IF txn[t].type = "expense" /\ ty # "expense" THEN durable \ {t} ELSE durable

\* update: a type change is refused while allocations hang on the old type, an
\* income that stops being a reimbursement drops its allocations, an expense
\* that becomes an income drops its durable tracking, and the amount may not
\* fall below what is allocated, to and from trashed transactions included.
Update(t, ty, flag, a, m) ==
  LET old     == txn[t]
      re      == FlagAfterUpdate(old, ty, flag)
      dropped == IF IsReimbursement(txn, t) /\ ty = "income" /\ ~re
                   THEN AllocationsFrom(alloc, t) ELSE {}
  IN /\ IsLive(txn, t)
     /\ old.type = "expense" /\ ty = "income" => AllocationsInto(alloc, t) = {}
     /\ old.type = "income" /\ ty = "expense" => AllocationsFrom(alloc, t) = {}
     /\ ty = "expense" => TotalAllocated(alloc, AllocationsInto(alloc, t)) <= a
     /\ re => TotalAllocated(alloc, AllocationsFrom(alloc, t)) <= a
     /\ txn' = [txn EXCEPT ![t] = NewRow(ty, re, a, m)]
     /\ alloc' = Restrict(alloc, DOMAIN alloc \ dropped)
     /\ durable' = DurableOfUpdate(t, ty)
     /\ RecomputeMonths(MonthsOfUpdate(old, m, dropped))

\* _set_deleted_at: the months of the rows and, for a reimbursement, the months
\* of the expenses it pays for.
SetDeleted(S, flag) ==
  /\ txn' = [t \in DOMAIN txn |->
               IF t \in S THEN [txn[t] EXCEPT !.deleted = flag] ELSE txn[t]]
  /\ UNCHANGED <<alloc, durable>>
  /\ RecomputeMonths({txn[t].month : t \in S}
                       \cup ExpenseMonths(txn, alloc,
                              {t \in S : IsReimbursement(txn, t)}))

\* soft_delete and soft_delete_many
SoftDelete(S) ==
  /\ S # {} /\ \A t \in S : IsLive(txn, t)
  /\ SetDeleted(S, TRUE)

\* restore and restore_many
RestoreFromTrash(S) ==
  /\ S # {} /\ S \subseteq DOMAIN txn /\ \A t \in S : txn[t].deleted
  /\ SetDeleted(S, FALSE)

\* permanent_delete, permanent_delete_many and purge_deleted_before: only rows in
\* the trash; no rollup is recomputed.
PermanentDelete(S) ==
  /\ S # {} /\ S \subseteq DOMAIN txn /\ \A t \in S : txn[t].deleted
  /\ txn' = Restrict(txn, DOMAIN txn \ S)
  /\ alloc' = WithoutTransactions(alloc, S)
  /\ durable' = DurableWithout(S)
  /\ UNCHANGED rollup

-----------------------------------------------------------------------------
(* ReimbursementService                                                    *)

AllocationsOfFlag(t, flag) ==
  IF flag THEN alloc ELSE Restrict(alloc, DOMAIN alloc \ AllocationsFrom(alloc, t))

\* set_reimbursement: a trashed income is accepted too; clearing the flag drops
\* the allocations.
SetReimbursement(t, flag) ==
  /\ t \in DOMAIN txn
  /\ txn[t].type = "income"
  /\ txn[t].is_reimbursement # flag
  /\ txn' = [txn EXCEPT ![t].is_reimbursement = flag]
  /\ alloc' = AllocationsOfFlag(t, flag)
  /\ UNCHANGED durable
  /\ RecomputeMonths({txn[t].month}
                       \cup IF flag THEN {} ELSE ExpenseMonths(txn, alloc, {t}))

\* allocated_other: what r pays to live expenses other than e.
AllocatedOther(T, A, r, e) ==
  TotalAllocated(A, {p \in AllocationsFrom(A, r) : p[2] # e /\ IsLive(T, p[2])})

\* reimbursed_other: what e gets from others than r, trashed ones included.
\* Mutant: reimbursements in the trash are not counted, as allocated_other does
\* for expenses.
ReimbursedOther_LiveOnly(A, r, e) ==
  TotalAllocated(A, {p \in AllocationsInto(A, e) : p[1] # r /\ IsLive(txn, p[1])})
ReimbursedOther(A, r, e) ==
  TotalAllocated(A, {p \in AllocationsInto(A, e) : p[1] # r})

CanAllocate(T, A, r, e, a) ==
  /\ IsLive(T, r) /\ IsReimbursement(T, r)
  /\ IsLive(T, e) /\ IsExpense(T, e)
  /\ AllocatedOther(T, A, r, e) + a <= T[r].amount
  /\ ReimbursedOther(A, r, e) + a <= T[e].amount

\* upsert_allocation
UpsertAllocation(r, e, a) ==
  /\ a > 0
  /\ CanAllocate(txn, alloc, r, e, a)
  /\ alloc' = [p \in DOMAIN alloc \cup {<<r, e>>} |->
                 IF p = <<r, e>> THEN a ELSE alloc[p]]
  /\ UNCHANGED <<txn, durable>>
  /\ RecomputeMonths({txn[e].month})

\* delete_allocation
DeleteAllocation(p) ==
  /\ p \in DOMAIN alloc
  /\ alloc' = Restrict(alloc, DOMAIN alloc \ {p})
  /\ UNCHANGED <<txn, durable>>
  /\ RecomputeMonths({txn[p[2]].month})

-----------------------------------------------------------------------------
(* DurablePurchaseService, and the admin's rollup rebuild                  *)

UpsertDurable(t) ==
  /\ IsLive(txn, t) /\ IsExpense(txn, t)
  /\ durable' = durable \cup {t}
  /\ UNCHANGED <<txn, alloc, rollup>>

DeleteDurable(t) ==
  /\ t \in durable
  /\ durable' = durable \ {t}
  /\ UNCHANGED <<txn, alloc, rollup>>

\* rebuild_monthly_rollups: drop every row, recompute the months with a live
\* transaction.
RebuildRollups ==
  /\ rollup' = [m \in Month |->
                  IF \E t \in DOMAIN txn : IsLive(txn, t) /\ txn[t].month = m
                    THEN MonthTotals(txn, alloc, m)
                    ELSE [income |-> 0, expense |-> 0]]
  /\ UNCHANGED <<txn, alloc, durable>>

-----------------------------------------------------------------------------
Init ==
  /\ txn = <<>> /\ alloc = <<>> /\ durable = {}
  /\ rollup = [m \in Month |-> [income |-> 0, expense |-> 0]]

\* Calls that only touch transactions.
TransactionStep ==
  \/ \E t \in TxnId, ty \in TransactionType, re \in BOOLEAN, a \in Cents,
        m \in Month : Create(t, ty, re, a, m)
  \/ \E S \in SUBSET (TxnId \ DOMAIN txn) :
        \E rows \in [S -> FreshRows] : ImportCsv(rows)
  \/ \E t \in DOMAIN txn, ty \in TransactionType, flag \in ReimbursementFlag,
        a \in Cents, m \in Month : Update(t, ty, flag, a, m)
  \/ \E S \in SUBSET DOMAIN txn : SoftDelete(S)
  \/ \E S \in SUBSET DOMAIN txn : RestoreFromTrash(S)
  \/ \E S \in SUBSET DOMAIN txn : PermanentDelete(S)

ReimbursementStep ==
  \/ \E t \in DOMAIN txn, flag \in BOOLEAN : SetReimbursement(t, flag)
  \/ \E r, e \in DOMAIN txn, a \in Cents : UpsertAllocation(r, e, a)
  \/ \E p \in DOMAIN alloc : DeleteAllocation(p)

Next ==
  \/ TransactionStep
  \/ ReimbursementStep
  \/ \E t \in DOMAIN txn : UpsertDurable(t)
  \/ \E t \in DOMAIN txn : DeleteDurable(t)
  \/ RebuildRollups

Spec == Init /\ [][Next]_ledgerVars

-----------------------------------------------------------------------------
(* Properties                                                              *)

\* The rollup the dashboard reads for every month is what recomputing it from the
\* live transactions and allocations would give: no handler forgets a month it
\* touched (the old month of a moved transaction, the months of the expenses a
\* trashed or demoted reimbursement pays for), and a permanent delete, which
\* recomputes nothing, touches none.
RollupExact == \A m \in Month : rollup[m] = MonthTotals(txn, alloc, m)

\* Every allocation row joins two existing transactions, a reimbursement income
\* and an expense, through every type change, demotion, trash and purge: the sums
\* of update and upsert_allocation count rows by id alone and rely on it.
AllocationEndpoints ==
  \A p \in DOMAIN alloc :
    /\ {p[1], p[2]} \subseteq DOMAIN txn
    /\ IsReimbursement(txn, p[1])
    /\ IsExpense(txn, p[2])

\* No expense is paid back more than it cost, counting reimbursements in the trash
\* as well, so restoring one can never push an expense below zero.
ExpenseNotOverReimbursed ==
  \A e \in DOMAIN txn :
    IsExpense(txn, e) =>
      TotalAllocated(alloc, AllocationsInto(alloc, e)) <= txn[e].amount

\* What the transaction list shows per expense: gross minus active reimbursements,
\* not below zero (hydrate_reimbursement_totals).
NetAmount(e) ==
  AtLeastZero(txn[e].amount
    - TotalAllocated(alloc, ActiveAllocations(txn, alloc) \cap AllocationsInto(alloc, e)))

\* Durable tracking sits only on expenses, in the trash or not.
DurableIsExpense == \A t \in durable : IsExpense(txn, t)

\* A live reimbursement never pays out more than it brought in to live expenses.
\* upsert_allocation refuses such an allocation with "Allocation exceeds
\* reimbursement amount"; trashing an expense frees its share, restoring it does
\* not take the share back.
ReimbursementNotOverAllocated ==
  \A r \in DOMAIN txn :
    IsLive(txn, r) /\ IsReimbursement(txn, r) =>
      TotalAllocated(alloc, ActiveAllocations(txn, alloc) \cap AllocationsFrom(alloc, r))
        <= txn[r].amount
=============================================================================
