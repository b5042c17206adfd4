----------------------------- MODULE BankProofs -----------------------------
(***************************************************************************)
(* Proofs about transactions, about the bank rows they answer and about    *)
(* what the screens show of them.                                          *)
(*                                                                         *)
(* The ledger, for any finite set of transaction ids, any set of months    *)
(* and any largest amount.  Structure (types, and what each allocation     *)
(* joins) is inductive by itself.  On top of it, the rollup is exact: a    *)
(* handler may skip a month only if the rows its totals are summed over    *)
(* did not change.  The bound on what an expense is paid back needs the    *)
(* arithmetic of DataLemmas.                                               *)
(*                                                                         *)
(* Then the reconciliation invariants, and that BankReconciliation         *)
(* implements BankOutcomes.  What the ledger does to its transactions      *)
(* matters here only through three facts (LedgerCallFacts): which rows     *)
(* exist, and whether a call trashes live rows or brings trashed ones      *)
(* back, never both.  The other way round, what the calls of the bank do   *)
(* to the transactions keeps the ledger's structure and its rollup exact:  *)
(* they create one row as the ledger does, or edit one (EditOne).          *)
(*                                                                         *)
(* Last the screens, for any calendar of equal months and any categories,  *)
(* tags and days of the rows.  Structure, the exact rollup and the bound   *)
(* on what an expense is paid back make a Book, and every figure of a book *)
(* is the sum over rows that the list shows: the floor under a query's     *)
(* total never counts (NetIsShown), a sum splits by any key (ListedByKey), *)
(* and a rollup is the list of its month (RollupListed).                   *)
(***************************************************************************)
EXTENDS BankReconciliation, Views, DataLemmas

(* The ledger.                                                             *)

Structure == TypeOK /\ AllocationEndpoints /\ DurableIsExpense

LEMMA NewRowType ==
  ASSUME NEW ty \in TransactionType, NEW re \in BOOLEAN, NEW a \in Cents,
         NEW m \in Month
  PROVE  NewRow(ty, re, a, m) \in TransactionRow
  BY DEF NewRow, TransactionRow

(* The types and the shape of allocations hold initially.                  *)
LEMMA InitStructure == Init => Structure
  BY DEF Init, Structure, TypeOK, AllocationEndpoints, DurableIsExpense

(* Every call preserves them.                                              *)
LEMMA NextStructure == Structure /\ [Next]_ledgerVars => Structure'
<1> SUFFICES ASSUME Structure, [Next]_ledgerVars PROVE Structure'
  OBVIOUS
<1> USE DEF Structure, TypeOK, AllocationEndpoints, DurableIsExpense,
            IsReimbursement, IsExpense, RecomputeMonths, TransactionRow,
            TransactionType
<1>1. ASSUME NEW t \in TxnId, NEW ty \in TransactionType, NEW re \in BOOLEAN,
             NEW a \in Cents, NEW m \in Month, Create(t, ty, re, a, m)
      PROVE  Structure'
  BY <1>1 DEF Create, NewRow
<1>2. ASSUME NEW S \in SUBSET (TxnId \ DOMAIN txn), NEW rows \in [S -> FreshRows],
             ImportCsv(rows)
      PROVE  Structure'
  BY <1>2 DEF ImportCsv, FreshRows
<1>3. ASSUME NEW t \in DOMAIN txn, NEW ty \in TransactionType,
             NEW flag \in ReimbursementFlag, NEW a \in Cents, NEW m \in Month,
             Update(t, ty, flag, a, m)
      PROVE  Structure'
  BY <1>3 DEF Update, NewRow, FlagAfterUpdate, AllocationsFrom, AllocationsInto,
              Restrict, DurableOfUpdate
<1>4. ASSUME NEW S \in SUBSET DOMAIN txn, NEW flag \in BOOLEAN, SetDeleted(S, flag)
      PROVE  Structure'
  BY <1>4 DEF SetDeleted
<1>5. ASSUME NEW S \in SUBSET DOMAIN txn, PermanentDelete(S)
      PROVE  Structure'
  BY <1>5 DEF PermanentDelete, WithoutTransactions, DurableWithout, Restrict
<1>6. ASSUME NEW t \in DOMAIN txn, NEW flag \in BOOLEAN, SetReimbursement(t, flag)
      PROVE  Structure'
  BY <1>6 DEF SetReimbursement, AllocationsOfFlag, AllocationsFrom, Restrict
<1>7. ASSUME NEW r \in DOMAIN txn, NEW e \in DOMAIN txn, NEW a \in Cents,
             UpsertAllocation(r, e, a)
      PROVE  Structure'
  BY <1>7 DEF UpsertAllocation, CanAllocate, Cents
<1>8. ASSUME NEW p \in DOMAIN alloc, DeleteAllocation(p)
      PROVE  Structure'
  BY <1>8 DEF DeleteAllocation, Restrict
<1>9. ASSUME NEW t \in DOMAIN txn, UpsertDurable(t) PROVE Structure'
  BY <1>9 DEF UpsertDurable
<1>10. ASSUME NEW t \in DOMAIN txn, DeleteDurable(t) PROVE Structure'
  BY <1>10 DEF DeleteDurable
<1>11. CASE RebuildRollups
  BY <1>11 DEF RebuildRollups
<1>12. CASE UNCHANGED ledgerVars
  BY <1>12 DEF ledgerVars
<1> HIDE DEF Structure, TypeOK, AllocationEndpoints, DurableIsExpense,
             IsReimbursement, IsExpense, RecomputeMonths, TransactionRow,
             TransactionType
<1>13. ASSUME TransactionStep PROVE Structure'
  <2>1. ASSUME NEW S \in SUBSET DOMAIN txn, SoftDelete(S) PROVE Structure'
    BY <1>4, <2>1 DEF SoftDelete
  <2>2. ASSUME NEW S \in SUBSET DOMAIN txn, RestoreFromTrash(S) PROVE Structure'
    BY <1>4, <2>2 DEF RestoreFromTrash
  <2> QED BY <1>1, <1>2, <1>3, <1>5, <1>13, <2>1, <2>2 DEF TransactionStep
<1>14. ASSUME ReimbursementStep PROVE Structure'
  BY <1>6, <1>7, <1>8, <1>14 DEF ReimbursementStep
<1> QED
  BY <1>9, <1>10, <1>11, <1>12, <1>13, <1>14 DEF Next

(* Type correctness, as a theorem of the specification.                    *)
THEOREM LedgerType == Spec => []TypeOK
<1>1. Structure => TypeOK
  BY DEF Structure
<1> QED BY <1>1, InitStructure, NextStructure, PTL DEF Spec

(* Every allocation joins an existing reimbursement and an existing        *)
(* expense, whatever is edited, demoted, trashed or purged meanwhile.      *)
THEOREM LedgerAllocationEndpoints == Spec => []AllocationEndpoints
<1>1. Structure => AllocationEndpoints
  BY DEF Structure
<1> QED BY <1>1, InitStructure, NextStructure, PTL DEF Spec

-----------------------------------------------------------------------------
(* The rollup.                                                             *)

LiveIn(T, m) == {t \in DOMAIN T : ~T[t].deleted /\ T[t].month = m}

(* A month's totals depend on the live rows dated in it and on the active  *)
(* allocations to its expenses, and on nothing else.                       *)
LEMMA TotalsUnchanged ==
  ASSUME NEW T1, NEW T2, NEW A1, NEW A2, NEW m,
         LiveIn(T2, m) = LiveIn(T1, m),
         \A t \in LiveIn(T1, m) : T2[t] = T1[t],
         ReimbursedRows(T2, A2, m) = ReimbursedRows(T1, A1, m),
         \A p \in ReimbursedRows(T1, A1, m) : A2[p] = A1[p]
  PROVE  MonthTotals(T2, A2, m) = MonthTotals(T1, A1, m)
<1>1. IncomeRows(T2, m) = IncomeRows(T1, m)
  BY DEF IncomeRows, LiveIn
<1>2. ExpenseRows(T2, m) = ExpenseRows(T1, m)
  BY DEF ExpenseRows, LiveIn
<1>3. \A t \in IncomeRows(T1, m) \cup ExpenseRows(T1, m) : T2[t] = T1[t]
  BY DEF IncomeRows, ExpenseRows, LiveIn
<1>4. TotalAmount(T2, IncomeRows(T2, m)) = TotalAmount(T1, IncomeRows(T1, m))
  <2>1. [t \in IncomeRows(T2, m) |-> T2[t].amount]
          = [t \in IncomeRows(T1, m) |-> T1[t].amount]
    BY <1>1, <1>3
  <2> QED BY <2>1 DEF TotalAmount
<1>5. TotalAmount(T2, ExpenseRows(T2, m)) = TotalAmount(T1, ExpenseRows(T1, m))
  <2>1. [t \in ExpenseRows(T2, m) |-> T2[t].amount]
          = [t \in ExpenseRows(T1, m) |-> T1[t].amount]
    BY <1>2, <1>3
  <2> QED BY <2>1 DEF TotalAmount
<1>6. TotalAllocated(A2, ReimbursedRows(T2, A2, m))
        = TotalAllocated(A1, ReimbursedRows(T1, A1, m))
  <2>1. Restrict(A2, ReimbursedRows(T2, A2, m))
          = Restrict(A1, ReimbursedRows(T1, A1, m))
    BY DEF Restrict
  <2> QED BY <2>1 DEF TotalAllocated
<1> QED BY <1>4, <1>5, <1>6 DEF MonthTotals

(* A month without live transactions has zero totals.                      *)
LEMMA TotalsOfNothing ==
  ASSUME NEW T, NEW A, NEW m, LiveIn(T, m) = {}
  PROVE  MonthTotals(T, A, m) = [income |-> 0, expense |-> 0]
<1>1. IncomeRows(T, m) = {} /\ ExpenseRows(T, m) = {}
  BY DEF IncomeRows, ExpenseRows, LiveIn
<1>2. ReimbursedRows(T, A, m) = {}
  BY DEF ReimbursedRows, ActiveAllocations, LiveIn, IsLive
<1>3. TotalAmount(T, {}) = 0
  BY SumOfNothing DEF TotalAmount
<1>4. TotalAllocated(A, {}) = 0
  BY SumOfNothing DEF TotalAllocated, Restrict
<1> QED BY <1>1, <1>2, <1>3, <1>4 DEF MonthTotals, AtLeastZero

LEMMA InitRollup == Init => RollupExact
<1> SUFFICES ASSUME Init, NEW m \in Month
             PROVE  rollup[m] = MonthTotals(txn, alloc, m)
  BY DEF RollupExact
<1>1. LiveIn(txn, m) = {}
  BY DEF Init, LiveIn
<1> QED BY <1>1, TotalsOfNothing DEF Init

(* A handler keeps the rollup exact if the months it skips did not change.  *)
LEMMA RecomputeExact ==
  ASSUME NEW months, RecomputeMonths(months), RollupExact,
         \A m \in Month \ months :
           /\ LiveIn(txn', m) = LiveIn(txn, m)
           /\ \A t \in LiveIn(txn, m) : txn'[t] = txn[t]
           /\ ReimbursedRows(txn', alloc', m) = ReimbursedRows(txn, alloc, m)
           /\ \A p \in ReimbursedRows(txn, alloc, m) : alloc'[p] = alloc[p]
  PROVE  RollupExact'
<1> SUFFICES ASSUME NEW m \in Month
             PROVE  rollup'[m] = MonthTotals(txn', alloc', m)
  BY DEF RollupExact
<1>1. CASE m \in months
  BY <1>1 DEF RecomputeMonths
<1>2. CASE m \notin months
  <2>1. rollup'[m] = MonthTotals(txn, alloc, m)
    BY <1>2 DEF RecomputeMonths, RollupExact
  <2> QED BY <1>2, <2>1, TotalsUnchanged
<1> QED BY <1>1, <1>2

LEMMA NextRollup ==
  Structure /\ Structure' /\ RollupExact /\ [Next]_ledgerVars => RollupExact'
<1> SUFFICES ASSUME Structure, Structure', RollupExact, [Next]_ledgerVars
             PROVE  RollupExact'
  OBVIOUS
<1>a. /\ DOMAIN txn \subseteq TxnId
      /\ \A t \in DOMAIN txn : txn[t] \in TransactionRow
      /\ \A p \in DOMAIN alloc :
           /\ p[1] \in DOMAIN txn /\ p[2] \in DOMAIN txn
           /\ txn[p[1]].type = "income" /\ txn[p[1]].is_reimbursement
           /\ txn[p[2]].type = "expense"
  BY DEF Structure, TypeOK, AllocationEndpoints, IsReimbursement, IsExpense
<1> DEFINE Same(m) ==
      /\ LiveIn(txn', m) = LiveIn(txn, m)
      /\ \A t \in LiveIn(txn, m) : txn'[t] = txn[t]
      /\ ReimbursedRows(txn', alloc', m) = ReimbursedRows(txn, alloc, m)
      /\ \A p \in ReimbursedRows(txn, alloc, m) : alloc'[p] = alloc[p]
<1>1. ASSUME NEW t \in TxnId, NEW ty \in TransactionType, NEW re \in BOOLEAN,
             NEW a \in Cents, NEW m \in Month, Create(t, ty, re, a, m)
      PROVE  RollupExact'
  <2>1. \A n \in Month \ {m} : Same(n)
    BY <1>1, <1>a DEF Create, NewRow, LiveIn, ReimbursedRows, ActiveAllocations,
                      IsLive, IsReimbursement, IsExpense
  <2> QED BY <1>1, <2>1, RecomputeExact DEF Create
<1>2. ASSUME NEW S \in SUBSET (TxnId \ DOMAIN txn), NEW rows \in [S -> FreshRows],
             ImportCsv(rows)
      PROVE  RollupExact'
  <2> DEFINE months == {rows[t].month : t \in DOMAIN rows}
  <2>1. \A n \in Month \ months : Same(n)
    BY <1>2, <1>a DEF ImportCsv, LiveIn, ReimbursedRows, ActiveAllocations,
                      IsLive, IsReimbursement, IsExpense
  <2>2. RecomputeMonths(months)
    BY <1>2 DEF ImportCsv
  <2> HIDE DEF months
  <2> QED BY <2>1, <2>2, RecomputeExact
<1>3. ASSUME NEW t \in DOMAIN txn, NEW ty \in TransactionType,
             NEW flag \in ReimbursementFlag, NEW a \in Cents, NEW m \in Month,
             Update(t, ty, flag, a, m)
      PROVE  RollupExact'
  <2> DEFINE re == FlagAfterUpdate(txn[t], ty, flag)
             dropped == IF IsReimbursement(txn, t) /\ ty = "income" /\ ~re
                          THEN AllocationsFrom(alloc, t) ELSE {}
             months == {txn[t].month, m} \cup {txn[p[2]].month : p \in dropped}
  <2>1. /\ RecomputeMonths(months)
        /\ txn' = [txn EXCEPT ![t] = NewRow(ty, re, a, m)]
        /\ alloc' = Restrict(alloc, DOMAIN alloc \ dropped)
    BY <1>3 DEF Update, MonthsOfUpdate
  <2>2. ASSUME NEW n \in Month \ months
        PROVE  LiveIn(txn', n) = LiveIn(txn, n) /\ \A u \in LiveIn(txn, n) : txn'[u] = txn[u]
    BY <2>1, <2>2 DEF LiveIn, NewRow
  <2>3. ASSUME NEW n \in Month \ months, NEW p \in DOMAIN alloc, txn[p[2]].month = n
        PROVE  p \in ReimbursedRows(txn', alloc', n) <=> p \in ReimbursedRows(txn, alloc, n)
    <3>1. p \notin dropped /\ p[2] # t
      BY <2>3
    <3>2. p \in DOMAIN alloc' /\ txn'[p[2]] = txn[p[2]]
      BY <1>a, <2>1, <3>1 DEF Restrict
    <3>3. p[1] = t => IsReimbursement(txn', t) /\ IsLive(txn', t) /\ IsLive(txn, t)
      BY <1>3, <1>a, <2>1, <3>1
         DEF Update, NewRow, IsReimbursement, IsLive, AllocationsFrom,
             FlagAfterUpdate, TransactionType
    <3>4. p[1] # t => txn'[p[1]] = txn[p[1]]
      BY <1>a, <2>1
    <3> QED BY <1>a, <2>1, <2>3, <3>2, <3>3, <3>4
       DEF ReimbursedRows, ActiveAllocations, IsLive, IsReimbursement, IsExpense
  <2>4. ASSUME NEW n \in Month \ months, NEW p \in DOMAIN alloc,
               p \in ReimbursedRows(txn', alloc', n)
        PROVE  txn[p[2]].month = n
    BY <1>a, <2>1, <2>4 DEF ReimbursedRows, NewRow
  <2>5. DOMAIN alloc' \subseteq DOMAIN alloc /\ \A p \in DOMAIN alloc' : alloc'[p] = alloc[p]
    BY <2>1 DEF Restrict
  <2>6. \A n \in Month \ months : Same(n)
    <3> HIDE DEF months
    <3> QED BY <2>2, <2>3, <2>4, <2>5 DEF ReimbursedRows, ActiveAllocations
  <2> HIDE DEF months
  <2> QED BY <2>1, <2>6, RecomputeExact
<1>4. ASSUME NEW S \in SUBSET DOMAIN txn, NEW flag \in BOOLEAN, SetDeleted(S, flag),
             \A t \in S : txn[t].deleted # flag
      PROVE  RollupExact'
  <2> DEFINE months == {txn[t].month : t \in S}
                         \cup ExpenseMonths(txn, alloc, {t \in S : IsReimbursement(txn, t)})
  <2>1. RecomputeMonths(months) /\ UNCHANGED alloc
    BY <1>4 DEF SetDeleted
  <2>2. \A t \in DOMAIN txn \ S : txn'[t] = txn[t]
    BY <1>4 DEF SetDeleted
  <2>3. DOMAIN txn' = DOMAIN txn /\ \A t \in DOMAIN txn : txn'[t].month = txn[t].month
    BY <1>4, <1>a DEF SetDeleted, TransactionRow
  <2>4. ASSUME NEW n \in Month \ months
        PROVE  LiveIn(txn', n) = LiveIn(txn, n) /\ \A u \in LiveIn(txn, n) : txn'[u] = txn[u]
    BY <2>2, <2>3 DEF LiveIn
  <2>5. ASSUME NEW n \in Month \ months, NEW p \in DOMAIN alloc, txn[p[2]].month = n
        PROVE  p[1] \notin S /\ p[2] \notin S
    BY <1>a, <2>5 DEF ExpenseMonths, IsReimbursement
  <2>6. \A n \in Month \ months : Same(n)
    <3> HIDE DEF months
    <3> QED BY <1>a, <2>1, <2>2, <2>3, <2>4, <2>5
         DEF ReimbursedRows, ActiveAllocations, IsLive, IsReimbursement, IsExpense
  <2> HIDE DEF months
  <2> QED BY <2>1, <2>6, RecomputeExact
<1>5. ASSUME NEW S \in SUBSET DOMAIN txn, PermanentDelete(S)
      PROVE  RollupExact'
  <2>1. \A n \in Month : Same(n)
    BY <1>5, <1>a DEF PermanentDelete, WithoutTransactions, Restrict, LiveIn,
         ReimbursedRows, ActiveAllocations, IsLive, IsReimbursement, IsExpense
  <2>2. \A n \in Month : rollup'[n] = rollup[n]
    BY <1>5 DEF PermanentDelete
  <2> QED BY <2>1, <2>2, TotalsUnchanged DEF RollupExact
<1>6. ASSUME NEW t \in DOMAIN txn, NEW flag \in BOOLEAN, SetReimbursement(t, flag)
      PROVE  RollupExact'
  <2> DEFINE months == {txn[t].month}
                         \cup IF flag THEN {} ELSE ExpenseMonths(txn, alloc, {t})
  <2>1. /\ RecomputeMonths(months)
        /\ txn[t].type = "income" /\ txn[t].is_reimbursement # flag
        /\ txn' = [txn EXCEPT ![t].is_reimbursement = flag]
        /\ alloc' = IF flag THEN alloc
                    ELSE Restrict(alloc, DOMAIN alloc \ AllocationsFrom(alloc, t))
    BY <1>6 DEF SetReimbursement, AllocationsOfFlag
  <2>2. DOMAIN txn' = DOMAIN txn /\ \A u \in DOMAIN txn \ {t} : txn'[u] = txn[u]
    BY <2>1
  <2>3. /\ txn'[t].month = txn[t].month
        /\ txn'[t].type = "income"
    BY <2>1, <1>a DEF TransactionRow
  <2>4. ASSUME NEW n \in Month \ months, NEW p \in DOMAIN alloc, txn[p[2]].month = n
        PROVE  p[1] # t /\ p[2] # t
    BY <1>a, <2>1, <2>4 DEF ExpenseMonths
  <2>5. DOMAIN alloc' \subseteq DOMAIN alloc /\ \A p \in DOMAIN alloc' : alloc'[p] = alloc[p]
    BY <2>1 DEF Restrict
  <2>6. \A p \in DOMAIN alloc : p[1] # t => p \in DOMAIN alloc'
    BY <2>1 DEF Restrict, AllocationsFrom
  <2>7. \A n \in Month \ months : n # txn[t].month
    OBVIOUS
  <2>8. \A n \in Month \ months : Same(n)
    <3> HIDE DEF months
    <3> QED BY <1>a, <2>2, <2>3, <2>4, <2>5, <2>6, <2>7
         DEF LiveIn, ReimbursedRows, ActiveAllocations, IsLive, IsReimbursement, IsExpense
  <2> HIDE DEF months
  <2> QED BY <2>1, <2>8, RecomputeExact
<1>7. ASSUME NEW r \in DOMAIN txn, NEW e \in DOMAIN txn, NEW a \in Cents,
             UpsertAllocation(r, e, a)
      PROVE  RollupExact'
  <2>1. \A n \in Month \ {txn[e].month} : Same(n)
    BY <1>7, <1>a DEF UpsertAllocation, LiveIn, ReimbursedRows, ActiveAllocations
  <2> QED BY <1>7, <2>1, RecomputeExact DEF UpsertAllocation
<1>8. ASSUME NEW p \in DOMAIN alloc, DeleteAllocation(p)
      PROVE  RollupExact'
  <2>1. \A n \in Month \ {txn[p[2]].month} : Same(n)
    BY <1>8, <1>a DEF DeleteAllocation, Restrict, LiveIn, ReimbursedRows, ActiveAllocations
  <2> QED BY <1>8, <2>1, RecomputeExact DEF DeleteAllocation
<1>9. ASSUME UNCHANGED <<txn, alloc, rollup>> PROVE RollupExact'
  BY <1>9 DEF RollupExact
<1>10. CASE RebuildRollups
  <2> SUFFICES ASSUME NEW m \in Month
               PROVE  rollup'[m] = MonthTotals(txn', alloc', m)
    BY DEF RollupExact
  <2>1. UNCHANGED <<txn, alloc>>
    BY <1>10 DEF RebuildRollups
  <2>2. CASE \E t \in DOMAIN txn : IsLive(txn, t) /\ txn[t].month = m
    BY <1>10, <2>1, <2>2 DEF RebuildRollups
  <2>3. CASE ~ \E t \in DOMAIN txn : IsLive(txn, t) /\ txn[t].month = m
    <3>1. LiveIn(txn, m) = {}
      BY <2>3 DEF LiveIn, IsLive
    <3>2. rollup'[m] = [income |-> 0, expense |-> 0]
      BY <1>10, <2>3 DEF RebuildRollups
    <3> QED BY <2>1, <3>1, <3>2, TotalsOfNothing
  <2> QED BY <2>2, <2>3
<1>11. ASSUME TransactionStep PROVE RollupExact'
  <2>1. ASSUME NEW S \in SUBSET DOMAIN txn, SoftDelete(S) PROVE RollupExact'
    BY <1>4, <2>1 DEF SoftDelete, IsLive
  <2>2. ASSUME NEW S \in SUBSET DOMAIN txn, RestoreFromTrash(S) PROVE RollupExact'
    BY <1>4, <2>2 DEF RestoreFromTrash
  <2> QED BY <1>1, <1>2, <1>3, <1>5, <1>11, <2>1, <2>2 DEF TransactionStep
<1>12. ASSUME ReimbursementStep PROVE RollupExact'
  BY <1>6, <1>7, <1>8, <1>12 DEF ReimbursementStep
<1> QED
  BY <1>9, <1>10, <1>11, <1>12 DEF Next, UpsertDurable, DeleteDurable, ledgerVars

(* The stored monthly totals always equal the recomputed ones.             *)
THEOREM LedgerRollupExact == Spec => []RollupExact
<1>1. Structure /\ RollupExact /\ [Next]_ledgerVars => (Structure /\ RollupExact)'
  BY NextStructure, NextRollup
<1> QED BY <1>1, InitStructure, InitRollup, PTL DEF Spec

-----------------------------------------------------------------------------
(* What an expense is paid back.                                           *)

Within(T, A, e) == TotalAllocated(A, AllocationsInto(A, e)) <= T[e].amount

AllocTable(A) ==
  /\ DOMAIN A \subseteq TxnId \X TxnId
  /\ \A p \in DOMAIN A : A[p] \in Nat

LEMMA AllocFinite ==
  ASSUME NEW A, AllocTable(A)
  PROVE  IsFiniteSet(DOMAIN A)
<1>1. IsFiniteSet(TxnId \X TxnId)
  BY FS_Product, LedgerAssumption
<1> QED BY <1>1, FS_Subset DEF AllocTable

(* Dropping allocation rows lowers no total that is checked.               *)
LEMMA FewerAllocations ==
  ASSUME NEW A, AllocTable(A), NEW B, DOMAIN B \subseteq DOMAIN A,
         \A p \in DOMAIN B : B[p] = A[p], NEW e
  PROVE  /\ TotalAllocated(A, AllocationsInto(A, e)) \in Nat
         /\ TotalAllocated(B, AllocationsInto(B, e)) \in Nat
         /\ TotalAllocated(B, AllocationsInto(B, e))
              <= TotalAllocated(A, AllocationsInto(A, e))
<1> DEFINE S == AllocationsInto(A, e)
           R == AllocationsInto(B, e)
           f == Restrict(A, S)
           g == Restrict(B, R)
<1>1. IsFiniteSet(S)
  <2>1. S \in SUBSET DOMAIN A
    BY DEF AllocationsInto
  <2> QED BY <2>1, AllocFinite, FS_Subset
<1>2. f \in [S -> Nat]
  BY DEF AllocTable, AllocationsInto, Restrict
<1>3. R \in SUBSET S /\ DOMAIN g = R /\ \A p \in R : g[p] = f[p]
  BY DEF AllocationsInto, Restrict
<1> HIDE DEF S, R, f, g
<1>4. SumFunction(f) \in Nat /\ SumFunction(g) \in Nat /\ SumFunction(g) <= SumFunction(f)
  BY <1>1, <1>2, <1>3, SumOfPart
<1> QED BY <1>4 DEF TotalAllocated, f, g, S, R

(* Writing one allocation row: the total into its expense is the new       *)
(* amount plus what the others pay, the totals into other expenses stay.   *)
LEMMA OneAllocation ==
  ASSUME NEW A, AllocTable(A), NEW B, AllocTable(B), NEW r, NEW e,
         DOMAIN B = DOMAIN A \cup {<<r, e>>},
         \A p \in DOMAIN A : p # <<r, e>> => B[p] = A[p]
  PROVE  /\ TotalAllocated(B, AllocationsInto(B, e))
              = B[<<r, e>>] + ReimbursedOther(A, r, e)
         /\ \A d : d # e => TotalAllocated(B, AllocationsInto(B, d))
                              = TotalAllocated(A, AllocationsInto(A, d))
<1> DEFINE S == AllocationsInto(B, e)
           R == {p \in AllocationsInto(A, e) : p[1] # r}
           f == Restrict(B, S)
           g == Restrict(A, R)
<1>1. IsFiniteSet(S)
  <2>1. S \in SUBSET DOMAIN B
    BY DEF AllocationsInto
  <2> QED BY <2>1, AllocFinite, FS_Subset
<1>2. f \in [S -> Int]
  BY DEF AllocTable, AllocationsInto, Restrict
<1>3. <<r, e>> \in S
  BY DEF AllocationsInto
<1>4. R = S \ {<<r, e>>}
  <2>1. \A p \in DOMAIN B : p = <<p[1], p[2]>>
    BY DEF AllocTable
  <2> QED BY <2>1 DEF AllocationsInto
<1>5. DOMAIN g = S \ {<<r, e>>} /\ \A p \in S \ {<<r, e>>} : g[p] = f[p]
  BY <1>4 DEF AllocationsInto, Restrict
<1>6. f[<<r, e>>] = B[<<r, e>>]
  BY <1>3 DEF Restrict
<1>7. SumFunction(f) = f[<<r, e>>] + SumFunction(g)
  <2> HIDE DEF S, R, f, g
  <2>1. DOMAIN g = R /\ \A p \in R : g[p] = f[p]
    BY <1>4, <1>5
  <2> QED BY <1>1, <1>2, <1>3, <1>4, <2>1, SumWithout
<1>8. ASSUME NEW d, d # e
      PROVE  TotalAllocated(B, AllocationsInto(B, d)) = TotalAllocated(A, AllocationsInto(A, d))
  <2>1. AllocationsInto(B, d) = AllocationsInto(A, d)
    BY <1>8 DEF AllocationsInto
  <2>2. Restrict(B, AllocationsInto(B, d)) = Restrict(A, AllocationsInto(A, d))
    BY <1>8, <2>1 DEF AllocationsInto, Restrict
  <2> QED BY <2>2 DEF TotalAllocated
<1> QED BY <1>6, <1>7, <1>8 DEF TotalAllocated, ReimbursedOther

LEMMA NextReimbursed ==
  Structure /\ Structure' /\ ExpenseNotOverReimbursed /\ [Next]_ledgerVars
    => ExpenseNotOverReimbursed'
<1> SUFFICES ASSUME Structure, Structure', ExpenseNotOverReimbursed, [Next]_ledgerVars
             PROVE  ExpenseNotOverReimbursed'
  OBVIOUS
<1>a. /\ AllocTable(alloc) /\ AllocTable(alloc')
      /\ \A p \in DOMAIN alloc : p[1] \in DOMAIN txn /\ p[2] \in DOMAIN txn
      /\ \A t \in DOMAIN txn : txn[t].amount \in Nat
      /\ \A t \in DOMAIN txn' : txn'[t].amount \in Nat
  BY LedgerAssumption
     DEF Structure, TypeOK, AllocationEndpoints, AllocTable, TransactionRow, Cents
<1>b. \A e \in DOMAIN txn : txn[e].type = "expense" => Within(txn, alloc, e)
  BY DEF ExpenseNotOverReimbursed, IsExpense, Within
<1>c. SUFFICES ASSUME NEW e \in DOMAIN txn', txn'[e].type = "expense"
               PROVE  Within(txn', alloc', e)
  BY DEF ExpenseNotOverReimbursed, IsExpense, Within
<1>d. ASSUME e \in DOMAIN txn, txn[e].type = "expense", txn'[e].amount = txn[e].amount,
             DOMAIN alloc' \subseteq DOMAIN alloc,
             \A p \in DOMAIN alloc' : alloc'[p] = alloc[p]
      PROVE  Within(txn', alloc', e)
  BY <1>a, <1>b, <1>d, FewerAllocations DEF Within
<1>e. ASSUME e \notin DOMAIN txn, UNCHANGED alloc
      PROVE  Within(txn', alloc', e)
  <2>1. AllocationsInto(alloc', e) = {}
    BY <1>a, <1>e DEF AllocationsInto
  <2>2. TotalAllocated(alloc', AllocationsInto(alloc', e)) = 0
    BY <2>1, SumOfNothing DEF TotalAllocated, Restrict
  <2>3. txn'[e].amount \in Nat
    BY <1>a
  <2> QED BY <2>2, <2>3 DEF Within
<1>1. ASSUME NEW t \in TxnId, NEW ty \in TransactionType, NEW re \in BOOLEAN,
             NEW a \in Cents, NEW m \in Month, Create(t, ty, re, a, m)
      PROVE  Within(txn', alloc', e)
  BY <1>1, <1>c, <1>d, <1>e DEF Create
<1>2. ASSUME NEW S \in SUBSET (TxnId \ DOMAIN txn), NEW rows \in [S -> FreshRows],
             ImportCsv(rows)
      PROVE  Within(txn', alloc', e)
  BY <1>2, <1>c, <1>d, <1>e DEF ImportCsv
<1>3. ASSUME NEW t \in DOMAIN txn, NEW ty \in TransactionType,
             NEW flag \in ReimbursementFlag, NEW a \in Cents, NEW m \in Month,
             Update(t, ty, flag, a, m)
      PROVE  Within(txn', alloc', e)
  <2>1. DOMAIN alloc' \subseteq DOMAIN alloc /\ \A p \in DOMAIN alloc' : alloc'[p] = alloc[p]
    BY <1>3 DEF Update, Restrict
  <2>2. CASE e = t
    <3>1. ty = "expense" /\ txn'[e].amount = a
      BY <1>3, <1>c, <2>2 DEF Update, NewRow
    <3>2. TotalAllocated(alloc, AllocationsInto(alloc, e)) <= a
      BY <1>3, <2>2, <3>1 DEF Update
    <3>3. a \in Nat
      BY <1>a, <1>c, <3>1
    <3> QED BY <1>a, <2>1, <3>1, <3>2, <3>3, FewerAllocations DEF Within
  <2>3. CASE e # t
    BY <1>3, <1>c, <1>d, <2>1, <2>3 DEF Update
  <2> QED BY <2>2, <2>3
<1>4. ASSUME NEW S \in SUBSET DOMAIN txn, NEW flag \in BOOLEAN, SetDeleted(S, flag)
      PROVE  Within(txn', alloc', e)
  <2>1. e \in DOMAIN txn /\ txn'[e].type = txn[e].type /\ txn'[e].amount = txn[e].amount
    BY <1>4, <1>c DEF SetDeleted, Structure, TypeOK, TransactionRow
  <2> QED BY <1>4, <1>c, <1>d, <2>1 DEF SetDeleted
<1>5. ASSUME NEW S \in SUBSET DOMAIN txn, PermanentDelete(S)
      PROVE  Within(txn', alloc', e)
  BY <1>5, <1>c, <1>d DEF PermanentDelete, WithoutTransactions, Restrict
<1>6. ASSUME NEW t \in DOMAIN txn, NEW flag \in BOOLEAN, SetReimbursement(t, flag)
      PROVE  Within(txn', alloc', e)
  <2>1. e \in DOMAIN txn /\ txn'[e].type = txn[e].type /\ txn'[e].amount = txn[e].amount
    BY <1>6, <1>c DEF SetReimbursement, Structure, TypeOK, TransactionRow
  <2> QED BY <1>6, <1>c, <1>d, <2>1 DEF SetReimbursement, AllocationsOfFlag, Restrict
<1>7. ASSUME NEW r \in DOMAIN txn, NEW x \in DOMAIN txn, NEW a \in Cents,
             UpsertAllocation(r, x, a)
      PROVE  Within(txn', alloc', e)
  <2>1. /\ DOMAIN alloc' = DOMAIN alloc \cup {<<r, x>>}
        /\ \A p \in DOMAIN alloc : p # <<r, x>> => alloc'[p] = alloc[p]
        /\ alloc'[<<r, x>>] = a
        /\ UNCHANGED txn
    BY <1>7 DEF UpsertAllocation
  <2>2. CASE e = x
    <3>1. TotalAllocated(alloc', AllocationsInto(alloc', e)) = a + ReimbursedOther(alloc, r, e)
      BY <1>a, <2>1, <2>2, OneAllocation
    <3>2. ReimbursedOther(alloc, r, e) + a <= txn[e].amount
      BY <1>7, <2>2 DEF UpsertAllocation, CanAllocate
    <3>3. a \in Int /\ ReimbursedOther(alloc, r, e) \in Int
      <4> DEFINE R == {p \in AllocationsInto(alloc, e) : p[1] # r}
      <4>1. IsFiniteSet(R)
        <5>1. R \in SUBSET DOMAIN alloc
          BY DEF AllocationsInto
        <5> QED BY <1>a, <5>1, AllocFinite, FS_Subset
      <4>2. Restrict(alloc, R) \in [R -> Int]
        BY <1>a DEF AllocTable, AllocationsInto, Restrict
      <4>3. SumFunction(Restrict(alloc, R)) \in Int
        <5> HIDE DEF R
        <5> QED BY <4>1, <4>2, SumType
      <4> QED BY <4>3, LedgerAssumption DEF ReimbursedOther, TotalAllocated, Cents
    <3> QED BY <2>1, <3>1, <3>2, <3>3 DEF Within
  <2>3. CASE e # x
    <3>1. TotalAllocated(alloc', AllocationsInto(alloc', e))
            = TotalAllocated(alloc, AllocationsInto(alloc, e))
      BY <1>a, <2>1, <2>3, OneAllocation
    <3> QED BY <1>b, <1>c, <2>1, <3>1 DEF Within
  <2> QED BY <2>2, <2>3
<1>8. ASSUME NEW p \in DOMAIN alloc, DeleteAllocation(p)
      PROVE  Within(txn', alloc', e)
  BY <1>8, <1>c, <1>d DEF DeleteAllocation, Restrict
<1>9. ASSUME UNCHANGED <<txn, alloc>> PROVE Within(txn', alloc', e)
  BY <1>9, <1>b, <1>c
<1>10. ASSUME TransactionStep PROVE Within(txn', alloc', e)
  <2>1. ASSUME NEW S \in SUBSET DOMAIN txn, SoftDelete(S) PROVE Within(txn', alloc', e)
    BY <1>4, <2>1 DEF SoftDelete
  <2>2. ASSUME NEW S \in SUBSET DOMAIN txn, RestoreFromTrash(S)
        PROVE  Within(txn', alloc', e)
    BY <1>4, <2>2 DEF RestoreFromTrash
  <2> QED BY <1>1, <1>2, <1>3, <1>5, <1>10, <2>1, <2>2 DEF TransactionStep
<1>11. ASSUME ReimbursementStep PROVE Within(txn', alloc', e)
  BY <1>6, <1>7, <1>8, <1>11 DEF ReimbursementStep
<1> QED
  BY <1>9, <1>10, <1>11
     DEF Next, UpsertDurable, DeleteDurable, RebuildRollups, ledgerVars

(* No expense is paid back more than it cost, reimbursements in the trash  *)
(* counted as well.                                                        *)
THEOREM LedgerExpenseNotOverReimbursed == Spec => []ExpenseNotOverReimbursed
<1>1. Init => ExpenseNotOverReimbursed
  BY DEF Init, ExpenseNotOverReimbursed
<1>2. Structure /\ ExpenseNotOverReimbursed /\ [Next]_ledgerVars
        => (Structure /\ ExpenseNotOverReimbursed)'
  BY NextStructure, NextReimbursed
<1> QED BY <1>1, <1>2, InitStructure, PTL DEF Spec

-----------------------------------------------------------------------------
(* Bank reconciliation.                                                    *)

\* A row as the calls leave it.
CleanRow(row) ==
  /\ row \in BankStatementRow
  /\ row.matched # Null => row.resolution \in {"matched", "created"}
  /\ row.reviewed <=> row.resolution = "ignored"

\* A plan that can be written at any time.
PlanOK(p) ==
  /\ DOMAIN p.rows \subseteq DOMAIN bank
  /\ \A r \in DOMAIN p.rows : CleanRow(p.rows[r])
  /\ DOMAIN p.txns \subseteq TxnId
  /\ \A t \in DOMAIN p.txns : p.txns[t] \in TransactionRow

\* A plan that is right while nothing overtakes it: it gives away no transaction twice,
\* and replaces only what is open or half written, unless it reopens.
GoodPlan(p) ==
  /\ PlanOK(p)
  /\ \A q, r \in DOMAIN p.rows :
       p.rows[q].matched # Null /\ p.rows[q].matched = p.rows[r].matched => q = r
  /\ \A q \in DOMAIN bank \ DOMAIN p.rows : bank[q].matched \notin Targets(p)
  /\ \A r \in DOMAIN p.rows :
       \/ p.rows[r] = OpenRow
       \/ OutcomeOf(txn, bank[r]) = Unresolved
       \/ ~CleanRow(bank[r])

\* What it writes to the ledger: at most one row, which is new or keeps its kind and
\* month.
OneEdit(p) ==
  \A t \in DOMAIN p.txns :
    /\ DOMAIN p.txns = {t}
    /\ IF t \in DOMAIN txn
         THEN /\ p.txns[t].type = txn[t].type
              /\ p.txns[t].is_reimbursement = txn[t].is_reimbursement
              /\ p.txns[t].month = txn[t].month
         ELSE \E ty \in TransactionType, a \in Cents, m \in Month :
                p.txns[t] = NewRow(ty, FALSE, a, m)

\* What every call decides.
Decided(p) == GoodPlan(p) /\ CanWrite(p, Seen(p)) /\ OneEdit(p)

\* The calls that wait, and what they have loaded while nothing overtook them.
WaitingOK ==
  \A c \in DOMAIN requests :
    /\ PlanOK(requests[c].plan)
    /\ ~requests[c].late =>
         /\ GoodPlan(requests[c].plan)
         /\ \A r \in DOMAIN requests[c].plan.rows : requests[c].seen.rows[r] = bank[r]

\* An offer names a row and, unless the row was ignored, its match.
OfferOK(offer) ==
  /\ offer.row \in DOMAIN bank /\ offer.amount \in Cents \cup {Null}
  /\ offer.resolution # Null
  /\ offer.amount # Null \/ offer.resolution = "created" => offer.matched # Null

RowsOK ==
  /\ DOMAIN bank \subseteq RowId
  /\ bank \in [DOMAIN bank -> BankStatementRow]
  /\ DOMAIN requests \subseteq Client
  /\ contested \subseteq DOMAIN bank
  /\ toast # Null => OfferOK(toast)

\* The inductive invariant.
BankInv == Structure /\ RowsOK /\ WaitingOK /\ MatchesExist /\ OneRowPerTransaction

-----------------------------------------------------------------------------
LEMMA InitBank == BankInit => BankInv
  BY InitStructure DEF BankInit, BankInv, RowsOK, WaitingOK, MatchesExist,
     OneRowPerTransaction

\* What the constants are apart from, and the rows the calls write.
LEMMA CallRows ==
  /\ Null \notin TxnId
  /\ CleanRow(OpenRow) /\ CleanRow(IgnoredRow)
  /\ OpenRow.matched = Null /\ IgnoredRow.matched = Null
  /\ \A t \in TxnId, res \in {"matched", "created"} :
       CleanRow(ResolvedBy(t, res)) /\ ResolvedBy(t, res).matched = t
  BY BankAssumption DEF CleanRow, OpenRow, IgnoredRow, ResolvedBy, BankStatementRow,
     Resolution, Unresolved

LEMMA OneFacts ==
  ASSUME NEW k, NEW v
  PROVE  DOMAIN One(k, v) = {k} /\ One(k, v)[k] = v
  BY DEF One

\* An unresolved row is open to the user, and the other way round.
LEMMA OpenOutcome ==
  ASSUME BankInv, NEW r \in DOMAIN bank
  PROVE  IsUnresolved(txn, bank[r]) => OutcomeOf(txn, bank[r]) = Unresolved
  BY DEF OutcomeOf

\* The SQL filter and the Python guard on a row that is well formed.
LEMMA OpenViewRow ==
  ASSUME BankInv, NEW r \in DOMAIN bank, CleanRow(bank[r])
  PROVE  InOpenView(txn, bank[r]) <=> IsUnresolved(txn, bank[r])
<1>1. bank[r].matched \in DOMAIN txn \cup {Null} /\ Null \notin DOMAIN txn
  BY CallRows DEF BankInv, MatchesExist, Structure, TypeOK
<1> QED BY <1>1 DEF CleanRow, InOpenView, IsUnresolved, MatchedToTrash, BankStatementRow,
        Resolution, Unresolved

\* Only overtaken calls leave a row half written.
LEMMA UncontestedClean ==
  ASSUME BankInv, NEW r \in DOMAIN bank \ contested PROVE CleanRow(bank[r])
  BY DEF BankInv, RowsOK, MatchesExist, CleanRow

LEMMA OpenViewAgrees == BankInv => OpenViewIsUnresolved
  BY OpenViewRow, UncontestedClean DEF OpenViewIsUnresolved

-----------------------------------------------------------------------------
(* Writing.                                                                *)

\* The bank after a commit.
LEMMA FlushRows ==
  ASSUME BankInv, NEW p, NEW seen, PlanOK(p), Flush(p, seen)
  PROVE  /\ DOMAIN bank' = DOMAIN bank
         /\ bank' \in [DOMAIN bank -> BankStatementRow]
         /\ \A r \in DOMAIN bank \ DOMAIN p.rows : bank'[r] = bank[r]
         /\ \A r \in DOMAIN p.rows :
              /\ bank'[r].matched \in {bank[r].matched, p.rows[r].matched}
              /\ seen.rows[r] = bank[r] => bank'[r] = p.rows[r]
<1>1. /\ DOMAIN bank' = DOMAIN bank
      /\ \A r \in DOMAIN bank \ DOMAIN p.rows : bank'[r] = bank[r]
      /\ \A r \in DOMAIN p.rows : bank'[r] = MergedRow(bank[r], seen.rows[r], p.rows[r])
  BY DEF Flush, PlanOK
<1>2. ASSUME NEW r \in DOMAIN p.rows
      PROVE  /\ bank'[r] \in BankStatementRow
             /\ bank'[r].matched \in {bank[r].matched, p.rows[r].matched}
             /\ seen.rows[r] = bank[r] => bank'[r] = p.rows[r]
  <2>1. bank[r] \in BankStatementRow /\ p.rows[r] \in BankStatementRow
    BY DEF BankInv, RowsOK, PlanOK, CleanRow
  <2>m. \A x, y, z : Merged(x, y, z) \in {x, z} /\ (y = x => Merged(x, y, z) = z)
    BY DEF Merged
  <2>2. /\ bank'[r] = [matched |-> Merged(bank[r].matched, seen.rows[r].matched, p.rows[r].matched),
           reviewed |-> Merged(bank[r].reviewed, seen.rows[r].reviewed, p.rows[r].reviewed),
           resolution |-> Merged(bank[r].resolution, seen.rows[r].resolution, p.rows[r].resolution)]
        /\ bank'[r].matched \in {bank[r].matched, p.rows[r].matched}
    BY <1>1, <2>m DEF MergedRow
  <2>3. bank'[r] \in BankStatementRow
    BY <2>1, <2>2, <2>m DEF BankStatementRow
  <2>4. ASSUME seen.rows[r] = bank[r] PROVE bank'[r] = p.rows[r]
    <3>1. /\ bank'[r].matched = p.rows[r].matched
          /\ bank'[r].resolution = p.rows[r].resolution
          /\ bank'[r].reviewed = p.rows[r].reviewed
      BY <2>2, <2>4, <2>m
    <3> QED BY <2>1, <2>3, <3>1 DEF BankStatementRow
  <2> QED BY <2>2, <2>3, <2>4
<1>3. \A r \in DOMAIN bank : bank'[r] \in BankStatementRow
  BY <1>1, <1>2 DEF BankInv, RowsOK
<1>4. bank' = [r \in DOMAIN bank |-> bank'[r]]
  BY DEF Flush
<1> QED BY <1>1, <1>2, <1>3, <1>4

\* The ledger after a commit.
LEMMA FlushLedger ==
  ASSUME BankInv, NEW p, NEW seen, PlanOK(p), CanWrite(p, seen), Flush(p, seen)
  PROVE  Structure' /\ DOMAIN txn' = DOMAIN txn \cup DOMAIN p.txns
<1>1. /\ DOMAIN txn' = DOMAIN txn \cup DOMAIN p.txns
      /\ \A t \in DOMAIN txn \ DOMAIN p.txns : txn'[t] = txn[t]
      /\ \A t \in DOMAIN p.txns \ DOMAIN txn : txn'[t] = p.txns[t]
      /\ \A t \in DOMAIN p.txns \cap DOMAIN txn :
           txn'[t] = MergedTransaction(txn[t], seen.txns[t], p.txns[t])
      /\ alloc' = alloc /\ durable' = durable /\ DOMAIN rollup' = Month
  BY DEF Flush, CanWrite, RecomputeMonths
<1>2. \A t \in DOMAIN txn : txn[t] \in TransactionRow
  BY DEF BankInv, Structure, TypeOK
<1>3. ASSUME NEW t \in DOMAIN txn'
      PROVE  /\ txn'[t] \in TransactionRow
             /\ t \in DOMAIN txn => /\ txn'[t].type = txn[t].type
                                    /\ txn'[t].is_reimbursement = txn[t].is_reimbursement
  <2>1. CASE t \in DOMAIN p.txns \cap DOMAIN txn
    <3>1. txn[t] \in TransactionRow /\ p.txns[t] \in TransactionRow
      BY <1>2, <2>1 DEF PlanOK
    <3> QED BY <1>1, <2>1, <3>1 DEF MergedTransaction, Merged, TransactionRow
  <2>2. CASE t \notin DOMAIN p.txns \cap DOMAIN txn
    BY <1>1, <1>2, <2>2 DEF PlanOK
  <2> QED BY <2>1, <2>2
<1>4. txn' = [t \in DOMAIN txn' |-> txn'[t]]
  BY DEF Flush
<1>5. DOMAIN txn' \subseteq TxnId
  BY <1>1 DEF PlanOK, BankInv, Structure, TypeOK
<1> QED BY <1>1, <1>3, <1>4, <1>5 DEF BankInv, Structure, TypeOK, AllocationEndpoints,
        DurableIsExpense, IsReimbursement, IsExpense

\* The other calls that wait, after a commit.
LEMMA CommitWaiting ==
  ASSUME BankInv, DOMAIN bank' = DOMAIN bank, NEW W \in SUBSET DOMAIN requests,
         Committed(W)
  PROVE  WaitingOK' /\ DOMAIN requests' \subseteq Client
<1>1. DOMAIN requests' = W
  BY DEF Committed
<1>2. ASSUME NEW c \in W
      PROVE  /\ requests'[c].plan = requests[c].plan
             /\ requests'[c].seen = requests[c].seen
             /\ ~requests'[c].late =>
                  ~requests[c].late /\ ~Overtaken(requests[c].plan)
  BY DEF Committed, Request
<1>3. ASSUME NEW c \in W, NEW p, p = requests[c].plan
      PROVE  /\ PlanOK(p)'
             /\ ~requests'[c].late =>
                  /\ GoodPlan(p)'
                  /\ \A r \in DOMAIN p.rows : requests'[c].seen.rows[r] = bank'[r]
  <2>1. PlanOK(p)'
    BY <1>3 DEF BankInv, WaitingOK, PlanOK
  <2>2. ASSUME ~requests'[c].late
        PROVE  /\ GoodPlan(p)'
               /\ \A r \in DOMAIN p.rows : requests'[c].seen.rows[r] = bank'[r]
    <3>1. /\ GoodPlan(p)
          /\ \A r \in DOMAIN p.rows : requests[c].seen.rows[r] = bank[r]
          /\ ~Overtaken(p)
      BY <1>2, <1>3, <2>2 DEF BankInv, WaitingOK
    <3>2. /\ \A r \in DOMAIN p.rows :
               bank'[r] = bank[r] /\ OutcomeOf(txn', bank'[r]) = OutcomeOf(txn, bank[r])
          /\ \A q \in DOMAIN bank \ DOMAIN p.rows : bank'[q].matched \notin Targets(p)
      BY <3>1 DEF Overtaken
    <3> QED BY <1>2, <2>1, <3>1, <3>2 DEF GoodPlan
  <2> QED BY <2>1, <2>2
<1>4. ASSUME NEW c \in DOMAIN requests'
      PROVE  /\ PlanOK(requests[c].plan)'
             /\ ~requests'[c].late =>
                  /\ GoodPlan(requests[c].plan)'
                  /\ \A r \in DOMAIN requests'[c].plan.rows :
                       requests'[c].seen.rows[r] = bank'[r]
  <2>1. PICK p : p = requests[c].plan
    OBVIOUS
  <2>2. requests'[c].plan = p /\ c \in W
    BY <1>1, <1>2, <2>1
  <2> QED BY <1>3, <2>1, <2>2
<1> QED BY <1>1, <1>4 DEF WaitingOK, BankInv, RowsOK

\* A call that nobody overtook commits.
LEMMA CommitGood ==
  ASSUME BankInv, NEW p, NEW seen, GoodPlan(p), CanWrite(p, seen), Flush(p, seen),
         \A r \in DOMAIN p.rows : seen.rows[r] = bank[r],
         contested' = contested \ DOMAIN p.rows
  PROVE  MatchesExist' /\ OneRowPerTransaction'
<1>1. PlanOK(p)
  BY DEF GoodPlan
<1>2. /\ DOMAIN bank' = DOMAIN bank
      /\ \A r \in DOMAIN bank \ DOMAIN p.rows : bank'[r] = bank[r]
      /\ \A r \in DOMAIN p.rows : bank'[r] = p.rows[r]
      /\ DOMAIN txn' = DOMAIN txn \cup DOMAIN p.txns
  BY <1>1, FlushRows, FlushLedger
<1>3. \A r \in DOMAIN p.rows : p.rows[r].matched \in DOMAIN txn' \cup {Null}
  BY <1>2 DEF CanWrite, Targets
<1>4. MatchesExist'
  BY <1>1, <1>2, <1>3 DEF MatchesExist, BankInv, PlanOK, CleanRow
<1>5. ASSUME NEW q \in DOMAIN bank, NEW r \in DOMAIN bank,
             bank'[q].matched # Null, bank'[q].matched = bank'[r].matched
      PROVE  q = r \/ {q, r} \cap contested' # {}
  <2>1. CASE q \in DOMAIN p.rows /\ r \in DOMAIN p.rows
    BY <1>2, <1>5, <2>1 DEF GoodPlan
  <2>2. CASE q \notin DOMAIN p.rows /\ r \notin DOMAIN p.rows
    BY <1>2, <1>5, <2>2 DEF BankInv, OneRowPerTransaction
  <2>3. ASSUME NEW x \in DOMAIN p.rows, NEW y \in DOMAIN bank \ DOMAIN p.rows,
               bank'[x].matched = bank'[y].matched, bank'[x].matched # Null
        PROVE  FALSE
    BY <1>2, <2>3 DEF GoodPlan, Targets
  <2> QED BY <1>5, <2>1, <2>2, <2>3
<1> QED BY <1>2, <1>4, <1>5 DEF OneRowPerTransaction

\* A call that was overtaken commits.
LEMMA CommitLate ==
  ASSUME BankInv, NEW p, NEW seen, PlanOK(p), CanWrite(p, seen), Flush(p, seen),
         contested' = contested \cup DOMAIN p.rows
  PROVE  MatchesExist' /\ OneRowPerTransaction'
<1>2. /\ DOMAIN bank' = DOMAIN bank
      /\ \A r \in DOMAIN bank \ DOMAIN p.rows : bank'[r] = bank[r]
      /\ \A r \in DOMAIN p.rows : bank'[r].matched \in {bank[r].matched, p.rows[r].matched}
      /\ DOMAIN txn' = DOMAIN txn \cup DOMAIN p.txns
  BY FlushRows, FlushLedger
<1>3. \A r \in DOMAIN p.rows : p.rows[r].matched \in DOMAIN txn' \cup {Null}
  BY <1>2 DEF CanWrite, Targets
<1>4. \A r \in DOMAIN bank : bank[r].matched \in DOMAIN txn' \cup {Null}
  BY <1>2 DEF BankInv, MatchesExist
<1>5. MatchesExist'
  <2>1. \A r \in DOMAIN bank : bank'[r].matched \in DOMAIN txn' \cup {Null}
    BY <1>2, <1>3, <1>4
  <2>2. \A r \in DOMAIN bank \ contested' : bank'[r] = bank[r] /\ r \notin contested
    BY <1>2
  <2> QED BY <1>2, <2>1, <2>2 DEF BankInv, MatchesExist
<1>6. OneRowPerTransaction'
  BY <1>2 DEF BankInv, OneRowPerTransaction
<1> QED BY <1>5, <1>6

\* A call commits at once or waits.
LEMMA DecideKeeps ==
  ASSUME BankInv, NEW p, Decided(p), Decide(p),
         toast' # Null => toast' = toast
  PROVE  BankInv'
<1>1. PlanOK(p) /\ GoodPlan(p) /\ CanWrite(p, Seen(p))
  BY DEF Decided, GoodPlan
<1>2. \A r \in DOMAIN p.rows : Seen(p).rows[r] = bank[r]
  BY DEF Seen, Restrict
<1>3. CASE /\ Flush(p, Seen(p))
           /\ contested' = contested \ DOMAIN p.rows
           /\ Committed(DOMAIN requests)
  <2>1. DOMAIN bank' = DOMAIN bank /\ bank' \in [DOMAIN bank -> BankStatementRow]
    BY <1>1, <1>3, FlushRows
  <2>2. Structure'
    BY <1>1, <1>3, FlushLedger
  <2>3. WaitingOK' /\ DOMAIN requests' \subseteq Client
    BY <1>3, <2>1, CommitWaiting
  <2>4. MatchesExist' /\ OneRowPerTransaction'
    BY <1>1, <1>2, <1>3, CommitGood
  <2>5. contested' \subseteq DOMAIN bank'
    BY <1>3, <2>1 DEF BankInv, RowsOK, OfferOK
  <2> QED BY <2>1, <2>2, <2>3, <2>4, <2>5 DEF BankInv, RowsOK, OfferOK
<1>4. ASSUME NEW c \in Client \ DOMAIN requests,
             requests' = [d \in DOMAIN requests \cup {c} |->
                            IF d = c THEN Request(p, Seen(p), FALSE) ELSE requests[d]],
             UNCHANGED <<ledgerVars, bank, contested>>
      PROVE  BankInv'
  <2>0. UNCHANGED <<txn, alloc, durable, rollup>>
    BY <1>4 DEF ledgerVars
  <2>1. Structure' /\ MatchesExist' /\ OneRowPerTransaction'
    BY <1>4, <2>0 DEF BankInv, Structure, TypeOK, AllocationEndpoints, DurableIsExpense,
       MatchesExist, OneRowPerTransaction
  <2>2. RowsOK'
    BY <1>4 DEF BankInv, RowsOK, OfferOK
  <2>3. ASSUME NEW q PROVE (PlanOK(q) => PlanOK(q)') /\ (GoodPlan(q) => GoodPlan(q)')
    BY <1>4, <2>0 DEF GoodPlan, PlanOK
  <2>4. ASSUME NEW d \in DOMAIN requests
        PROVE  /\ PlanOK(requests[d].plan)'
               /\ ~requests'[d].late =>
                    /\ GoodPlan(requests[d].plan)'
                    /\ \A r \in DOMAIN requests'[d].plan.rows :
                         requests'[d].seen.rows[r] = bank'[r]
    <3>1. PICK q : q = requests[d].plan
      OBVIOUS
    <3>2. requests'[d] = requests[d]
      BY <1>4
    <3> QED BY <1>4, <2>3, <3>1, <3>2 DEF BankInv, WaitingOK
  <2>5. /\ PlanOK(requests[c].plan)'
        /\ GoodPlan(requests[c].plan)'
        /\ \A r \in DOMAIN requests'[c].plan.rows : requests'[c].seen.rows[r] = bank'[r]
    <3>1. PICK seen : seen = Seen(p)
      OBVIOUS
    <3>2. requests'[c].plan = p /\ requests'[c].seen = seen
      BY <1>4, <3>1 DEF Request
    <3>3. \A r \in DOMAIN p.rows : seen.rows[r] = bank'[r]
      BY <1>2, <1>4, <3>1
    <3> QED BY <1>1, <2>3, <3>2, <3>3
  <2>6. DOMAIN requests' = DOMAIN requests \cup {c}
    BY <1>4
  <2>7. WaitingOK'
    BY <2>4, <2>5, <2>6 DEF WaitingOK
  <2> QED BY <2>1, <2>2, <2>7 DEF BankInv
<1> QED BY <1>3, <1>4 DEF Decide

\* A call that waited commits.
LEMMA WriteKeeps ==
  ASSUME BankInv, NEW c \in DOMAIN requests, Write(c), UNCHANGED toast
  PROVE  BankInv'
<1>0. PICK p : p = requests[c].plan
  OBVIOUS
<1>s. PICK seen : seen = requests[c].seen
  OBVIOUS
<1>1. /\ PlanOK(p) /\ CanWrite(p, seen) /\ Flush(p, seen)
      /\ contested' = IF requests[c].late THEN contested \cup DOMAIN p.rows
                                          ELSE contested \ DOMAIN p.rows
      /\ Committed(DOMAIN requests \ {c})
  BY <1>0, <1>s DEF Write, BankInv, WaitingOK
<1>2. DOMAIN bank' = DOMAIN bank /\ bank' \in [DOMAIN bank -> BankStatementRow]
  BY <1>1, FlushRows
<1>3. Structure'
  BY <1>1, FlushLedger
<1>4. WaitingOK' /\ DOMAIN requests' \subseteq Client
  BY <1>1, <1>2, CommitWaiting
<1>5. MatchesExist' /\ OneRowPerTransaction'
  <2>1. CASE requests[c].late
    BY <1>1, <2>1, CommitLate
  <2>2. CASE ~requests[c].late
    <3>1. GoodPlan(p) /\ \A r \in DOMAIN p.rows : seen.rows[r] = bank[r]
      BY <1>0, <1>s, <2>2 DEF BankInv, WaitingOK
    <3> QED BY <1>1, <2>2, <3>1, CommitGood
  <2> QED BY <2>1, <2>2
<1>6. contested' \subseteq DOMAIN bank'
  BY <1>1, <1>2 DEF BankInv, RowsOK, OfferOK, PlanOK
<1> QED BY <1>2, <1>3, <1>4, <1>5, <1>6 DEF BankInv, RowsOK, OfferOK

-----------------------------------------------------------------------------
(* What the calls decide.                                                  *)

\* Several rows and no transaction.
LEMMA DecidedRows ==
  ASSUME BankInv, NEW rows, DOMAIN rows \subseteq DOMAIN bank,
         \A r \in DOMAIN rows : /\ CleanRow(rows[r])
                                /\ rows[r].matched \in DOMAIN txn \cup {Null}
                                /\ \/ rows[r] = OpenRow
                                   \/ OutcomeOf(txn, bank[r]) = Unresolved
                                   \/ ~CleanRow(bank[r]),
         \A q, r \in DOMAIN rows : rows[q].matched # Null /\ rows[q].matched = rows[r].matched
                                     => q = r,
         \A q \in DOMAIN bank \ DOMAIN rows, r \in DOMAIN rows :
           rows[r].matched # Null => bank[q].matched # rows[r].matched
  PROVE  Decided(RowsOnly(rows))
<1>1. PICK p : p = RowsOnly(rows)
  OBVIOUS
<1>2. p.rows = rows /\ DOMAIN p.txns = {}
  BY <1>1 DEF RowsOnly, Plan
<1>3. GoodPlan(p)
  BY <1>2 DEF GoodPlan, PlanOK, Targets
<1>4. CanWrite(p, Seen(p))
  <2>1. DOMAIN Seen(p).txns = {}
    BY <1>2 DEF Seen, Restrict
  <2> QED BY <1>2, <2>1 DEF CanWrite, Targets
<1> QED BY <1>1, <1>2, <1>3, <1>4 DEF Decided, OneEdit

\* One row, and what it does to the ledger.
LEMMA DecidedOne ==
  ASSUME BankInv, NEW r \in DOMAIN bank, NEW row, CleanRow(row), NEW txns,
         row.matched \in DOMAIN txn \cup DOMAIN txns \cup {Null},
         row.matched \notin Reserved(DOMAIN bank \ {r}),
         row = OpenRow \/ OutcomeOf(txn, bank[r]) = Unresolved,
         DOMAIN txns \subseteq TxnId, \A t \in DOMAIN txns : txns[t] \in TransactionRow,
         OneEdit(Plan(One(r, row), txns))
  PROVE  Decided(Plan(One(r, row), txns))
<1>1. PICK p : p = Plan(One(r, row), txns)
  OBVIOUS
<1>2. DOMAIN p.rows = {r} /\ p.rows[r] = row /\ p.txns = txns
  BY <1>1, OneFacts DEF Plan
<1>3. \A q \in DOMAIN bank \ {r} : row.matched # Null => bank[q].matched # row.matched
  BY DEF Reserved
<1>4. GoodPlan(p)
  BY <1>2, <1>3 DEF GoodPlan, PlanOK, Targets
<1>5. CanWrite(p, Seen(p))
  <2>1. DOMAIN Seen(p).txns = DOMAIN txns \cap DOMAIN txn
    BY <1>2 DEF Seen, Restrict
  <2> QED BY <1>2, <2>1 DEF CanWrite, Targets
<1> QED BY <1>1, <1>4, <1>5 DEF Decided

LEMMA DecidedOneRow ==
  ASSUME BankInv, NEW r \in DOMAIN bank, NEW row, CleanRow(row),
         row.matched \in DOMAIN txn \cup {Null},
         row.matched \notin Reserved(DOMAIN bank \ {r}),
         row = OpenRow \/ OutcomeOf(txn, bank[r]) = Unresolved
  PROVE  Decided(RowsOnly(One(r, row)))
<1>1. PICK rows : rows = One(r, row)
  OBVIOUS
<1>2. DOMAIN rows = {r} /\ rows[r] = row
  BY <1>1, OneFacts
<1>3. \A q \in DOMAIN bank \ {r} : row.matched # Null => bank[q].matched # row.matched
  BY DEF Reserved
<1>4. Decided(RowsOnly(rows))
  BY <1>2, <1>3, DecidedRows
<1> QED BY <1>1, <1>4

\* accept_suggestions
LEMMA AcceptsDecide ==
  ASSUME BankInv, NEW S \in SUBSET DOMAIN bank, NEW agrees, AcceptSuggestions(S, agrees)
  PROVE  \E p : Decided(p) /\ Decide(p)
<1>0. PICK D \in SUBSET Acceptable(S) : \E accepted \in [D -> DOMAIN txn] :
        /\ \A r \in Acceptable(S) :
             LET found == Candidates(r, ReservedSoFar(accepted, r), agrees)
             IN IF r \in D THEN found = {accepted[r]} ELSE Cardinality(found) # 1
        /\ Decide(RowsOnly([r \in D |-> ResolvedBy(accepted[r], "matched")]))
  BY DEF AcceptSuggestions
<1>1. PICK accepted \in [D -> DOMAIN txn] :
        /\ \A r \in Acceptable(S) :
             LET found == Candidates(r, ReservedSoFar(accepted, r), agrees)
             IN IF r \in D THEN found = {accepted[r]} ELSE Cardinality(found) # 1
        /\ Decide(RowsOnly([r \in D |-> ResolvedBy(accepted[r], "matched")]))
  BY <1>0
<1>2. D \subseteq DOMAIN bank /\ \A r \in D : IsUnresolved(txn, bank[r])
  BY DEF Acceptable
<1>3. ASSUME NEW r \in D
      PROVE  /\ accepted[r] \in DOMAIN txn
             /\ accepted[r] \notin Reserved(DOMAIN bank)
             /\ \A q \in D : <<q, r>> \in BookedAfter => accepted[q] # accepted[r]
  <2>1. accepted[r] \in Candidates(r, ReservedSoFar(accepted, r), agrees)
    BY <1>1
  <2>2. accepted[r] \notin ReservedSoFar(accepted, r)
    BY <2>1 DEF Candidates
  <2> QED BY <2>2, <1>1 DEF ReservedSoFar
<1>4. \A q, r \in D : accepted[q] = accepted[r] => q = r
  BY <1>2, <1>3, BankAssumption DEF BankInv, RowsOK
<1>5. DOMAIN txn \subseteq TxnId
  BY DEF BankInv, Structure, TypeOK
<1>6. \A q \in DOMAIN bank, r \in D : bank[q].matched # accepted[r]
  BY <1>3, <1>5, CallRows DEF Reserved
<1>7. PICK rows : rows = [r \in D |-> ResolvedBy(accepted[r], "matched")]
  OBVIOUS
<1>8. DOMAIN rows = D
  BY <1>7
<1>9. \A r \in D : CleanRow(rows[r]) /\ rows[r].matched = accepted[r]
  BY <1>3, <1>5, <1>7, CallRows
<1>10. \A r \in D : OutcomeOf(txn, bank[r]) = Unresolved
  BY <1>2, OpenOutcome
<1>11. Decided(RowsOnly(rows))
  BY <1>2, <1>3, <1>4, <1>6, <1>8, <1>9, <1>10, DecidedRows
<1> QED BY <1>1, <1>7, <1>11

\* ignore_open and reopen_many
LEMMA ClearsDecide ==
  ASSUME BankInv, NEW D \in SUBSET DOMAIN bank, NEW row \in {OpenRow, IgnoredRow},
         row = OpenRow \/ \A r \in D : \/ OutcomeOf(txn, bank[r]) = Unresolved
                                       \/ ~CleanRow(bank[r])
  PROVE  Decided(RowsOnly([r \in D |-> row]))
<1>1. PICK rows : rows = [r \in D |-> row]
  OBVIOUS
<1>2. DOMAIN rows = D /\ \A r \in D : rows[r] = row
  BY <1>1
<1>3. CleanRow(row) /\ row.matched = Null
  BY CallRows
<1>4. Decided(RowsOnly(rows))
  BY <1>2, <1>3, DecidedRows
<1> QED BY <1>1, <1>4

\* match_transaction
LEMMA MatchDecides ==
  ASSUME BankInv, NEW r \in DOMAIN bank, NEW t \in DOMAIN txn, NEW update \in BOOLEAN,
         NEW res \in {"matched", "created"}, MatchTransaction(r, t, update, res)
  PROVE  \E p : Decided(p) /\ Decide(p)
<1>1. PICK row : row = ResolvedBy(t, res)
  OBVIOUS
<1>2. PICK new : new = [txn[t] EXCEPT !.deleted = FALSE,
                                      !.amount = IF update THEN RowCents[r] ELSE @]
  OBVIOUS
<1>3. PICK txns : txns = [u \in {v \in {t} : update \/ txn[v].deleted} |-> new]
  OBVIOUS
<1>4. /\ IsUnresolved(txn, bank[r])
      /\ t \notin Reserved(DOMAIN bank \ {r})
      /\ Decide(Plan(One(r, row), txns))
  BY <1>1, <1>2, <1>3 DEF MatchTransaction
<1>5. t \in TxnId /\ CleanRow(row) /\ row.matched = t
  BY <1>1, CallRows DEF BankInv, Structure, TypeOK
<1>6. txn[t] \in TransactionRow /\ RowCents[r] \in Cents
  BY BankAssumption DEF BankInv, RowsOK, Structure, TypeOK
<1>7. /\ new \in TransactionRow
      /\ new.type = txn[t].type /\ new.is_reimbursement = txn[t].is_reimbursement
      /\ new.month = txn[t].month
  BY <1>2, <1>6 DEF TransactionRow
<1>8. DOMAIN txns \subseteq {t} /\ \A u \in DOMAIN txns : txns[u] = new
  BY <1>3
<1>9. OneEdit(Plan(One(r, row), txns))
  BY <1>7, <1>8 DEF OneEdit, Plan
<1>10. OutcomeOf(txn, bank[r]) = Unresolved
  BY <1>4, OpenOutcome
<1>11. Decided(Plan(One(r, row), txns))
  BY <1>4, <1>5, <1>7, <1>8, <1>9, <1>10, DecidedOne
<1> QED BY <1>4, <1>11

\* create_transaction
LEMMA CreateDecides ==
  ASSUME BankInv, NEW r \in DOMAIN bank, NEW t \in TxnId, NEW m \in Month,
         CreateFromRow(r, t, m)
  PROVE  \E p : Decided(p) /\ Decide(p)
<1>1. PICK row : row = ResolvedBy(t, "created")
  OBVIOUS
<1>2. PICK new : new = NewRow(RowType(r), FALSE, RowCents[r], m)
  OBVIOUS
<1>3. PICK txns : txns = One(t, new)
  OBVIOUS
<1>4. IsUnresolved(txn, bank[r]) /\ t \notin DOMAIN txn /\ Decide(Plan(One(r, row), txns))
  BY <1>1, <1>2, <1>3 DEF CreateFromRow
<1>5. CleanRow(row) /\ row.matched = t
  BY <1>1, CallRows
<1>6. RowCents[r] \in Cents /\ RowType(r) \in TransactionType
  BY BankAssumption DEF BankInv, RowsOK, RowType, TransactionType
<1>7. new \in TransactionRow
  BY <1>2, <1>6 DEF NewRow, TransactionRow
<1>8. DOMAIN txns = {t} /\ txns[t] = new
  BY <1>3, OneFacts
<1>9. OneEdit(Plan(One(r, row), txns))
  BY <1>2, <1>4, <1>6, <1>8 DEF OneEdit, Plan
<1>10. OutcomeOf(txn, bank[r]) = Unresolved
  BY <1>4, OpenOutcome
<1>11. t # Null /\ t \notin Reserved(DOMAIN bank \ {r})
  BY <1>4, CallRows DEF Reserved, BankInv, MatchesExist
<1>12. Decided(Plan(One(r, row), txns))
  BY <1>5, <1>7, <1>8, <1>9, <1>10, <1>11, DecidedOne
<1> QED BY <1>4, <1>12

\* _reopen_row
LEMMA ReopenDecides ==
  ASSUME BankInv, NEW r \in DOMAIN bank, NEW trash, NEW resolution, NEW matched,
         NEW amount \in Cents \cup {Null}, Reopen(r, trash, resolution, matched, amount)
  PROVE  \E p : Decided(p) /\ Decide(p)
<1>0. PICK t : t = bank[r].matched
  OBVIOUS
<1> DEFINE restore == amount # Null /\ t # Null /\ txn[t].amount = RowCents[r]
           trashed == trash /\ bank[r].resolution = "created" /\ t # Null /\ ~txn[t].deleted
<1>1. PICK txns : txns = [u \in {v \in {t} : restore \/ trashed} |->
                            [txn[u] EXCEPT !.amount = IF restore THEN amount ELSE @,
                                           !.deleted = @ \/ trashed]]
  OBVIOUS
<1>2. Decide(Plan(One(r, OpenRow), txns))
  BY <1>0, <1>1 DEF Reopen
<1>3. ASSUME NEW u \in DOMAIN txns
      PROVE  /\ u = t /\ u \in DOMAIN txn
             /\ txns[u] \in TransactionRow
             /\ txns[u].type = txn[u].type
             /\ txns[u].is_reimbursement = txn[u].is_reimbursement
             /\ txns[u].month = txn[u].month
  <2>1. u = t /\ t # Null
    BY <1>1
  <2>2. u \in DOMAIN txn /\ txn[u] \in TransactionRow
    BY <1>0, <2>1 DEF BankInv, MatchesExist, Structure, TypeOK
  <2>3. restore => amount \in Cents
    OBVIOUS
  <2>4. PICK a \in Cents, d \in BOOLEAN : txns[u] = [txn[u] EXCEPT !.amount = a, !.deleted = d]
    <3>1. PICK a : a = IF restore THEN amount ELSE txn[u].amount
      OBVIOUS
    <3>2. PICK d : d = (txn[u].deleted \/ trashed)
      OBVIOUS
    <3>3. a \in Cents /\ d \in BOOLEAN
      BY <2>2, <2>3, <3>1, <3>2 DEF TransactionRow
    <3>4. txns[u] = [txn[u] EXCEPT !.amount = a, !.deleted = d]
      BY <1>1, <2>2, <3>1, <3>2 DEF TransactionRow
    <3> QED BY <3>3, <3>4
  <2> HIDE DEF restore, trashed
  <2> QED BY <2>1, <2>2, <2>4 DEF TransactionRow
<1> HIDE DEF restore, trashed
<1>4. OneEdit(Plan(One(r, OpenRow), txns)) /\ DOMAIN txns \subseteq TxnId
  BY <1>3 DEF OneEdit, Plan, BankInv, Structure, TypeOK
<1>5. Null \notin Reserved(DOMAIN bank \ {r})
  BY DEF Reserved
<1>6. Decided(Plan(One(r, OpenRow), txns))
  BY <1>3, <1>4, <1>5, CallRows, DecidedOne
<1> QED BY <1>2, <1>6

\* Every call but an import decides on a plan that is right when it is made.
LEMMA CallsDecide ==
  ASSUME BankInv, BankCall
  PROVE  (\E S \in SUBSET RowId : ImportStatement(S)) \/ \E p : Decided(p) /\ Decide(p)
<1>1. ASSUME NEW r \in DOMAIN bank, NEW agrees, AcceptSuggestion(r, agrees)
      PROVE  \E p : Decided(p) /\ Decide(p)
  <2>1. PICK t \in DOMAIN txn :
          /\ Candidates(r, Reserved(DOMAIN bank \ {r}), agrees) = {t}
          /\ Decide(RowsOnly(One(r, ResolvedBy(t, "matched"))))
    BY <1>1 DEF AcceptSuggestion
  <2>2. t \notin Reserved(DOMAIN bank \ {r})
    BY <2>1 DEF Candidates
  <2>3. OutcomeOf(txn, bank[r]) = Unresolved
    BY <1>1, OpenOutcome DEF AcceptSuggestion
  <2>4. PICK row : row = ResolvedBy(t, "matched")
    OBVIOUS
  <2>5. CleanRow(row) /\ row.matched = t
    BY <2>4, CallRows DEF BankInv, Structure, TypeOK
  <2>6. Decided(RowsOnly(One(r, row)))
    BY <2>2, <2>3, <2>5, DecidedOneRow
  <2> QED BY <2>1, <2>4, <2>6
<1>2. ASSUME NEW r \in DOMAIN bank, Ignore(r) PROVE \E p : Decided(p) /\ Decide(p)
  <2>1. OutcomeOf(txn, bank[r]) = Unresolved
    BY <1>2, OpenOutcome DEF Ignore
  <2>2. Null \notin Reserved(DOMAIN bank \ {r})
    BY DEF Reserved
  <2>3. Decided(RowsOnly(One(r, IgnoredRow)))
    BY <2>1, <2>2, CallRows, DecidedOneRow
  <2> QED BY <1>2, <2>3 DEF Ignore
<1>3. ASSUME NEW A, IgnoreOpen(A) PROVE \E p : Decided(p) /\ Decide(p)
  <2>1. PICK D : D = OpenRows(A)
    OBVIOUS
  <2>2. D \subseteq DOMAIN bank /\ \A r \in D : InOpenView(txn, bank[r])
    BY <2>1 DEF OpenRows
  <2>3. \A r \in D : OutcomeOf(txn, bank[r]) = Unresolved \/ ~CleanRow(bank[r])
    BY <2>2, OpenViewRow, OpenOutcome
  <2>4. Decided(RowsOnly([r \in D |-> IgnoredRow]))
    BY <2>2, <2>3, ClearsDecide
  <2> QED BY <1>3, <2>1, <2>4 DEF IgnoreOpen
<1>4. ASSUME NEW S \in SUBSET DOMAIN bank, ReopenMany(S) PROVE \E p : Decided(p) /\ Decide(p)
  <2>1. Decided(RowsOnly([r \in S |-> OpenRow]))
    BY ClearsDecide
  <2> QED BY <1>4, <2>1 DEF ReopenMany
<1> QED BY <1>1, <1>2, <1>3, <1>4, AcceptsDecide, MatchDecides, CreateDecides,
        ReopenDecides DEF BankCall

LEMMA UndoDecides ==
  ASSUME BankInv, Undo PROVE \E p : Decided(p) /\ Decide(p)
<1>1. toast.row \in DOMAIN bank /\ toast.amount \in Cents \cup {Null}
  BY DEF Undo, BankInv, RowsOK, OfferOK
<1> QED BY <1>1, ReopenDecides DEF Undo

-----------------------------------------------------------------------------
(* The inductive invariant.                                                *)

\* Whatever the calls of the ledger do, a match is kept or cut.
LEMMA LedgerKeeps == BankInv /\ LedgerCall /\ UNCHANGED toast => BankInv'
<1> SUFFICES ASSUME BankInv, LedgerCall, UNCHANGED toast PROVE BankInv'
  OBVIOUS
<1>1. Structure'
  BY NextStructure DEF BankInv, LedgerCall
<1>2. /\ DOMAIN bank' = DOMAIN bank
      /\ bank' = [r \in DOMAIN bank |-> bank'[r]]
      /\ \A r \in DOMAIN bank : bank'[r] = Unlinked(bank[r])
      /\ contested' = contested
  BY DEF LedgerCall
<1>3. ASSUME NEW r \in DOMAIN bank
      PROVE  /\ bank'[r] \in BankStatementRow
             /\ bank'[r].matched \in {Null, bank[r].matched}
             /\ bank'[r].matched \in DOMAIN txn' \cup {Null}
             /\ bank'[r].resolution = bank[r].resolution
             /\ bank'[r].reviewed = bank[r].reviewed
  <2>1. bank[r] \in BankStatementRow /\ bank[r].matched \in DOMAIN txn \cup {Null}
    BY DEF BankInv, RowsOK, MatchesExist
  <2> QED BY <2>1, <1>2 DEF Unlinked, BankStatementRow
<1>4. WaitingOK' /\ DOMAIN requests' \subseteq Client
  BY <1>2, CommitWaiting DEF LedgerCall
<1>5. RowsOK'
  BY <1>2, <1>3, <1>4 DEF BankInv, RowsOK, OfferOK
<1>6. MatchesExist' /\ OneRowPerTransaction'
  BY <1>2, <1>3 DEF BankInv, MatchesExist, OneRowPerTransaction
<1> QED BY <1>1, <1>4, <1>5, <1>6 DEF BankInv

\* New rows disturb nothing.
LEMMA ImportKeeps ==
  ASSUME BankInv, NEW S \in SUBSET RowId, ImportStatement(S), UNCHANGED toast
  PROVE  BankInv'
<1>1. /\ DOMAIN bank' = DOMAIN bank \cup S
      /\ bank' = [r \in DOMAIN bank \cup S |-> bank'[r]]
      /\ \A r \in DOMAIN bank : bank'[r] = bank[r]
      /\ \A r \in DOMAIN bank' \ DOMAIN bank : bank'[r] = OpenRow
      /\ UNCHANGED <<txn, alloc, durable, rollup, requests, contested>>
  BY DEF ImportStatement, ledgerVars
<1>2. Structure'
  BY <1>1 DEF BankInv, Structure, TypeOK, AllocationEndpoints, DurableIsExpense
<1>3. RowsOK' /\ MatchesExist' /\ OneRowPerTransaction'
  BY <1>1, CallRows DEF BankInv, RowsOK, OfferOK, MatchesExist, OneRowPerTransaction,
     CleanRow
<1>4. ASSUME NEW p PROVE (PlanOK(p) => PlanOK(p)') /\ (GoodPlan(p) => GoodPlan(p)')
  BY <1>1, CallRows DEF GoodPlan, PlanOK, Targets
<1>5. ASSUME NEW c \in DOMAIN requests
      PROVE  /\ PlanOK(requests[c].plan)'
             /\ ~requests'[c].late =>
                  /\ GoodPlan(requests[c].plan)'
                  /\ \A r \in DOMAIN requests'[c].plan.rows :
                       requests'[c].seen.rows[r] = bank'[r]
  <2>1. PICK p : p = requests[c].plan
    OBVIOUS
  <2>2. PlanOK(p) => DOMAIN p.rows \subseteq DOMAIN bank
    BY DEF PlanOK
  <2> QED BY <1>1, <1>4, <2>1, <2>2 DEF BankInv, WaitingOK
<1>6. WaitingOK'
  BY <1>1, <1>5 DEF WaitingOK
<1> QED BY <1>2, <1>3, <1>6 DEF BankInv

\* What happens to no table.
LEMMA QuietKeeps ==
  ASSUME BankInv, UNCHANGED <<ledgerVars, bank, contested>>,
         DOMAIN requests' \subseteq DOMAIN requests,
         \A c \in DOMAIN requests' : requests'[c] = requests[c],
         toast' # Null => OfferOK(toast')
  PROVE  BankInv'
<1>1. UNCHANGED <<txn, alloc, durable, rollup>>
  BY DEF ledgerVars
<1>2. Structure' /\ MatchesExist' /\ OneRowPerTransaction' /\ RowsOK'
  BY <1>1 DEF BankInv, Structure, TypeOK, AllocationEndpoints, DurableIsExpense,
     MatchesExist, OneRowPerTransaction, RowsOK, OfferOK
<1>3. ASSUME NEW p PROVE (PlanOK(p) => PlanOK(p)') /\ (GoodPlan(p) => GoodPlan(p)')
  BY <1>1 DEF GoodPlan, PlanOK
<1>4. ASSUME NEW c \in DOMAIN requests'
      PROVE  /\ PlanOK(requests[c].plan)'
             /\ ~requests'[c].late =>
                  /\ GoodPlan(requests[c].plan)'
                  /\ \A r \in DOMAIN requests'[c].plan.rows :
                       requests'[c].seen.rows[r] = bank'[r]
  <2>1. PICK p : p = requests[c].plan
    OBVIOUS
  <2> QED BY <1>1, <1>3, <2>1 DEF BankInv, WaitingOK
<1>5. WaitingOK'
  BY <1>4 DEF WaitingOK
<1> QED BY <1>2, <1>5 DEF BankInv

LEMMA NextBank == BankInv /\ [BankNext]_bankVars => BankInv'
<1> SUFFICES ASSUME BankInv, [BankNext]_bankVars PROVE BankInv'
  OBVIOUS
<1>1. CASE LedgerCall /\ UNCHANGED toast
  BY <1>1, LedgerKeeps
<1>2. ASSUME BankCall, UNCHANGED toast PROVE BankInv'
  BY <1>2, CallsDecide, DecideKeeps, ImportKeeps
<1>7. CASE Undo
  BY <1>7, UndoDecides, DecideKeeps DEF Undo
<1>3. ASSUME NEW c \in DOMAIN requests, Write(c), UNCHANGED toast PROVE BankInv'
  BY <1>3, WriteKeeps
<1>4. ASSUME NEW c \in DOMAIN requests, Fail(c), UNCHANGED toast PROVE BankInv'
  <2>1. DOMAIN requests' \subseteq DOMAIN requests
    BY <1>4 DEF Fail, Restrict
  <2>2. \A d \in DOMAIN requests' : requests'[d] = requests[d]
    BY <1>4 DEF Fail, Restrict
  <2> QED BY <1>4, <2>1, <2>2, QuietKeeps DEF Fail, BankInv, RowsOK
<1>5. ASSUME NEW r \in DOMAIN bank, NEW amount \in Cents \cup {Null}, Offer(r, amount)
      PROVE  BankInv'
  <2>1. OfferOK(toast')
    <3>1. /\ toast'.row = r /\ toast'.amount = amount
          /\ toast'.resolution = bank[r].resolution /\ toast'.matched = bank[r].matched
      BY <1>5 DEF Offer
    <3>2. bank[r].resolution \in Resolution
      BY DEF BankInv, RowsOK, BankStatementRow
    <3>3. toast'.resolution # Null
      BY <3>1, <3>2, OfferAssumption
    <3>4. amount # Null \/ bank[r].resolution = "created" => bank[r].matched # Null
      BY <1>5 DEF Offer
    <3> QED BY <3>1, <3>3, <3>4 DEF OfferOK
  <2> QED BY <1>5, <2>1, QuietKeeps DEF Offer
<1>6. CASE UNCHANGED bankVars
  <2>1. UNCHANGED <<ledgerVars, bank, contested, requests, toast>>
    BY <1>6 DEF bankVars, ledgerVars
  <2> QED BY <2>1, QuietKeeps DEF BankInv, RowsOK
<1> QED BY <1>1, <1>2, <1>3, <1>4, <1>5, <1>6, <1>7 DEF BankNext

-----------------------------------------------------------------------------
(* The refinement.                                                         *)

\* What an outcome can be.
OutcomesOK ==
  \A r \in DOMAIN bank :
    /\ Outcome[r] \in TxnId \cup {Unresolved, "ignored", Contested}
    /\ r \in contested => Outcome[r] = Contested
    /\ r \notin contested => Outcome[r] = OutcomeOf(txn, bank[r])
    /\ Outcome[r] \in TxnId =>
         r \notin contested /\ Outcome[r] = bank[r].matched /\ bank[r].matched # Null

LEMMA OutcomeRange == BankInv => OutcomesOK
<1> SUFFICES ASSUME BankInv, NEW r \in DOMAIN bank
             PROVE  /\ Outcome[r] \in TxnId \cup {Unresolved, "ignored", Contested}
                    /\ r \in contested => Outcome[r] = Contested
                    /\ r \notin contested => Outcome[r] = OutcomeOf(txn, bank[r])
                    /\ Outcome[r] \in TxnId =>
                         /\ r \notin contested /\ Outcome[r] = bank[r].matched
                         /\ bank[r].matched # Null
  BY DEF OutcomesOK
<1>1. r \in contested => Outcome[r] = Contested
  BY DEF Outcome
<1>2. r \notin contested => Outcome[r] = OutcomeOf(txn, bank[r])
  BY DEF Outcome
<1>3. Contested \notin TxnId /\ Unresolved \notin TxnId /\ "ignored" \notin TxnId /\ Null \notin TxnId
  BY BankAssumption DEF Contested, Unresolved
<1>4. bank[r].matched \in TxnId \cup {Null}
  BY DEF BankInv, Structure, TypeOK, MatchesExist
<1>5. OutcomeOf(txn, bank[r]) \in {Unresolved, "ignored", bank[r].matched}
  BY DEF OutcomeOf
<1>6. bank[r].matched = Null => OutcomeOf(txn, bank[r]) \in {Unresolved, "ignored"}
  BY DEF OutcomeOf, IsUnresolved
<1> QED BY <1>1, <1>2, <1>3, <1>4, <1>5, <1>6

\* A transaction settles one row.
LEMMA OutcomeExclusive == BankInv => Outcomes!Exclusive(Outcome)
<1> SUFFICES ASSUME BankInv, NEW q \in DOMAIN bank, NEW r \in DOMAIN bank,
                    Outcome[q] \in TxnId, Outcome[q] = Outcome[r]
             PROVE  q = r
  BY DEF Outcomes!Exclusive, Outcome
<1> QED BY OutcomeRange DEF OutcomesOK, BankInv, OneRowPerTransaction

\* A row that no call writes keeps its outcome, or opens, or is back: whatever becomes of
\* the transactions.
LEMMA SameRow ==
  ASSUME NEW row, NEW S, NEW T
  PROVE  \/ OutcomeOf(T, row) = OutcomeOf(S, row)
         \/ Unresolved \in {OutcomeOf(S, row), OutcomeOf(T, row)}
  BY DEF OutcomeOf

LEMMA OpenRowOpen == \A T : OutcomeOf(T, OpenRow) = Unresolved
  BY DEF OutcomeOf, IsUnresolved, OpenRow

\* An uncontested row that loses its match is open.
LEMMA CutRowOpen ==
  ASSUME NEW row, NEW T, CleanRow(row), row.matched # Null
  PROVE  OutcomeOf(T, [row EXCEPT !.matched = Null]) = Unresolved
<1>1. ~row.reviewed /\ row \in BankStatementRow
  BY DEF CleanRow
<1>2. /\ [row EXCEPT !.matched = Null].matched = Null
      /\ [row EXCEPT !.matched = Null].reviewed = row.reviewed
  BY <1>1 DEF BankStatementRow
<1> QED BY <1>1, <1>2 DEF OutcomeOf, IsUnresolved

\* What becomes of a row that nobody contests, before or after.
Follows(r) ==
  \/ r \in contested \/ r \in contested'
  \/ OutcomeOf(txn', bank'[r]) = OutcomeOf(txn, bank[r])
  \/ Unresolved \in {OutcomeOf(txn, bank[r]), OutcomeOf(txn', bank'[r])}

LEMMA KeptFollows ==
  ASSUME NEW r, bank'[r] = bank[r] PROVE Follows(r)
  BY SameRow DEF Follows

\* The rows of a commit.
LEMMA CommitFollows ==
  ASSUME BankInv, NEW p, NEW seen, NEW late \in BOOLEAN, PlanOK(p), Flush(p, seen),
         ~late => GoodPlan(p) /\ \A r \in DOMAIN p.rows : seen.rows[r] = bank[r],
         late => DOMAIN p.rows \subseteq contested',
         NEW r \in DOMAIN bank
  PROVE  Follows(r)
<1>1. CASE r \notin DOMAIN p.rows
  BY <1>1, FlushRows, KeptFollows
<1>2. CASE r \in DOMAIN p.rows /\ late
  BY <1>2 DEF Follows
<1>3. CASE r \in DOMAIN p.rows /\ ~late
  <2>1. bank'[r] = p.rows[r]
    BY <1>3, FlushRows
  <2>2. CASE p.rows[r] = OpenRow
    BY <2>1, <2>2, OpenRowOpen DEF Follows
  <2>3. CASE OutcomeOf(txn, bank[r]) = Unresolved
    BY <2>3 DEF Follows
  <2>4. CASE ~CleanRow(bank[r])
    BY <2>4, UncontestedClean DEF Follows
  <2> QED BY <1>3, <2>2, <2>3, <2>4 DEF GoodPlan
<1> QED BY <1>1, <1>2, <1>3

\* Every row follows its own course.
LEMMA RowsFollow ==
  ASSUME BankInv, [BankNext]_bankVars
  PROVE  /\ DOMAIN bank \subseteq DOMAIN bank'
         /\ \A r \in DOMAIN bank : Follows(r)
         /\ \A r \in DOMAIN bank' \ DOMAIN bank :
              r \notin contested' /\ bank'[r] = OpenRow
<1>1. ASSUME DOMAIN bank' = DOMAIN bank, \A r \in DOMAIN bank : bank'[r] = bank[r]
      PROVE  /\ DOMAIN bank \subseteq DOMAIN bank'
             /\ \A r \in DOMAIN bank : Follows(r)
             /\ \A r \in DOMAIN bank' \ DOMAIN bank :
                  r \notin contested' /\ bank'[r] = OpenRow
  BY <1>1, KeptFollows
<1>2. CASE LedgerCall
  <2>1. DOMAIN bank' = DOMAIN bank /\ \A r \in DOMAIN bank : bank'[r] = Unlinked(bank[r])
    BY <1>2 DEF LedgerCall
  <2>2. ASSUME NEW r \in DOMAIN bank PROVE Follows(r)
    <3>1. CASE bank'[r] = bank[r]
      BY <3>1, KeptFollows
    <3>2. CASE r \in contested
      BY <3>2 DEF Follows
    <3>3. CASE bank'[r] # bank[r] /\ r \notin contested
      <4>1. bank'[r] = [bank[r] EXCEPT !.matched = Null] /\ bank[r].matched \in DOMAIN txn
        BY <2>1, <3>3 DEF Unlinked
      <4>2. CleanRow(bank[r]) /\ bank[r].matched # Null
        BY <3>3, <4>1, UncontestedClean, CallRows DEF BankInv, Structure, TypeOK
      <4> QED BY <4>1, <4>2, CutRowOpen DEF Follows
    <3> QED BY <3>1, <3>2, <3>3
  <2> QED BY <2>1, <2>2
<1>3. ASSUME NEW S \in SUBSET RowId, ImportStatement(S)
      PROVE  /\ DOMAIN bank \subseteq DOMAIN bank'
             /\ \A r \in DOMAIN bank : Follows(r)
             /\ \A r \in DOMAIN bank' \ DOMAIN bank :
                  r \notin contested' /\ bank'[r] = OpenRow
  <2>1. /\ DOMAIN bank' = DOMAIN bank \cup S
        /\ \A r \in DOMAIN bank : bank'[r] = bank[r]
        /\ \A r \in DOMAIN bank' \ DOMAIN bank : bank'[r] = OpenRow
        /\ contested' = contested
    BY <1>3 DEF ImportStatement
  <2>2. contested \subseteq DOMAIN bank
    BY DEF BankInv, RowsOK
  <2> QED BY <2>1, <2>2, KeptFollows
<1>4. ASSUME NEW p, Decided(p), Decide(p)
      PROVE  DOMAIN bank' = DOMAIN bank /\ \A r \in DOMAIN bank : Follows(r)
  <2>1. PlanOK(p) /\ GoodPlan(p)
    BY <1>4 DEF Decided, GoodPlan
  <2>2. PICK seen : seen = Seen(p)
    OBVIOUS
  <2>3. \A r \in DOMAIN p.rows : seen.rows[r] = bank[r]
    BY <2>2 DEF Seen, Restrict
  <2>4. CASE Flush(p, seen)
    BY <2>1, <2>3, <2>4, FlushRows, CommitFollows
  <2>5. CASE UNCHANGED bank
    BY <2>5, KeptFollows
  <2> QED BY <1>4, <2>2, <2>4, <2>5 DEF Decide
<1>5. ASSUME NEW c \in DOMAIN requests, Write(c)
      PROVE  DOMAIN bank' = DOMAIN bank /\ \A r \in DOMAIN bank : Follows(r)
  <2>0. PICK p : p = requests[c].plan
    OBVIOUS
  <2>s. PICK seen : seen = requests[c].seen
    OBVIOUS
  <2>1. /\ PlanOK(p) /\ Flush(p, seen)
        /\ contested' = IF requests[c].late THEN contested \cup DOMAIN p.rows
                                            ELSE contested \ DOMAIN p.rows
    BY <1>5, <2>0, <2>s DEF Write, BankInv, WaitingOK
  <2>2. DOMAIN bank' = DOMAIN bank
    BY <2>1, FlushRows
  <2>3. ASSUME NEW r \in DOMAIN bank PROVE Follows(r)
    <3>1. CASE requests[c].late
      <4>1. DOMAIN p.rows \subseteq contested'
        BY <2>1, <3>1
      <4> QED BY <2>1, <4>1, CommitFollows
    <3>2. CASE ~requests[c].late
      <4>1. GoodPlan(p) /\ \A q \in DOMAIN p.rows : seen.rows[q] = bank[q]
        BY <2>0, <2>s, <3>2 DEF BankInv, WaitingOK
      <4> QED BY <2>1, <4>1, CommitFollows
    <3> QED BY <3>1, <3>2
  <2> QED BY <2>2, <2>3
<1>6. ASSUME UNCHANGED bank
      PROVE  DOMAIN bank' = DOMAIN bank /\ \A r \in DOMAIN bank : Follows(r)
  BY <1>6, KeptFollows
<1>7. CASE BankCall
  BY <1>3, <1>4, <1>7, CallsDecide
<1>8. CASE Undo
  BY <1>4, <1>8, UndoDecides
<1> QED BY <1>2, <1>5, <1>6, <1>7, <1>8 DEF BankNext, Fail, Offer, bankVars

LEMMA NextOutcome ==
  BankInv /\ BankInv' /\ [BankNext]_bankVars => [Outcomes!Next]_Outcome
<1> SUFFICES ASSUME BankInv, BankInv', [BankNext]_bankVars PROVE Outcomes!Next
  OBVIOUS
<1>1. /\ DOMAIN Outcome = DOMAIN bank /\ DOMAIN Outcome' = DOMAIN bank'
      /\ Outcome' = [r \in DOMAIN bank' |-> Outcome'[r]]
  BY DEF Outcome
<1>o. OutcomesOK'
  BY OutcomeRange, PTL
<1>2. \A r \in DOMAIN bank' :
        /\ Outcome'[r] \in TxnId \cup {Unresolved, "ignored", Contested}
        /\ r \in contested' => Outcome'[r] = Contested
        /\ r \notin contested' => Outcome'[r] = OutcomeOf(txn', bank'[r])
  BY <1>o DEF OutcomesOK
<1>3. Outcomes!Exclusive(Outcome')
  <2>1. Outcomes!Exclusive(Outcome)'
    BY OutcomeExclusive, PTL
  <2> QED BY <2>1 DEF Outcomes!Exclusive
<1>4. \A r \in DOMAIN bank : Outcomes!MayBecome(Outcome[r], Outcome'[r])
  <2>1. \A r \in DOMAIN bank : Follows(r) /\ r \in DOMAIN bank'
    BY RowsFollow
  <2> QED BY <2>1, <1>2, OutcomeRange DEF OutcomesOK, Follows, Outcomes!MayBecome
<1>5. \A r \in DOMAIN bank' \ DOMAIN bank : Outcome'[r] = Unresolved
  BY <1>2, RowsFollow, OpenRowOpen
<1>6. DOMAIN bank \subseteq DOMAIN bank' /\ DOMAIN bank' \subseteq RowId
  BY RowsFollow DEF BankInv, RowsOK
<1>7. Outcome' \in [DOMAIN bank' -> Outcomes!Outcomes]
  BY <1>1, <1>2 DEF Outcomes!Outcomes
<1> QED BY <1>1, <1>3, <1>4, <1>5, <1>6, <1>7 DEF Outcomes!Next

-----------------------------------------------------------------------------
(* What an Undo touches.                                                   *)

LEMMA NextUndo == BankInv /\ [BankNext]_bankVars => [UndoStep]_bankVars
<1> SUFFICES ASSUME BankInv, [BankNext]_bankVars, toast # Null, toast' = Null
             PROVE  UndoStep
  BY DEF UndoStep
<1>1. toast.row \in DOMAIN bank /\ toast.amount \in Cents \cup {Null}
  BY DEF BankInv, RowsOK, OfferOK
<1>2. ~(UNCHANGED toast)
  OBVIOUS
<1>3. ASSUME NEW r \in DOMAIN bank, NEW amount \in Cents \cup {Null}, Offer(r, amount)
      PROVE  FALSE
  <2>1. /\ bank[r].resolution \in Resolution
        /\ bank[r].matched \in TxnId \cup {Null}
        /\ r \in RowId
    BY DEF BankInv, RowsOK, BankStatementRow
  <2>2. toast' \in UndoOffer
    BY <1>3, <2>1 DEF Offer, UndoOffer
  <2> QED BY <2>2, OfferAssumption
<1>4. Undo
  BY <1>2, <1>3 DEF BankNext, bankVars
<1>5. PICK r : r = toast.row
  OBVIOUS
<1>6. PICK t : t = bank[r].matched
  OBVIOUS
<1> DEFINE restore == toast.amount # Null /\ t # Null /\ txn[t].amount = RowCents[r]
           trashed == /\ toast.resolution = "created" /\ bank[r].resolution = "created"
                      /\ t # Null /\ ~txn[t].deleted
<1>7. PICK txns : txns = [u \in {v \in {t} : restore \/ trashed} |->
                            [txn[u] EXCEPT !.amount = IF restore THEN toast.amount ELSE @,
                                           !.deleted = @ \/ trashed]]
  OBVIOUS
<1>8. /\ StillNamed(r, toast.resolution, toast.matched)
      /\ Decide(Plan(One(r, OpenRow), txns))
  BY <1>4, <1>5, <1>6, <1>7 DEF Undo, Reopen
<1>9. /\ bank[r].resolution = toast.resolution
      /\ toast.matched \in {t, Null}
      /\ toast.amount # Null \/ toast.resolution = "created" => t = toast.matched
  BY <1>6, <1>8 DEF StillNamed, BankInv, RowsOK, OfferOK
<1>10. PICK p : p = Plan(One(r, OpenRow), txns)
  OBVIOUS
<1>11. DOMAIN p.rows = {r} /\ p.txns = txns
  BY <1>10, OneFacts DEF Plan
<1>12. \A u \in DOMAIN txns : u = t /\ (restore \/ trashed)
  BY <1>7
<1>13. \A u \in DOMAIN txns : u = toast.matched
  BY <1>9, <1>12
<1>14. CASE Flush(p, Seen(p))
  <2>1. \A q \in DOMAIN bank \ {r} : bank'[q] = bank[q]
    BY <1>11, <1>14 DEF Flush
  <2>2. ASSUME NEW u \in DOMAIN txn
        PROVE  /\ u # toast.matched => txn'[u] = txn[u]
               /\ txn'[u].amount # txn[u].amount => txn[u].amount = RowCents[r]
               /\ txn'[u].deleted # txn[u].deleted => toast.resolution = "created"
    <3>1. CASE u \notin DOMAIN txns
      BY <1>11, <1>14, <3>1 DEF Flush
    <3>2. CASE u \in DOMAIN txns
      <4>1. Seen(p).txns[u] = txn[u] /\ u \in DOMAIN Seen(p).txns
        BY <1>11, <3>2 DEF Seen, Restrict
      <4>2. txn'[u] = MergedTransaction(txn[u], txn[u], txns[u])
        BY <1>11, <1>14, <3>2, <4>1 DEF Flush
      <4>3. txn[u] \in TransactionRow
        BY DEF BankInv, Structure, TypeOK
      <4>4. PICK a : a = IF restore THEN toast.amount ELSE txn[u].amount
        OBVIOUS
      <4>5. PICK d : d = (txn[u].deleted \/ trashed)
        OBVIOUS
      <4>6. txns[u] = [txn[u] EXCEPT !.amount = a, !.deleted = d]
        BY <1>7, <3>2, <4>3, <4>4, <4>5 DEF TransactionRow
      <4>7. txns[u].amount = a /\ txns[u].deleted = d
        BY <4>3, <4>6 DEF TransactionRow
      <4>8. txn'[u].amount \in {txn[u].amount, a} /\ txn'[u].deleted \in {txn[u].deleted, d}
        BY <4>2, <4>3, <4>7 DEF MergedTransaction, Merged, TransactionRow
      <4>9. a # txn[u].amount => txn[u].amount = RowCents[r]
        BY <1>12, <3>2, <4>4
      <4>10. d # txn[u].deleted => toast.resolution = "created"
        BY <4>3, <4>5 DEF TransactionRow
      <4> QED BY <1>13, <3>2, <4>8, <4>9, <4>10
    <3> QED BY <3>1, <3>2
  <2> QED BY <1>5, <1>6, <1>9, <2>1, <2>2 DEF UndoStep
<1>15. CASE UNCHANGED <<ledgerVars, bank>>
  BY <1>5, <1>6, <1>9, <1>15 DEF UndoStep, ledgerVars
<1> QED BY <1>8, <1>10, <1>14, <1>15 DEF Decide

-----------------------------------------------------------------------------
(* The ledger under the calls of the bank.                                 *)

LEMMA EditOne ==
  ASSUME Structure, RollupExact, NEW t \in DOMAIN txn, NEW row \in TransactionRow,
         txn' = [txn EXCEPT ![t] = row], UNCHANGED <<alloc, durable>>,
         row.type = txn[t].type, row.is_reimbursement = txn[t].is_reimbursement,
         row.month = txn[t].month,
         NEW months, RecomputeMonths(months),
         row # txn[t] => txn[t].month \in months,
         row.deleted # txn[t].deleted /\ IsReimbursement(txn, t)
           => ExpenseMonths(txn, alloc, {t}) \subseteq months
  PROVE  RollupExact'
<1>1. /\ DOMAIN txn' = DOMAIN txn
      /\ \A u \in DOMAIN txn \ {t} : txn'[u] = txn[u]
      /\ txn'[t] = row
  OBVIOUS
<1>2. /\ \A u \in DOMAIN txn : txn[u] \in TransactionRow
      /\ \A p \in DOMAIN alloc :
           /\ p[1] \in DOMAIN txn /\ p[2] \in DOMAIN txn
           /\ txn[p[1]].type = "income" /\ txn[p[1]].is_reimbursement
           /\ txn[p[2]].type = "expense"
  BY DEF Structure, TypeOK, AllocationEndpoints, IsReimbursement, IsExpense
<1>4. ASSUME NEW n \in Month \ months
      PROVE  LiveIn(txn', n) = LiveIn(txn, n) /\ \A u \in LiveIn(txn, n) : txn'[u] = txn[u]
  BY <1>1, <1>4 DEF LiveIn
<1>5. ASSUME NEW n \in Month \ months, NEW p \in DOMAIN alloc, txn[p[2]].month = n
      PROVE  p \in ReimbursedRows(txn', alloc', n) <=> p \in ReimbursedRows(txn, alloc, n)
  <2>1. p[2] = t => row = txn[t]
    BY <1>5
  <2>2. p[1] = t => row.deleted = txn[t].deleted
    <3>1. SUFFICES ASSUME p[1] = t, row.deleted # txn[t].deleted PROVE FALSE
      OBVIOUS
    <3>2. txn[p[2]].month \in ExpenseMonths(txn, alloc, {t}) /\ IsReimbursement(txn, t)
      BY <1>2, <3>1 DEF ExpenseMonths, IsReimbursement
    <3> QED BY <1>5, <3>1, <3>2
  <2>3. IsLive(txn', p[1]) = IsLive(txn, p[1]) /\ IsReimbursement(txn', p[1])
    BY <1>1, <1>2, <2>2 DEF IsLive, IsReimbursement
  <2>4. txn'[p[2]] = txn[p[2]] /\ IsLive(txn', p[2]) = IsLive(txn, p[2])
    BY <1>1, <1>2, <2>1 DEF IsLive
  <2>5. IsReimbursement(txn, p[1])
    BY <1>2 DEF IsReimbursement
  <2> QED BY <1>5, <2>3, <2>4, <2>5 DEF ReimbursedRows, ActiveAllocations, IsExpense
<1>6. \A p \in DOMAIN alloc : txn'[p[2]].month = txn[p[2]].month
  BY <1>1, <1>2
<1>7. ASSUME NEW n \in Month \ months
      PROVE  ReimbursedRows(txn', alloc', n) = ReimbursedRows(txn, alloc, n)
  <2>1. /\ ReimbursedRows(txn, alloc, n) \subseteq {p \in DOMAIN alloc : txn[p[2]].month = n}
        /\ ReimbursedRows(txn', alloc', n) \subseteq {p \in DOMAIN alloc : txn[p[2]].month = n}
    BY <1>6 DEF ReimbursedRows, ActiveAllocations
  <2> QED BY <1>5, <1>7, <2>1
<1> QED BY <1>4, <1>7, RecomputeExact
LEMMA FlushRecomputes ==
  ASSUME NEW p, NEW seen, NEW months, months = TouchedMonths(p, seen), Flush(p, seen)
  PROVE  RecomputeMonths(months) /\ UNCHANGED <<alloc, durable>>
BY SMT DEF Flush

\* Calls that do not overlap keep the stored totals.
LEMMA NextLedgerOfBank ==
  Client = {} /\ BankInv /\ BankInv' /\ RollupExact /\ [BankNext]_bankVars => RollupExact'
<1> SUFFICES ASSUME Client = {}, BankInv, BankInv', RollupExact, [BankNext]_bankVars
             PROVE  RollupExact'
  OBVIOUS
<1>1. Structure /\ Structure'
  BY DEF BankInv
<1>2. ASSUME [Next]_ledgerVars PROVE RollupExact'
  BY <1>1, <1>2, NextRollup
<1>3. ASSUME UNCHANGED ledgerVars PROVE RollupExact'
  BY <1>2, <1>3
<1>4. ASSUME NEW p, Decided(p), Flush(p, Seen(p)) PROVE RollupExact'
  <2>0. PICK months : months = TouchedMonths(p, Seen(p))
    OBVIOUS
  <2>1. RecomputeMonths(months) /\ UNCHANGED <<alloc, durable>>
    BY <1>4, <2>0, FlushRecomputes
  <2>2. CASE DOMAIN p.txns = {}
    <3>1. txn' = txn
      <4>1. DOMAIN txn' = DOMAIN txn /\ \A t \in DOMAIN txn : txn'[t] = txn[t]
        BY <1>4, <2>2 DEF Flush
      <4>2. txn = [t \in DOMAIN txn |-> txn[t]] /\ txn' = [t \in DOMAIN txn' |-> txn'[t]]
        BY <1>1 DEF Structure, TypeOK
      <4> QED BY <4>1, <4>2
    <3>2. \A m \in Month \ months :
            /\ LiveIn(txn', m) = LiveIn(txn, m)
            /\ \A t \in LiveIn(txn, m) : txn'[t] = txn[t]
            /\ ReimbursedRows(txn', alloc', m) = ReimbursedRows(txn, alloc, m)
            /\ \A q \in ReimbursedRows(txn, alloc, m) : alloc'[q] = alloc[q]
      BY <2>1, <3>1
    <3> QED BY <2>1, <3>2, RecomputeExact
  <2>3. ASSUME NEW t \in DOMAIN p.txns, t \in DOMAIN txn PROVE RollupExact'
    <3>1. PICK row : row = p.txns[t]
      OBVIOUS
    <3>2. /\ DOMAIN p.txns = {t} /\ row \in TransactionRow /\ txn[t] \in TransactionRow
          /\ row.type = txn[t].type /\ row.is_reimbursement = txn[t].is_reimbursement
          /\ row.month = txn[t].month
      BY <1>1, <1>4, <2>3, <3>1 DEF Decided, GoodPlan, PlanOK, OneEdit, Structure, TypeOK
    <3>3. Seen(p).txns[t] = txn[t] /\ DOMAIN Seen(p).txns = {t}
      BY <2>3, <3>2 DEF Seen, Restrict
    <3>4. MergedTransaction(txn[t], txn[t], row) = row
      BY <3>2 DEF MergedTransaction, Merged, TransactionRow
    <3>5. txn' = [txn EXCEPT ![t] = row]
      <4>1. /\ DOMAIN txn' = DOMAIN txn
            /\ \A u \in DOMAIN txn : txn'[u] = IF u = t THEN row ELSE txn[u]
        BY <1>4, <2>3, <3>1, <3>2, <3>3, <3>4 DEF Flush
      <4>2. txn = [u \in DOMAIN txn |-> txn[u]] /\ txn' = [u \in DOMAIN txn' |-> txn'[u]]
        BY <1>1 DEF Structure, TypeOK
      <4> QED BY <4>1, <4>2
    <3>6. txn[t].month \in months
      BY <2>0, <3>1, <3>2 DEF TouchedMonths
    <3>7. row.deleted # txn[t].deleted /\ IsReimbursement(txn, t)
            => ExpenseMonths(txn, alloc, {t}) \subseteq months
      <4>1. SUFFICES ASSUME row.deleted # txn[t].deleted, IsReimbursement(txn, t)
                     PROVE  ExpenseMonths(txn, alloc, {t}) \subseteq months
        OBVIOUS
      <4>2. IsReimbursement(Seen(p).txns, t)
        BY <3>3, <4>1 DEF IsReimbursement
      <4>3. t \in {u \in DOMAIN Seen(p).txns : /\ IsReimbursement(Seen(p).txns, u)
                                              /\ p.txns[u].deleted # Seen(p).txns[u].deleted}
        BY <3>1, <3>3, <4>1, <4>2
      <4> QED BY <2>0, <4>3 DEF TouchedMonths, ExpenseMonths
    <3> QED BY <1>1, <2>1, <2>3, <3>2, <3>5, <3>6, <3>7, EditOne
  <2>4. ASSUME NEW t \in DOMAIN p.txns, t \notin DOMAIN txn PROVE RollupExact'
    <3>1. PICK ty \in TransactionType, a \in Cents, m \in Month :
            p.txns[t] = NewRow(ty, FALSE, a, m)
      BY <1>4, <2>4 DEF Decided, OneEdit
    <3>2. DOMAIN p.txns = {t} /\ t \in TxnId
      BY <1>4, <2>4 DEF Decided, GoodPlan, PlanOK, OneEdit
    <3>3. DOMAIN Seen(p).txns = {}
      BY <2>4, <3>2 DEF Seen, Restrict
    <3>4. txn' = [u \in DOMAIN txn \cup {t} |->
                    IF u = t THEN NewRow(ty, FALSE, a, m) ELSE txn[u]]
      BY <1>4, <2>4, <3>1, <3>2, <3>3 DEF Flush
    <3>5. months = {m}
      <4>1. ExpenseMonths(txn, alloc, {}) = {}
        BY DEF ExpenseMonths
      <4>2. {u \in DOMAIN Seen(p).txns : /\ IsReimbursement(Seen(p).txns, u)
                                         /\ p.txns[u].deleted # Seen(p).txns[u].deleted} = {}
        BY <3>3
      <4>3. {p.txns[u].month : u \in DOMAIN p.txns} = {m}
        BY <3>1, <3>2 DEF NewRow
      <4> QED BY <2>0, <4>1, <4>2, <4>3 DEF TouchedMonths
    <3>6. Create(t, ty, FALSE, a, m)
      BY <2>1, <2>4, <3>4, <3>5 DEF Create
    <3>7. TransactionStep
      BY <3>1, <3>2, <3>6 DEF TransactionStep
    <3> QED BY <1>2, <3>7 DEF Next
  <2> QED BY <2>2, <2>3, <2>4
<1>5. ASSUME NEW p, Decided(p), Decide(p) PROVE RollupExact'
  BY <1>3, <1>4, <1>5 DEF Decide
<1>6. ASSUME NEW S, ImportStatement(S) PROVE RollupExact'
  BY <1>3, <1>6 DEF ImportStatement
<1>7. ASSUME NEW c \in DOMAIN requests PROVE FALSE
  BY <1>7 DEF BankInv, RowsOK
<1>8. CASE BankCall
  BY <1>5, <1>6, <1>8, CallsDecide
<1>9. CASE Undo
  BY <1>5, <1>9, UndoDecides
<1> QED BY <1>2, <1>3, <1>7, <1>8, <1>9 DEF BankNext, LedgerCall, Offer, bankVars, ledgerVars

-----------------------------------------------------------------------------
(* Theorems                                                                *)

\* A match never points at a transaction that is gone, however calls overlap, and a row
\* that no overtaken call wrote agrees with its match.
THEOREM BankMatchesExist == BankSpec => []MatchesExist
<1>1. BankInv => MatchesExist
  BY DEF BankInv
<1> QED BY <1>1, InitBank, NextBank, PTL DEF BankSpec

\* Two rows answered by one transaction take a call that was overtaken between its reads
\* and its commit: for any number of clients, in single calls and in batches, nothing
\* else can bring them about, trash, restore and purge included.
THEOREM BankOneRow == BankSpec => []OneRowPerTransaction
<1>1. BankInv => OneRowPerTransaction
  BY DEF BankInv
<1> QED BY <1>1, InitBank, NextBank, PTL DEF BankSpec

\* The SQL filter of the open list and the Python guard select the same rows.
THEOREM BankOpenView == BankSpec => []OpenViewIsUnresolved
<1> QED BY OpenViewAgrees, InitBank, NextBank, PTL DEF BankSpec

\* Reconciliation keeps its promise for any ledger, any statement, any batch and any
\* overlap of calls, and an Undo takes back its own outcome only.
THEOREM BankImplementsOutcomes == BankSpec => OutcomeSpec
<1>1. BankInit => Outcomes!Init
  BY DEF BankInit, Outcomes!Init, Outcome
<1> QED BY <1>1, InitBank, NextBank, NextOutcome, NextUndo, PTL
        DEF BankSpec, OutcomeSpec, UndoTakesBackItsOwn, Outcomes!Spec

\* The ledger's guarantees hold with the bank's calls in it, which write amounts, trash
\* and restore behind the ledger's back: as long as calls do not overlap, the stored
\* monthly totals are those of the live rows.
THEOREM BankRollupExact == Client = {} => (BankSpec => []RollupExact)
<1> SUFFICES ASSUME Client = {} PROVE BankSpec => []RollupExact
  OBVIOUS
<1>1. BankInit => BankInv /\ RollupExact
  BY InitBank, InitRollup DEF BankInit
<1>2. BankInv /\ RollupExact /\ [BankNext]_bankVars => (BankInv /\ RollupExact)'
  BY NextBank, NextLedgerOfBank
<1> QED BY <1>1, <1>2, PTL DEF BankSpec

-----------------------------------------------------------------------------
(* What the screens show.                                                  *)

(* Days and months.                                                        *)

LEMMA MonthHolds ==
  ASSUME NEW d \in Nat \ {0}
  PROVE  /\ MonthOf(d) \in Nat \ {0}
         /\ FirstDay(MonthOf(d)) <= d
         /\ d <= LastDay(MonthOf(d))
<1> DEFINE q == (d - 1) \div MonthLength
<1>1. MonthLength \in Nat \ {0} /\ d - 1 \in Nat
  BY ViewsAssumption
<1>2. q \in Nat /\ q * MonthLength <= d - 1 /\ d - 1 < (q + 1) * MonthLength
  BY <1>1
<1>3. MonthOf(d) = q + 1
  BY DEF MonthOf
<1> HIDE DEF q
<1>4. MonthOf(d) \in Nat \ {0} /\ MonthOf(d) - 1 = q
  BY <1>2, <1>3
<1> QED BY <1>1, <1>2, <1>3, <1>4 DEF FirstDay, LastDay

LEMMA MonthBounds ==
  ASSUME NEW m \in Int
  PROVE  FirstDay(m) \in Int /\ LastDay(m) \in Int /\ FirstDay(m) <= LastDay(m)
<1>1. MonthLength \in Nat \ {0}
  BY ViewsAssumption
<1>2. (m - 1) * MonthLength = m * MonthLength - MonthLength
  BY <1>1
<1>3. m * MonthLength \in Int
  BY <1>1
<1> QED BY <1>1, <1>2, <1>3 DEF FirstDay, LastDay

LEMMA MonthsApart ==
  ASSUME NEW m \in Int, NEW n \in Int, m < n
  PROVE  LastDay(m) < FirstDay(n)
<1>1. MonthLength \in Nat \ {0}
  BY ViewsAssumption
<1>2. m <= n - 1 /\ n - 1 \in Int
  OBVIOUS
<1>3. m * MonthLength <= (n - 1) * MonthLength
  BY <1>1, <1>2
<1>4. m * MonthLength \in Int /\ (n - 1) * MonthLength \in Int
  BY <1>1
<1> QED BY <1>3, <1>4 DEF FirstDay, LastDay

LEMMA MonthIs ==
  ASSUME NEW d \in Nat \ {0}, NEW m \in Int, FirstDay(m) <= d, d <= LastDay(m)
  PROVE  MonthOf(d) = m
<1>1. /\ MonthOf(d) \in Int /\ FirstDay(MonthOf(d)) <= d /\ d <= LastDay(MonthOf(d))
  BY MonthHolds
<1>2. /\ FirstDay(m) \in Int /\ LastDay(m) \in Int
      /\ FirstDay(MonthOf(d)) \in Int /\ LastDay(MonthOf(d)) \in Int
  BY <1>1, MonthBounds
<1>3. ~(MonthOf(d) < m)
  <2> SUFFICES ASSUME MonthOf(d) < m PROVE FALSE
    OBVIOUS
  <2>1. LastDay(MonthOf(d)) < FirstDay(m)
    BY <1>1, MonthsApart
  <2> QED BY <1>1, <1>2, <2>1
<1>4. ~(m < MonthOf(d))
  <2> SUFFICES ASSUME m < MonthOf(d) PROVE FALSE
    OBVIOUS
  <2>1. LastDay(m) < FirstDay(MonthOf(d))
    BY <1>1, MonthsApart
  <2> QED BY <1>1, <1>2, <2>1
<1> QED BY <1>1, <1>3, <1>4

-----------------------------------------------------------------------------
(* The rows of a period add up to what the list shows.                     *)

LiveRows == {t \in DOMAIN txn : ~txn[t].deleted}

Book == Structure /\ RollupExact /\ ExpenseNotOverReimbursed

LEMMA BookFacts ==
  ASSUME Book
  PROVE  /\ IsFiniteSet(DOMAIN txn)
         /\ \A t \in DOMAIN txn : txn[t].amount \in Nat /\ txn[t].month \in Month
         /\ AllocTable(alloc)
         /\ \A p \in DOMAIN alloc :
              /\ p[1] \in DOMAIN txn /\ p[2] \in DOMAIN txn
              /\ IsReimbursement(txn, p[1]) /\ IsExpense(txn, p[2])
<1>1. DOMAIN txn \subseteq TxnId /\ IsFiniteSet(TxnId)
  BY LedgerAssumption DEF Book, Structure, TypeOK
<1>2. IsFiniteSet(DOMAIN txn)
  BY <1>1, FS_Subset
<1>3. \A t \in DOMAIN txn : txn[t].amount \in Nat /\ txn[t].month \in Month
  BY LedgerAssumption DEF Book, Structure, TypeOK, TransactionRow, Cents
<1>4. AllocTable(alloc)
  BY LedgerAssumption DEF Book, Structure, TypeOK, AllocTable, Cents
<1>5. \A p \in DOMAIN alloc :
        /\ p[1] \in DOMAIN txn /\ p[2] \in DOMAIN txn
        /\ IsReimbursement(txn, p[1]) /\ IsExpense(txn, p[2])
  BY DEF Book, Structure, AllocationEndpoints
<1> QED BY <1>2, <1>3, <1>4, <1>5

(* What a set of expenses is paid back is the sum of what each is.         *)
LEMMA PaidBack ==
  ASSUME Book, NEW E \in SUBSET DOMAIN txn
  PROVE  LET paid == [t \in E |-> ReimbursedOf({t})]
         IN paid \in [E -> Nat] /\ ReimbursedOf(E) = SumFunction(paid)
<1> DEFINE A == ActiveAllocations(txn, alloc)
           P == {p \in A : p[2] \in E}
           pay == [p \in P |-> alloc[p]]
           paid == [t \in E |-> ReimbursedOf({t})]
           key == [p \in P |-> p[2]]
<1>1. IsFiniteSet(P) /\ IsFiniteSet(E)
  <2>1. P \in SUBSET DOMAIN alloc
    BY DEF ActiveAllocations
  <2>2. IsFiniteSet(DOMAIN alloc) /\ IsFiniteSet(DOMAIN txn)
    BY BookFacts, AllocFinite
  <2> QED BY <2>1, <2>2, FS_Subset
<1>2. pay \in [P -> Nat] /\ pay \in [P -> Int]
  BY BookFacts DEF AllocTable, ActiveAllocations
<1>3. \A t \in E : paid[t] = SumFunction([p \in {q \in P : key[q] = t} |-> pay[p]])
  <2> SUFFICES ASSUME NEW t \in E
               PROVE  ReimbursedOf({t}) = SumFunction([p \in {q \in P : key[q] = t} |-> pay[p]])
    OBVIOUS
  <2>1. {p \in A : p[2] \in {t}} = {q \in P : key[q] = t}
    OBVIOUS
  <2>2. [p \in {p \in A : p[2] \in {t}} |-> alloc[p]] = [p \in {q \in P : key[q] = t} |-> pay[p]]
    BY <2>1
  <2> QED BY <2>2 DEF ReimbursedOf, TotalAllocated, Restrict
<1>4. \A p \in P : key[p] \in E
  OBVIOUS
<1>5. ReimbursedOf(E) = SumFunction(pay)
  BY DEF ReimbursedOf, TotalAllocated, Restrict
<1>6. DOMAIN paid = E /\ paid = [t \in E |-> paid[t]]
  OBVIOUS
<1>7. ASSUME NEW t \in E PROVE paid[t] \in Nat
  <2> DEFINE R == {q \in P : key[q] = t}
             own == [p \in R |-> pay[p]]
  <2>1. R \in SUBSET P /\ DOMAIN own = R /\ \A p \in R : own[p] = pay[p]
    OBVIOUS
  <2>2. paid[t] = SumFunction(own)
    BY <1>3
  <2> HIDE DEF R, own, P, pay, paid
  <2> QED BY <1>1, <1>2, <2>1, <2>2, SumOfPart
<1> HIDE DEF P, pay, paid, key
<1>8. SumFunction(pay) = SumFunction([t \in E |-> paid[t]])
  BY <1>1, <1>2, <1>3, <1>4, <1>6, SumByKey
<1>9. paid \in [E -> Nat]
  BY <1>6, <1>7
<1>10. ReimbursedOf(E) = SumFunction(paid)
  BY <1>5, <1>6, <1>8
<1> QED BY <1>9, <1>10 DEF paid

(* An expense is not paid back more than it cost.                          *)
LEMMA NetIsRest ==
  ASSUME Book, NEW t \in DOMAIN txn, IsExpense(txn, t)
  PROVE  /\ ReimbursedOf({t}) \in Nat
         /\ ReimbursedOf({t}) <= txn[t].amount
         /\ NetAmount(t) = txn[t].amount - ReimbursedOf({t})
         /\ NetAmount(t) \in Nat
<1> DEFINE S == AllocationsInto(alloc, t)
           R == {p \in ActiveAllocations(txn, alloc) : p[2] \in {t}}
           f == Restrict(alloc, S)
           g == Restrict(alloc, R)
<1>1. IsFiniteSet(S)
  <2>1. S \in SUBSET DOMAIN alloc
    BY DEF AllocationsInto
  <2> QED BY <2>1, BookFacts, AllocFinite, FS_Subset
<1>2. f \in [S -> Nat]
  BY BookFacts DEF AllocTable, AllocationsInto, Restrict
<1>3. R \in SUBSET S /\ DOMAIN g = R /\ \A p \in R : g[p] = f[p]
  BY DEF AllocationsInto, ActiveAllocations, Restrict
<1>4. SumFunction(f) <= txn[t].amount
  BY DEF Book, ExpenseNotOverReimbursed, TotalAllocated
<1>5. R = ActiveAllocations(txn, alloc) \cap S
  BY DEF ActiveAllocations, AllocationsInto
<1>6. NetAmount(t) = AtLeastZero(txn[t].amount - SumFunction(g))
  BY <1>5 DEF NetAmount, TotalAllocated
<1>7. ReimbursedOf({t}) = SumFunction(g)
  BY DEF ReimbursedOf, TotalAllocated
<1>8. txn[t].amount \in Nat
  BY BookFacts
<1> HIDE DEF S, R, f, g
<1>9. SumFunction(g) \in Nat /\ SumFunction(f) \in Nat /\ SumFunction(g) <= SumFunction(f)
  BY <1>1, <1>2, <1>3, SumOfPart
<1> QED BY <1>4, <1>6, <1>7, <1>8, <1>9 DEF AtLeastZero

LEMMA NetNumber ==
  ASSUME Book, NEW E \in SUBSET DOMAIN txn, \A t \in E : IsExpense(txn, t)
  PROVE  [t \in E |-> NetAmount(t)] \in [E -> Nat]
<1>1. ASSUME NEW t \in E PROVE NetAmount(t) \in Nat
  <2>1. t \in DOMAIN txn /\ IsExpense(txn, t)
    OBVIOUS
  <2> QED BY <2>1, NetIsRest
<1> QED BY <1>1

(* A query's net expenses are the list's, added up row by row: the floor   *)
(* under the difference never counts.                                      *)
LEMMA NetIsShown ==
  ASSUME Book, NEW E \in SUBSET DOMAIN txn, \A t \in E : IsExpense(txn, t)
  PROVE  Net(E) = Shown(E) /\ Shown(E) \in Nat
<1> DEFINE paid == [t \in E |-> ReimbursedOf({t})]
           gross == [t \in E |-> txn[t].amount]
           net == [t \in E |-> NetAmount(t)]
<1>1. IsFiniteSet(E)
  BY BookFacts, FS_Subset
<1>2. paid \in [E -> Nat] /\ paid \in [E -> Int] /\ ReimbursedOf(E) = SumFunction(paid)
  BY PaidBack
<1>3. gross \in [E -> Int]
  BY BookFacts
<1>4. net \in [E -> Nat] /\ net \in [E -> Int]
  <2>1. net \in [E -> Nat]
    BY NetNumber
  <2> QED BY <2>1
<1>5. \A t \in E : net[t] = gross[t] - paid[t]
  BY NetIsRest
<1>6. Expenses(E) = E
  BY DEF Expenses
<1>7. Net(E) = AtLeastZero(SumFunction(gross) - SumFunction(paid))
  BY <1>2, <1>6 DEF Net, TotalAmount
<1>8. Shown(E) = SumFunction(net)
  BY DEF Shown
<1> HIDE DEF paid, gross, net
<1>9. SumFunction(net) = SumFunction(gross) - SumFunction(paid)
  BY <1>1, <1>2, <1>3, <1>4, <1>5, SumMinus
<1>10. SumFunction(net) \in Nat
  <2>1. DOMAIN net = E /\ E \in SUBSET E
    BY <1>4
  <2> QED BY <1>1, <1>4, <2>1, SumOfPart
<1> QED BY <1>7, <1>8, <1>9, <1>10 DEF AtLeastZero

LEMMA FiguresListed ==
  ASSUME Book, NEW S \in SUBSET DOMAIN txn
  PROVE  Figures(S) = Listed(S) /\ Listed(S) \in [income : Int, expenses : Int]
<1>1. Expenses(S) \in SUBSET DOMAIN txn /\ \A t \in Expenses(S) : IsExpense(txn, t)
  BY DEF Expenses
<1>2. Net(Expenses(S)) = Shown(Expenses(S)) /\ Shown(Expenses(S)) \in Int
  BY <1>1, NetIsShown
<1>3. Expenses(Expenses(S)) = Expenses(S)
  BY DEF Expenses
<1>4. Net(S) = Net(Expenses(S))
  BY <1>3 DEF Net
<1>5. Income(S) \in Int
  <2> DEFINE E == Incomes(S)
             f == [t \in E |-> txn[t].amount]
  <2>1. IsFiniteSet(E) /\ f \in [E -> Int]
    <3>1. E \in SUBSET DOMAIN txn
      BY DEF Incomes
    <3> QED BY <3>1, BookFacts, FS_Subset
  <2>2. Income(S) = SumFunction(f)
    BY DEF Income, TotalAmount
  <2> HIDE DEF E, f
  <2> QED BY <2>1, <2>2, SumType
<1> QED BY <1>2, <1>4, <1>5 DEF Figures, Listed

(* What two lists without a common row show adds up.                       *)
LEMMA ListedSplit ==
  ASSUME Book, NEW S \in SUBSET DOMAIN txn, NEW A \in SUBSET S, NEW B \in SUBSET S,
         \A t \in S : t \in A <=> t \notin B
  PROVE  Listed(S) = Plus(Listed(A), Listed(B))
<1>1. /\ IsFiniteSet(Incomes(S)) /\ IsFiniteSet(Expenses(S))
      /\ Incomes(S) \in SUBSET DOMAIN txn /\ Expenses(S) \in SUBSET DOMAIN txn
  <2>1. Incomes(S) \in SUBSET DOMAIN txn /\ Expenses(S) \in SUBSET DOMAIN txn
    BY DEF Incomes, Expenses
  <2> QED BY <2>1, BookFacts, FS_Subset
<1>2. Income(S) = Income(A) + Income(B)
  <2> DEFINE f(X) == [t \in Incomes(X) |-> txn[t].amount]
             fS == f(S)
             fA == f(A)
             fB == f(B)
             IS == Incomes(S)
             IA == Incomes(A)
             IB == Incomes(B)
  <2>1. IsFiniteSet(IS) /\ fS \in [IS -> Int]
    BY <1>1, BookFacts
  <2>2. IA \in SUBSET IS /\ IB \in SUBSET IS /\ \A t \in IS : t \in IA <=> t \notin IB
    BY DEF Incomes
  <2>3. DOMAIN fA = IA /\ \A t \in IA : fA[t] = fS[t]
    BY <2>2
  <2>4. DOMAIN fB = IB /\ \A t \in IB : fB[t] = fS[t]
    BY <2>2
  <2>5. SumFunction(fS) = SumFunction(fA) + SumFunction(fB)
    <3> HIDE DEF fS, fA, fB, IS, IA, IB
    <3>1. Halves(IS, fS, fA, fB)
      BY <2>1, <2>2, <2>3, <2>4 DEF Halves
    <3> QED BY <3>1, SumSplit
  <2> QED BY <2>5 DEF Income, TotalAmount
<1>3. Shown(Expenses(S)) = Shown(Expenses(A)) + Shown(Expenses(B))
  <2> DEFINE f(X) == [t \in Expenses(X) |-> NetAmount(t)]
             fS == f(S)
             fA == f(A)
             fB == f(B)
             ES == Expenses(S)
             EA == Expenses(A)
             EB == Expenses(B)
  <2>1. IsFiniteSet(ES) /\ fS \in [ES -> Int]
    <3>1. ES \in SUBSET DOMAIN txn /\ \A t \in ES : IsExpense(txn, t)
      BY <1>1 DEF Expenses
    <3>2. [t \in ES |-> NetAmount(t)] \in [ES -> Nat]
      <4> HIDE DEF ES
      <4> QED BY <3>1, NetNumber
    <3> QED BY <1>1, <3>2
  <2>2. EA \in SUBSET ES /\ EB \in SUBSET ES /\ \A t \in ES : t \in EA <=> t \notin EB
    BY DEF Expenses
  <2>3. DOMAIN fA = EA /\ \A t \in EA : fA[t] = fS[t]
    BY <2>2
  <2>4. DOMAIN fB = EB /\ \A t \in EB : fB[t] = fS[t]
    BY <2>2
  <2>5. SumFunction(fS) = SumFunction(fA) + SumFunction(fB)
    <3> HIDE DEF fS, fA, fB, ES, EA, EB
    <3>1. Halves(ES, fS, fA, fB)
      BY <2>1, <2>2, <2>3, <2>4 DEF Halves
    <3> QED BY <3>1, SumSplit
  <2> QED BY <2>5 DEF Shown
<1> QED BY <1>2, <1>3 DEF Listed, Plus

(* What the parts of a list show, told apart by a key, adds up to what it  *)
(* shows.                                                                  *)
LEMMA ListedByKey ==
  ASSUME Book, NEW S \in SUBSET DOMAIN txn, NEW K, IsFiniteSet(K),
         NEW key, \A t \in S : key[t] \in K
  PROVE  /\ Income(S) = SumFunction([k \in K |-> Income({t \in S : key[t] = k})])
         /\ Shown(Expenses(S))
              = SumFunction([k \in K |-> Shown(Expenses({t \in S : key[t] = k}))])
<1>1. /\ IsFiniteSet(Incomes(S)) /\ IsFiniteSet(Expenses(S))
      /\ Incomes(S) \in SUBSET S /\ Expenses(S) \in SUBSET S
  <2>1. /\ Incomes(S) \in SUBSET DOMAIN txn /\ Expenses(S) \in SUBSET DOMAIN txn
        /\ Incomes(S) \in SUBSET S /\ Expenses(S) \in SUBSET S
    BY DEF Incomes, Expenses
  <2> QED BY <2>1, BookFacts, FS_Subset
<1>2. Income(S) = SumFunction([k \in K |-> Income({t \in S : key[t] = k})])
  <2> DEFINE R == Incomes(S)
             f == [t \in R |-> txn[t].amount]
             g == [k \in K |-> Income({t \in S : key[t] = k})]
  <2>1. IsFiniteSet(R) /\ f \in [R -> Int] /\ \A t \in R : key[t] \in K
    BY <1>1, BookFacts
  <2>2. DOMAIN g = K /\ g = [k \in K |-> g[k]]
    OBVIOUS
  <2>3. ASSUME NEW k \in K
        PROVE  g[k] = SumFunction([t \in {u \in R : key[u] = k} |-> f[t]])
    <3>1. Incomes({t \in S : key[t] = k}) = {u \in R : key[u] = k}
      BY DEF Incomes
    <3>2. [t \in Incomes({t \in S : key[t] = k}) |-> txn[t].amount]
            = [t \in {u \in R : key[u] = k} |-> f[t]]
      BY <3>1
    <3> QED BY <3>2 DEF Income, TotalAmount
  <2>4. Income(S) = SumFunction(f)
    BY DEF Income, TotalAmount
  <2>5. SumFunction(f) = SumFunction(g)
    <3> HIDE DEF R, f, g
    <3>1. SumFunction(f) = SumFunction([k \in K |-> g[k]])
      BY <2>1, <2>2, <2>3, SumByKey
    <3> QED BY <2>2, <3>1
  <2> QED BY <2>4, <2>5
<1>3. Shown(Expenses(S))
        = SumFunction([k \in K |-> Shown(Expenses({t \in S : key[t] = k}))])
  <2> DEFINE R == Expenses(S)
             f == [t \in R |-> NetAmount(t)]
             g == [k \in K |-> Shown(Expenses({t \in S : key[t] = k}))]
  <2>1. IsFiniteSet(R) /\ f \in [R -> Int] /\ \A t \in R : key[t] \in K
    <3>1. R \in SUBSET DOMAIN txn /\ \A t \in R : IsExpense(txn, t)
      BY <1>1 DEF Expenses
    <3>2. f \in [R -> Nat]
      <4> HIDE DEF R
      <4> QED BY <3>1, NetNumber
    <3> QED BY <1>1, <3>2
  <2>2. DOMAIN g = K /\ g = [k \in K |-> g[k]]
    OBVIOUS
  <2>3. ASSUME NEW k \in K
        PROVE  g[k] = SumFunction([t \in {u \in R : key[u] = k} |-> f[t]])
    <3>1. Expenses({t \in S : key[t] = k}) = {u \in R : key[u] = k}
      BY DEF Expenses
    <3>2. [t \in Expenses({t \in S : key[t] = k}) |-> NetAmount(t)]
            = [t \in {u \in R : key[u] = k} |-> f[t]]
      BY <3>1
    <3> QED BY <3>2 DEF Shown
  <2>4. Shown(R) = SumFunction(f)
    BY DEF Shown
  <2>5. SumFunction(f) = SumFunction(g)
    <3> HIDE DEF R, f, g
    <3>1. SumFunction(f) = SumFunction([k \in K |-> g[k]])
      BY <2>1, <2>2, <2>3, SumByKey
    <3> QED BY <2>2, <3>1
  <2> QED BY <2>4, <2>5
<1> QED BY <1>2, <1>3

(* A stored month is what the list of the month shows.                     *)
LEMMA RollupListed ==
  ASSUME Book, NEW m \in Month
  PROVE  LET f == Listed({t \in LiveRows : txn[t].month = m})
         IN rollup[m].income = f.income /\ rollup[m].expense = f.expenses
<1> DEFINE S == {t \in LiveRows : txn[t].month = m}
<1>1. S \in SUBSET DOMAIN txn
  BY DEF LiveRows
<1>2. IncomeRows(txn, m) = Incomes(S) /\ ExpenseRows(txn, m) = Expenses(S)
  BY DEF IncomeRows, ExpenseRows, Incomes, Expenses, LiveRows, IsExpense
<1>3. ReimbursedRows(txn, alloc, m)
        = {p \in ActiveAllocations(txn, alloc) : p[2] \in Expenses(S)}
  BY DEF ReimbursedRows, ActiveAllocations, Expenses, LiveRows, IsLive
<1>4. rollup[m] = [income |-> Income(S), expense |-> Net(S)]
  BY <1>2, <1>3
     DEF Book, RollupExact, MonthTotals, Income, Net, ReimbursedOf
<1>5. Figures(S) = Listed(S)
  BY <1>1, FiguresListed
<1> HIDE DEF S
<1> QED BY <1>4, <1>5 DEF Figures, Listed, S

\* The live rows of some months.
RowsOfMonths(M) == {t \in LiveRows : txn[t].month \in M}

LEMMA RollupsListed ==
  ASSUME Book, NEW M \in SUBSET Month, IsFiniteSet(M)
  PROVE  FromRollups(M) = Listed(RowsOfMonths(M))
<1> DEFINE S == RowsOfMonths(M)
           key == [t \in DOMAIN txn |-> txn[t].month]
<1>1. S \in SUBSET DOMAIN txn /\ \A t \in S : key[t] \in M
  BY DEF LiveRows, RowsOfMonths
<1>2. ASSUME NEW m \in M
      PROVE  {t \in S : key[t] = m} = {t \in LiveRows : txn[t].month = m}
  BY DEF LiveRows, RowsOfMonths
<1>3. \A m \in M : /\ rollup[m].income = Income({t \in S : key[t] = m})
                   /\ rollup[m].expense = Shown(Expenses({t \in S : key[t] = m}))
  BY <1>2, RollupListed DEF Listed
<1>4. /\ Income(S) = SumFunction([m \in M |-> Income({t \in S : key[t] = m})])
      /\ Shown(Expenses(S))
           = SumFunction([m \in M |-> Shown(Expenses({t \in S : key[t] = m}))])
  <2> HIDE DEF S, key
  <2> QED BY <1>1, ListedByKey
<1>5. [m \in M |-> rollup[m].income] = [m \in M |-> Income({t \in S : key[t] = m})]
  BY <1>3
<1>6. [m \in M |-> rollup[m].expense]
        = [m \in M |-> Shown(Expenses({t \in S : key[t] = m}))]
  BY <1>3
<1> HIDE DEF S, key
<1>7. SumFunction([m \in M |-> rollup[m].income]) = Income(S)
  BY <1>4, <1>5
<1>8. SumFunction([m \in M |-> rollup[m].expense]) = Shown(Expenses(S))
  BY <1>4, <1>6
<1> QED BY <1>7, <1>8 DEF FromRollups, Listed, S

-----------------------------------------------------------------------------
(* The KPIs.                                                               *)

LEMMA MonthsInOrder ==
  ASSUME NEW c \in Nat \ {0}, NEW d \in Nat \ {0}, c <= d
  PROVE  MonthOf(c) <= MonthOf(d)
<1>1. /\ MonthOf(c) \in Int /\ FirstDay(MonthOf(c)) <= c
      /\ MonthOf(d) \in Int /\ d <= LastDay(MonthOf(d))
  BY MonthHolds
<1>2. FirstDay(MonthOf(c)) \in Int /\ LastDay(MonthOf(d)) \in Int
  BY <1>1, MonthBounds
<1>3. ~(MonthOf(d) < MonthOf(c))
  <2> SUFFICES ASSUME MonthOf(d) < MonthOf(c) PROVE FALSE
    OBVIOUS
  <2>1. LastDay(MonthOf(d)) < FirstDay(MonthOf(c))
    BY <1>1, MonthsApart
  <2> QED BY <1>1, <1>2, <2>1
<1> QED BY <1>1, <1>3

(* A day of a period lies in its first month, in its last or in one of the *)
(* full months between, and in only one of them.                           *)
LEMMA PeriodParts ==
  ASSUME NEW s \in Nat \ {0}, NEW e \in Nat \ {0}, s <= e, MonthOf(s) # MonthOf(e),
         NEW d \in Nat \ {0}
  PROVE  LET first == s <= d /\ d <= LastDay(MonthOf(s))
             last == FirstDay(MonthOf(e)) <= d /\ d <= e
             full == MonthOf(d) \in FullMonths(s, e)
         IN /\ s <= d /\ d <= e <=> first \/ last \/ full
            /\ ~(first /\ last) /\ ~(first /\ full) /\ ~(last /\ full)
<1> DEFINE ms == MonthOf(s)
           me == MonthOf(e)
           md == MonthOf(d)
<1>1. /\ ms \in Int /\ me \in Int /\ md \in Int
      /\ FirstDay(ms) <= s /\ s <= LastDay(ms)
      /\ FirstDay(me) <= e /\ e <= LastDay(me)
      /\ FirstDay(md) <= d /\ d <= LastDay(md)
  BY MonthHolds
<1>2. /\ FirstDay(ms) \in Int /\ LastDay(ms) \in Int
      /\ FirstDay(me) \in Int /\ LastDay(me) \in Int
      /\ FirstDay(md) \in Int /\ LastDay(md) \in Int
  BY <1>1, MonthBounds
<1>3. ms < me
  BY <1>1, MonthsInOrder
<1>4. /\ s <= d => ms <= md
      /\ d <= s => md <= ms
      /\ d <= e => md <= me
      /\ e <= d => me <= md
  BY MonthsInOrder
<1>5. s <= d /\ d <= LastDay(ms) <=> s <= d /\ md = ms
  <2>1. ASSUME s <= d, d <= LastDay(ms) PROVE md = ms
    <3>1. FirstDay(ms) <= d
      BY <1>1, <1>2, <2>1
    <3> QED BY <1>1, <2>1, <3>1, MonthIs
  <2> QED BY <1>1, <2>1
<1>6. FirstDay(me) <= d /\ d <= e <=> md = me /\ d <= e
  <2>1. ASSUME FirstDay(me) <= d, d <= e PROVE md = me
    <3>1. d <= LastDay(me)
      BY <1>1, <1>2, <2>1
    <3> QED BY <1>1, <2>1, <3>1, MonthIs
  <2> QED BY <1>1, <2>1
<1>7. md \in FullMonths(s, e) <=> ms < md /\ md < me
  BY <1>1 DEF FullMonths
<1> HIDE DEF ms, me, md
<1> QED BY <1>1, <1>3, <1>4, <1>5, <1>6, <1>7 DEF ms, me, md

LEMMA DateOfRow ==
  ASSUME Book, NEW t \in DOMAIN txn
  PROVE  /\ txn[t].month \in Month /\ txn[t].month \in Int
         /\ Date(t) \in Nat \ {0}
         /\ FirstDay(txn[t].month) <= Date(t) /\ Date(t) <= LastDay(txn[t].month)
         /\ MonthOf(Date(t)) = txn[t].month
<1> DEFINE m == txn[t].month
<1>1. m \in Month
  BY BookFacts
<1>2. m \in Nat \ {0}
  BY <1>1, ViewsAssumption
<1>3. DayIn[t] \in 1..MonthLength /\ MonthLength \in Nat \ {0}
  <2>1. t \in TxnId
    BY DEF Book, Structure, TypeOK
  <2> QED BY <2>1, ViewsAssumption
<1> HIDE DEF m
<1>4. (m - 1) * MonthLength \in Nat
  BY <1>2, <1>3
<1>5. m * MonthLength = (m - 1) * MonthLength + MonthLength
  BY <1>2, <1>3
<1>6. Date(t) = (m - 1) * MonthLength + DayIn[t]
  BY <1>3, <1>4 DEF Date, FirstDay, m
<1>7. Date(t) \in Nat \ {0} /\ FirstDay(m) <= Date(t) /\ Date(t) <= LastDay(m)
  BY <1>3, <1>4, <1>5, <1>6 DEF FirstDay, LastDay
<1>8. MonthOf(Date(t)) = m
  BY <1>2, <1>7, MonthIs
<1> QED BY <1>1, <1>2, <1>7, <1>8 DEF m

\* A period of the calendar.
InCalendar(s, e) ==
  /\ s \in Nat \ {0} /\ e \in Nat \ {0} /\ s <= e /\ e <= LastDay(LastMonthOf)

LEMMA PeriodFacts ==
  ASSUME NEW p \in Period
  PROVE  InCalendar(p[1], p[2])
<1>1. LastDay(LastMonthOf) \in Int
  <2>1. LastMonthOf \in Int
    BY ViewsAssumption
  <2> QED BY <2>1, MonthBounds
<1> QED BY <1>1 DEF Period, Day, InCalendar

LEMMA MonthInCalendar ==
  ASSUME NEW d \in Nat \ {0}, d <= LastDay(LastMonthOf)
  PROVE  MonthOf(d) \in Month
<1>1. MonthOf(d) \in Nat \ {0} /\ FirstDay(MonthOf(d)) <= d
  BY MonthHolds
<1>2. LastMonthOf \in Nat \ {0} /\ Month = 1..LastMonthOf
  BY ViewsAssumption
<1>3. ~(LastMonthOf < MonthOf(d))
  <2> SUFFICES ASSUME LastMonthOf < MonthOf(d) PROVE FALSE
    OBVIOUS
  <2>1. LastDay(LastMonthOf) < FirstDay(MonthOf(d))
    BY <1>1, <1>2, MonthsApart
  <2>2. LastDay(LastMonthOf) \in Int /\ FirstDay(MonthOf(d)) \in Int
    BY <1>1, <1>2, MonthBounds
  <2> QED BY <1>1, <2>1, <2>2
<1> QED BY <1>1, <1>2, <1>3

(* The rows of a query, by their dates and the months they are in.         *)
LEMMA RowsAre ==
  ASSUME NEW s \in Int, NEW e \in Int, NEW scope
  PROVE  /\ Rows(s, e, scope) \in SUBSET LiveRows
         /\ Rows(s, e, scope) \in SUBSET DOMAIN txn
         /\ Book => \A t \in LiveRows :
              t \in Rows(s, e, scope) <=> s <= Date(t) /\ Date(t) <= e /\ InScope(t, scope)
<1>1. Rows(s, e, scope) \in SUBSET LiveRows /\ Rows(s, e, scope) \in SUBSET DOMAIN txn
  BY DEF Rows, RowsBetween, LiveRows
<1>2. ASSUME Book, NEW t \in LiveRows
      PROVE  t \in Rows(s, e, scope) <=> s <= Date(t) /\ Date(t) <= e /\ InScope(t, scope)
  <2>1. Date(t) \in Int /\ t \in DOMAIN txn /\ ~txn[t].deleted
    BY <1>2, DateOfRow DEF LiveRows
  <2> QED BY <2>1 DEF Rows, RowsBetween
<1> QED BY <1>1, <1>2

LEMMA AllInWhole ==
  ASSUME NEW t
  PROVE  InScope(t, Whole)
BY DEF InScope, Whole

(* The rows of a whole month.                                              *)
LEMMA RowsOfMonth ==
  ASSUME Book, NEW m \in Month
  PROVE  Rows(FirstDay(m), LastDay(m), Whole) = RowsOfMonths({m})
<1>1. m \in Int
  BY ViewsAssumption
<1>2. FirstDay(m) \in Int /\ LastDay(m) \in Int
  BY <1>1, MonthBounds
<1>3. ASSUME NEW t \in LiveRows
      PROVE  t \in Rows(FirstDay(m), LastDay(m), Whole) <=> txn[t].month = m
  <2>1. t \in DOMAIN txn
    BY DEF LiveRows
  <2>2. FirstDay(m) <= Date(t) /\ Date(t) <= LastDay(m) <=> txn[t].month = m
    BY <1>1, <2>1, DateOfRow, MonthIs
  <2> QED BY <1>2, <2>2, RowsAre, AllInWhole
<1>4. Rows(FirstDay(m), LastDay(m), Whole) \subseteq LiveRows
  BY <1>2, RowsAre
<1> QED BY <1>3, <1>4 DEF RowsOfMonths

(* The KPIs of a period are what the list of the period adds up to.        *)
LEMMA KpisListed ==
  ASSUME Book, NEW s, NEW e, InCalendar(s, e), NEW scope
  PROVE  KpiFigures(s, e, scope) = Listed(Rows(s, e, scope))
<1>1. s \in Nat \ {0} /\ e \in Nat \ {0} /\ s <= e /\ e <= LastDay(LastMonthOf)
  BY DEF InCalendar
<1>2. \A a, b \in Int : \A c : Figures(Rows(a, b, c)) = Listed(Rows(a, b, c))
  BY RowsAre, FiguresListed
<1>3. MonthOf(s) \in Month /\ MonthOf(e) \in Month
  <2>1. LastDay(LastMonthOf) \in Int
    BY ViewsAssumption, MonthBounds
  <2>2. s <= LastDay(LastMonthOf)
    BY <1>1, <2>1
  <2> QED BY <1>1, <2>2, MonthInCalendar
<1>4. /\ MonthOf(s) \in Int /\ MonthOf(e) \in Int
      /\ LastDay(MonthOf(s)) \in Int /\ FirstDay(MonthOf(e)) \in Int
  <2>1. MonthOf(s) \in Int /\ MonthOf(e) \in Int
    BY <1>1, MonthHolds
  <2> QED BY <2>1, MonthBounds
<1>5. CASE scope # Whole
  BY <1>1, <1>2, <1>5 DEF KpiFigures
<1>6. CASE scope = Whole /\ s = FirstDay(MonthOf(s)) /\ e = LastDay(MonthOf(s))
  <2>1. KpiFigures(s, e, scope) = FromRollups({MonthOf(s)})
    BY <1>6 DEF KpiFigures
  <2>2. FromRollups({MonthOf(s)}) = Listed(RowsOfMonths({MonthOf(s)}))
    BY <1>3, FS_Singleton, RollupsListed
  <2>3. RowsOfMonths({MonthOf(s)}) = Rows(s, e, Whole)
    BY <1>3, <1>6, RowsOfMonth
  <2> QED BY <1>6, <2>1, <2>2, <2>3
<1>7. CASE /\ scope = Whole /\ ~(s = FirstDay(MonthOf(s)) /\ e = LastDay(MonthOf(s)))
           /\ MonthOf(s) = MonthOf(e)
  BY <1>1, <1>2, <1>7 DEF KpiFigures
<1>8. CASE /\ scope = Whole /\ ~(s = FirstDay(MonthOf(s)) /\ e = LastDay(MonthOf(s)))
           /\ MonthOf(s) # MonthOf(e)
  <2> DEFINE S == Rows(s, e, Whole)
             S1 == Rows(s, LastDay(MonthOf(s)), Whole)
             S2 == Rows(FirstDay(MonthOf(e)), e, Whole)
             S3 == RowsOfMonths(FullMonths(s, e))
             Ends == S1 \cup S2
  <2>1. KpiFigures(s, e, scope)
          = Plus(Plus(Figures(S1), Figures(S2)), FromRollups(FullMonths(s, e)))
    BY <1>8 DEF KpiFigures
  <2>2. Figures(S1) = Listed(S1) /\ Figures(S2) = Listed(S2)
    BY <1>1, <1>2, <1>4
  <2>3. FromRollups(FullMonths(s, e)) = Listed(S3)
    <3>1. FullMonths(s, e) \in SUBSET Month /\ IsFiniteSet(FullMonths(s, e))
      <4>1. FullMonths(s, e) \in SUBSET Month
        BY <1>3, <1>4, ViewsAssumption DEF FullMonths
      <4>2. MonthOf(s) + 1 \in Int /\ MonthOf(e) - 1 \in Int
        BY <1>4
      <4> QED BY <4>1, <4>2, FS_Interval DEF FullMonths
    <3> QED BY <3>1, RollupsListed
  <2>4. /\ S \in SUBSET LiveRows /\ S1 \in SUBSET LiveRows /\ S2 \in SUBSET LiveRows
        /\ S3 \in SUBSET LiveRows
    BY <1>1, <1>4, RowsAre DEF RowsOfMonths
  <2>5. ASSUME NEW t \in LiveRows
        PROVE  /\ t \in S <=> t \in S1 \/ t \in S2 \/ t \in S3
               /\ ~(t \in S1 /\ t \in S2) /\ ~(t \in S1 /\ t \in S3) /\ ~(t \in S2 /\ t \in S3)
    <3>1. t \in DOMAIN txn
      BY DEF LiveRows
    <3>2. Date(t) \in Nat \ {0} /\ MonthOf(Date(t)) = txn[t].month
      BY <3>1, DateOfRow
    <3>3. /\ t \in S <=> s <= Date(t) /\ Date(t) <= e
          /\ t \in S1 <=> s <= Date(t) /\ Date(t) <= LastDay(MonthOf(s))
          /\ t \in S2 <=> FirstDay(MonthOf(e)) <= Date(t) /\ Date(t) <= e
      <4>1. \A a, b \in Int : t \in Rows(a, b, Whole) <=> a <= Date(t) /\ Date(t) <= b
        BY RowsAre, AllInWhole
      <4> QED BY <1>1, <1>4, <4>1
    <3>4. t \in S3 <=> MonthOf(Date(t)) \in FullMonths(s, e)
      BY <3>2 DEF RowsOfMonths
    <3> HIDE DEF S, S1, S2, S3
    <3> QED BY <1>1, <1>8, <3>2, <3>3, <3>4, PeriodParts
  <2>6. LiveRows \subseteq DOMAIN txn
    BY DEF LiveRows
  <2> HIDE DEF S, S1, S2, S3
  <2>7. Listed(Ends) = Plus(Listed(S1), Listed(S2))
    <3>1. /\ Ends \in SUBSET DOMAIN txn /\ S1 \in SUBSET Ends /\ S2 \in SUBSET Ends
          /\ \A t \in Ends : t \in S1 <=> t \notin S2
      BY <2>4, <2>5, <2>6
    <3> HIDE DEF Ends
    <3> QED BY <3>1, ListedSplit
  <2>8. Listed(S) = Plus(Listed(Ends), Listed(S3))
    <3>1. /\ S \in SUBSET DOMAIN txn /\ Ends \in SUBSET S /\ S3 \in SUBSET S
          /\ \A t \in S : t \in Ends <=> t \notin S3
      BY <2>4, <2>5, <2>6
    <3> HIDE DEF Ends
    <3> QED BY <3>1, ListedSplit
  <2> HIDE DEF Ends
  <2>9. KpiFigures(s, e, scope) = Listed(S)
    BY <2>1, <2>2, <2>3, <2>7, <2>8
  <2> QED BY <1>8, <2>9 DEF S
<1> QED BY <1>5, <1>6, <1>7, <1>8

\* The rows of a month, cut to the period.
MonthRows(s, e, m, scope) == {t \in Rows(s, e, scope) : txn[t].month = m}

LEMMA PartOfMonth ==
  ASSUME Book, NEW s, NEW e, InCalendar(s, e), NEW scope, NEW m \in Month
  PROVE  Rows(Greater(s, FirstDay(m)), Lesser(e, LastDay(m)), scope) = MonthRows(s, e, m, scope)
<1> DEFINE from == Greater(s, FirstDay(m))
           to == Lesser(e, LastDay(m))
<1>1. s \in Int /\ e \in Int
  BY DEF InCalendar
<1>2. m \in Int
  BY ViewsAssumption
<1>3. FirstDay(m) \in Int /\ LastDay(m) \in Int
  BY <1>2, MonthBounds
<1>4. from \in Int /\ to \in Int
  BY <1>1, <1>3 DEF Greater, Lesser
<1>5. \A d \in Int : (from <= d /\ d <= to)
                       <=> (s <= d /\ d <= e /\ FirstDay(m) <= d /\ d <= LastDay(m))
  BY <1>1, <1>3 DEF Greater, Lesser
<1> HIDE DEF from, to
<1>6. ASSUME NEW t \in LiveRows
      PROVE  t \in Rows(from, to, scope) <=> t \in MonthRows(s, e, m, scope)
  <2>1. t \in DOMAIN txn
    BY DEF LiveRows
  <2>2. Date(t) \in Nat \ {0} /\ Date(t) \in Int
    BY <2>1, DateOfRow
  <2>3. FirstDay(m) <= Date(t) /\ Date(t) <= LastDay(m) <=> txn[t].month = m
    BY <1>2, <2>1, <2>2, DateOfRow, MonthIs
  <2>4. t \in Rows(from, to, scope)
          <=> from <= Date(t) /\ Date(t) <= to /\ InScope(t, scope)
    BY <1>4, RowsAre
  <2>5. t \in Rows(s, e, scope) <=> s <= Date(t) /\ Date(t) <= e /\ InScope(t, scope)
    BY <1>1, RowsAre
  <2> QED BY <1>5, <2>2, <2>3, <2>4, <2>5 DEF MonthRows
<1>7. Rows(from, to, scope) \subseteq LiveRows /\ MonthRows(s, e, m, scope) \subseteq LiveRows
  BY <1>1, <1>4, RowsAre DEF MonthRows
<1>8. Rows(from, to, scope) = MonthRows(s, e, m, scope)
  BY <1>6, <1>7
<1> QED BY <1>8 DEF from, to

\* The months of a period.
MonthSpan(s, e) == MonthOf(s)..MonthOf(e)

LEMMA SpanFacts ==
  ASSUME NEW s, NEW e, InCalendar(s, e)
  PROVE  /\ MonthOf(s) \in Month /\ MonthOf(e) \in Month
         /\ MonthSpan(s, e) \in SUBSET Month /\ IsFiniteSet(MonthSpan(s, e))
         /\ MonthsOf(s, e, LastMonthOf) = MonthSpan(s, e)
<1>1. s \in Nat \ {0} /\ e \in Nat \ {0} /\ s <= e /\ e <= LastDay(LastMonthOf)
  BY DEF InCalendar
<1>2. LastMonthOf \in Nat \ {0} /\ Month = 1..LastMonthOf
  BY ViewsAssumption
<1>3. LastDay(LastMonthOf) \in Int
  BY <1>2, MonthBounds
<1>4. MonthOf(s) \in Month /\ MonthOf(e) \in Month
  BY <1>1, <1>3, MonthInCalendar
<1>5. MonthSpan(s, e) \in SUBSET Month
  BY <1>2, <1>4 DEF MonthSpan
<1>6. IsFiniteSet(MonthSpan(s, e))
  BY <1>2, <1>4, FS_Interval DEF MonthSpan
<1>7. MonthsOf(s, e, LastMonthOf) = MonthSpan(s, e)
  BY <1>2, <1>4 DEF MonthsOf, MonthSpan
<1> QED BY <1>4, <1>5, <1>6, <1>7

LEMMA RowInSpan ==
  ASSUME Book, NEW s, NEW e, InCalendar(s, e), NEW scope, NEW t \in Rows(s, e, scope)
  PROVE  txn[t].month \in MonthSpan(s, e)
<1>1. s \in Nat \ {0} /\ e \in Nat \ {0} /\ s <= e
  BY DEF InCalendar
<1>2. t \in LiveRows /\ t \in DOMAIN txn
  BY <1>1, RowsAre
<1>3. s <= Date(t) /\ Date(t) <= e
  BY <1>1, <1>2, RowsAre
<1>4. Date(t) \in Nat \ {0} /\ MonthOf(Date(t)) = txn[t].month /\ txn[t].month \in Int
  BY <1>2, DateOfRow
<1>5. MonthOf(s) <= txn[t].month /\ txn[t].month <= MonthOf(e)
  BY <1>1, <1>3, <1>4, MonthsInOrder
<1>6. MonthOf(s) \in Int /\ MonthOf(e) \in Int
  BY <1>1, MonthHolds
<1> QED BY <1>4, <1>5, <1>6 DEF MonthSpan

(* The months of a period add up to it.                                    *)
LEMMA MonthsListed ==
  ASSUME Book, NEW s, NEW e, InCalendar(s, e), NEW scope
  PROVE  LET S == Rows(s, e, scope)
             K == MonthSpan(s, e)
         IN /\ Income(S) = SumFunction([m \in K |-> Income(MonthRows(s, e, m, scope))])
            /\ Shown(Expenses(S))
                 = SumFunction([m \in K |-> Shown(Expenses(MonthRows(s, e, m, scope)))])
<1> DEFINE S == Rows(s, e, scope)
           K == MonthSpan(s, e)
           key == [t \in DOMAIN txn |-> txn[t].month]
<1>1. S \in SUBSET DOMAIN txn
  BY RowsAre DEF InCalendar
<1>2. \A t \in S : key[t] \in K
  BY <1>1, RowInSpan
<1>3. \A m \in K : {t \in S : key[t] = m} = MonthRows(s, e, m, scope)
  BY <1>1 DEF MonthRows
<1>4. IsFiniteSet(K)
  BY SpanFacts
<1> HIDE DEF S, K, key
<1>5. /\ Income(S) = SumFunction([m \in K |-> Income({t \in S : key[t] = m})])
      /\ Shown(Expenses(S))
           = SumFunction([m \in K |-> Shown(Expenses({t \in S : key[t] = m}))])
  BY <1>1, <1>2, <1>4, ListedByKey
<1>6. [m \in K |-> Income({t \in S : key[t] = m})]
        = [m \in K |-> Income(MonthRows(s, e, m, scope))]
  BY <1>3
<1>7. [m \in K |-> Shown(Expenses({t \in S : key[t] = m}))]
        = [m \in K |-> Shown(Expenses(MonthRows(s, e, m, scope)))]
  BY <1>3
<1>8. /\ Income(S) = SumFunction([m \in K |-> Income(MonthRows(s, e, m, scope))])
      /\ Shown(Expenses(S))
           = SumFunction([m \in K |-> Shown(Expenses(MonthRows(s, e, m, scope)))])
  BY <1>5, <1>6, <1>7
<1> QED BY <1>8 DEF S, K

LEMMA SeriesListed ==
  ASSUME Book, NEW s, NEW e, InCalendar(s, e), NEW scope,
         NEW f, DOMAIN f = MonthSpan(s, e),
         \A m \in MonthSpan(s, e) : f[m] = Listed(MonthRows(s, e, m, scope))
  PROVE  TotalFigures(f) = Listed(Rows(s, e, scope))
<1> DEFINE K == MonthSpan(s, e)
<1>1. [m \in DOMAIN f |-> f[m].income] = [m \in K |-> Income(MonthRows(s, e, m, scope))]
  BY DEF Listed
<1>2. [m \in DOMAIN f |-> f[m].expenses]
        = [m \in K |-> Shown(Expenses(MonthRows(s, e, m, scope)))]
  BY DEF Listed
<1> HIDE DEF K
<1>3. /\ SumFunction([m \in DOMAIN f |-> f[m].income]) = Income(Rows(s, e, scope))
      /\ SumFunction([m \in DOMAIN f |-> f[m].expenses]) = Shown(Expenses(Rows(s, e, scope)))
  BY <1>1, <1>2, MonthsListed DEF K
<1> QED BY <1>3 DEF TotalFigures, Listed

(* A point of a sparkline is what the list shows of its month.             *)
LEMMA SparkIsMonth ==
  ASSUME Book, NEW s, NEW e, InCalendar(s, e), NEW scope, NEW m \in MonthSpan(s, e)
  PROVE  SparkFigures(s, e, scope, LastMonthOf)[m] = Listed(MonthRows(s, e, m, scope))
<1> DEFINE from == Greater(s, FirstDay(m))
           to == Lesser(e, LastDay(m))
           Part == MonthRows(s, e, m, scope)
<1>1. m \in Month /\ m \in MonthsOf(s, e, LastMonthOf)
  BY SpanFacts
<1>2. SparkFigures(s, e, scope, LastMonthOf)[m]
        = IF /\ scope = Whole
             /\ from = FirstDay(m) /\ to = LastDay(m)
             /\ rollup[m].income # 0 \/ rollup[m].expense # 0
          THEN FromRollups({m}) ELSE Figures(Rows(from, to, scope))
  BY <1>1 DEF SparkFigures, IncomeExpenseBetween
<1>3. Rows(from, to, scope) = Part
  BY <1>1, PartOfMonth
<1>4. Part \in SUBSET DOMAIN txn
  BY RowsAre DEF MonthRows, InCalendar
<1> HIDE DEF from, to, Part
<1>5. Figures(Rows(from, to, scope)) = Listed(Part)
  BY <1>3, <1>4, FiguresListed
<1>6. CASE scope = Whole /\ from = FirstDay(m) /\ to = LastDay(m)
  <2>1. FromRollups({m}) = Listed(RowsOfMonths({m}))
    BY <1>1, FS_Singleton, RollupsListed
  <2>2. RowsOfMonths({m}) = Part
    BY <1>1, <1>3, <1>6, RowsOfMonth
  <2> QED BY <1>2, <1>5, <2>1, <2>2 DEF Part
<1>7. CASE ~(scope = Whole /\ from = FirstDay(m) /\ to = LastDay(m))
  BY <1>2, <1>5, <1>7 DEF Part
<1> QED BY <1>6, <1>7

LEMMA SparkListed ==
  ASSUME Book, NEW s, NEW e, InCalendar(s, e), NEW scope
  PROVE  TotalFigures(SparkFigures(s, e, scope, LastMonthOf)) = Listed(Rows(s, e, scope))
<1>1. DOMAIN SparkFigures(s, e, scope, LastMonthOf) = MonthSpan(s, e)
  BY SpanFacts DEF SparkFigures
<1>2. \A m \in MonthSpan(s, e) :
        SparkFigures(s, e, scope, LastMonthOf)[m] = Listed(MonthRows(s, e, m, scope))
  BY SparkIsMonth
<1> QED BY <1>1, <1>2, SeriesListed

(* What has a tag and what does not make the whole.                        *)
LEMMA TagSplits ==
  ASSUME Book, NEW s \in Int, NEW e \in Int, NEW g
  PROVE  Listed(Rows(s, e, Whole))
           = Plus(Listed(Rows(s, e, [included |-> {g}, excluded |-> {}])),
                  Listed(Rows(s, e, [included |-> {}, excluded |-> {g}])))
<1> DEFINE S == Rows(s, e, Whole)
           A == Rows(s, e, [included |-> {g}, excluded |-> {}])
           B == Rows(s, e, [included |-> {}, excluded |-> {g}])
<1>1. S \in SUBSET DOMAIN txn
  BY RowsAre
<1>2. /\ S = RowsBetween(s, e)
      /\ A = {t \in RowsBetween(s, e) : g \in TagsOf[t]}
      /\ B = {t \in RowsBetween(s, e) : g \notin TagsOf[t]}
  <2>1. \A t : /\ InScope(t, Whole)
               /\ InScope(t, [included |-> {g}, excluded |-> {}]) <=> g \in TagsOf[t]
               /\ InScope(t, [included |-> {}, excluded |-> {g}]) <=> g \notin TagsOf[t]
    BY DEF InScope, Whole
  <2> QED BY <2>1 DEF Rows
<1>3. A \in SUBSET S /\ B \in SUBSET S /\ \A t \in S : t \in A <=> t \notin B
  BY <1>2
<1> HIDE DEF S, A, B
<1>4. Listed(S) = Plus(Listed(A), Listed(B))
  BY <1>1, <1>3, ListedSplit
<1> QED BY <1>4 DEF S, A, B

LEMMA KpisOfBook == Book => KpisAddUp
<1> SUFFICES ASSUME Book, NEW p \in Period
             PROVE  /\ \A scope \in Scopes :
                         LET listed == Listed(Rows(p[1], p[2], scope))
                         IN /\ KpiFigures(p[1], p[2], scope) = listed
                            /\ SummaryForPeriod(p[1], p[2], scope) = listed
                            /\ TotalFigures(SparkFigures(p[1], p[2], scope, LastMonthOf))
                                 = listed
                    /\ \A g \in Tag :
                         Plus(KpiFigures(p[1], p[2], [included |-> {g}, excluded |-> {}]),
                              KpiFigures(p[1], p[2], [included |-> {}, excluded |-> {g}]))
                           = KpiFigures(p[1], p[2], Whole)
  BY DEF KpisAddUp
<1>1. InCalendar(p[1], p[2])
  BY PeriodFacts
<1>2. p[1] \in Int /\ p[2] \in Int
  BY <1>1 DEF InCalendar
<1>3. \A scope : KpiFigures(p[1], p[2], scope) = Listed(Rows(p[1], p[2], scope))
  BY <1>1, KpisListed
<1>4. ASSUME NEW scope
      PROVE  SummaryForPeriod(p[1], p[2], scope) = Listed(Rows(p[1], p[2], scope))
  <2>1. Rows(p[1], p[2], scope) \in SUBSET DOMAIN txn
    BY <1>2, RowsAre
  <2> QED BY <2>1, FiguresListed DEF SummaryForPeriod
<1>5. \A scope : TotalFigures(SparkFigures(p[1], p[2], scope, LastMonthOf))
                   = Listed(Rows(p[1], p[2], scope))
  BY <1>1, SparkListed
<1>6. \A g : Listed(Rows(p[1], p[2], Whole))
               = Plus(Listed(Rows(p[1], p[2], [included |-> {g}, excluded |-> {}])),
                      Listed(Rows(p[1], p[2], [included |-> {}, excluded |-> {g}])))
  BY <1>2, TagSplits
<1> QED BY <1>3, <1>4, <1>5, <1>6

-----------------------------------------------------------------------------
(* The two reimbursement dialogs.                                          *)

LEMMA PartOfAllocations ==
  ASSUME Book, NEW S \in SUBSET DOMAIN alloc
  PROVE  IsFiniteSet(S) /\ [p \in S |-> alloc[p]] \in [S -> Nat]
<1>1. IsFiniteSet(S)
  BY BookFacts, AllocFinite, FS_Subset
<1> QED BY <1>1, BookFacts DEF AllocTable

(* What a pair has is what its side has without the others.                *)
LEMMA PairInTotal ==
  ASSUME Book, NEW r, NEW e, NEW S \in SUBSET DOMAIN alloc,
         <<r, e>> \in DOMAIN alloc => <<r, e>> \in S
  PROVE  /\ TotalAllocated(alloc, S)
              = AllocatedTo(r, e) + TotalAllocated(alloc, S \ {<<r, e>>})
         /\ TotalAllocated(alloc, S) \in Nat
         /\ AllocatedTo(r, e) \in Nat
<1> DEFINE f == [p \in S |-> alloc[p]]
           R == S \ {<<r, e>>}
           g == [p \in R |-> alloc[p]]
<1>1. IsFiniteSet(S) /\ f \in [S -> Nat] /\ f \in [S -> Int]
  BY PartOfAllocations
<1>2. DOMAIN g = R /\ \A p \in R : g[p] = f[p]
  OBVIOUS
<1>3. S \in SUBSET S /\ DOMAIN f = S /\ R = S \ {<<r, e>>} /\ R \in SUBSET S
  OBVIOUS
<1>4. TotalAllocated(alloc, S) = SumFunction(f) /\ TotalAllocated(alloc, R) = SumFunction(g)
  BY DEF TotalAllocated, Restrict
<1>5. <<r, e>> \in S => f[<<r, e>>] = alloc[<<r, e>>] /\ alloc[<<r, e>>] \in Nat
  BY <1>1
<1> HIDE DEF f, g, R
<1>6. SumFunction(f) \in Nat /\ SumFunction(g) \in Nat
  BY <1>1, <1>2, <1>3, SumOfPart
<1>7. CASE <<r, e>> \in S
  <2>1. AllocatedTo(r, e) = f[<<r, e>>] /\ AllocatedTo(r, e) \in Nat
    BY <1>5, <1>7 DEF AllocatedTo
  <2>2. SumFunction(f) = f[<<r, e>>] + SumFunction(g)
    BY <1>1, <1>2, <1>3, <1>7, SumWithout
  <2> QED BY <1>4, <1>6, <2>1, <2>2 DEF R
<1>8. CASE <<r, e>> \notin S
  <2>1. AllocatedTo(r, e) = 0
    BY <1>8 DEF AllocatedTo
  <2>2. S \ {<<r, e>>} = S
    BY <1>8
  <2> QED BY <1>4, <1>6, <2>1, <2>2
<1> QED BY <1>7, <1>8

LEMMA SuggestionOfBook == Book => SuggestionIsTheMost
<1> SUFFICES ASSUME Book, NEW r \in DOMAIN txn, NEW e \in DOMAIN txn
      PROVE  LET listed == ExpensesForReimbursement(r)
                 offered == ReimbursementsForExpense(e)
                 Takes(row, cents) == CanAllocate(txn, alloc, r, e, row.already + cents)
             IN /\ e \in DOMAIN listed /\ r \in DOMAIN offered => listed[e] = offered[r]
                /\ e \in DOMAIN listed =>
                     /\ ~Takes(listed[e], listed[e].suggested + 1)
                     /\ \/ Takes(listed[e], listed[e].suggested)
                        \/ LeftToAllocate(r) = 0
                        \/ \E p \in AllocationsInto(alloc, e) : ~IsLive(txn, p[1])
  BY DEF SuggestionIsTheMost
<1> DEFINE row == [already |-> AllocatedTo(r, e),
                   suggested |-> Lesser(LeftToAllocate(r), Unreimbursed(e))]
           Takes(cents) == CanAllocate(txn, alloc, r, e, AllocatedTo(r, e) + cents)
           Trashed == \E p \in AllocationsInto(alloc, e) : ~IsLive(txn, p[1])
<1>1. e \in DOMAIN ExpensesForReimbursement(r) =>
        /\ ExpensesForReimbursement(r)[e] = row
        /\ IsLive(txn, r) /\ IsReimbursement(txn, r) /\ IsLive(txn, e) /\ IsExpense(txn, e)
  BY DEF ExpensesForReimbursement
<1>2. r \in DOMAIN ReimbursementsForExpense(e) => ReimbursementsForExpense(e)[r] = row
  BY DEF ReimbursementsForExpense
<1>3. ASSUME IsLive(txn, r), IsReimbursement(txn, r), IsLive(txn, e), IsExpense(txn, e)
      PROVE  /\ ~Takes(row.suggested + 1)
             /\ Takes(row.suggested) \/ LeftToAllocate(r) = 0 \/ Trashed
  <2> DEFINE From == {p \in AllocationsFrom(alloc, r) :
                        IsLive(txn, p[2]) /\ IsExpense(txn, p[2])}
             Into == AllocationsInto(alloc, e)
             Live == {p \in Into : IsLive(txn, p[1]) /\ IsReimbursement(txn, p[1])}
  <2>1. /\ From \in SUBSET DOMAIN alloc /\ Into \in SUBSET DOMAIN alloc
        /\ Live \in SUBSET Into
        /\ <<r, e>> \in DOMAIN alloc => <<r, e>> \in From /\ <<r, e>> \in Into
    BY <1>3 DEF AllocationsFrom, AllocationsInto
  <2>2. \A p \in DOMAIN alloc : p = <<p[1], p[2]>>
    BY BookFacts DEF AllocTable
  <2>3. AllocatedOther(txn, alloc, r, e) = TotalAllocated(alloc, From \ {<<r, e>>})
    <3>1. {p \in AllocationsFrom(alloc, r) : p[2] # e /\ IsLive(txn, p[2])}
            = From \ {<<r, e>>}
      BY <2>2, BookFacts DEF AllocationsFrom
    <3> QED BY <3>1 DEF AllocatedOther
  <2>4. ReimbursedOther(alloc, r, e) = TotalAllocated(alloc, Into \ {<<r, e>>})
    <3>1. {p \in AllocationsInto(alloc, e) : p[1] # r} = Into \ {<<r, e>>}
      BY <2>2 DEF AllocationsInto
    <3> QED BY <3>1 DEF ReimbursedOther
  <2>5. /\ LeftToAllocate(r) = AtLeastZero(txn[r].amount - TotalAllocated(alloc, From))
        /\ Unreimbursed(e) = AtLeastZero(txn[e].amount - TotalAllocated(alloc, Live))
    BY DEF LeftToAllocate, Unreimbursed
  <2>6. TotalAllocated(alloc, Into) <= txn[e].amount
    BY <1>3 DEF Book, ExpenseNotOverReimbursed
  <2>7. txn[r].amount \in Nat /\ txn[e].amount \in Nat
    BY BookFacts
  <2>8. ~Trashed => Live = Into
    <3>1. \A p \in Into : IsReimbursement(txn, p[1])
      BY BookFacts DEF AllocationsInto
    <3> QED BY <3>1
  <2>9. /\ TotalAllocated(alloc, Live) \in Nat
        /\ TotalAllocated(alloc, Live) <= TotalAllocated(alloc, Into)
    <3> DEFINE f == [p \in Into |-> alloc[p]]
               g == [p \in Live |-> alloc[p]]
    <3>1. IsFiniteSet(Into) /\ f \in [Into -> Nat]
      BY <2>1, PartOfAllocations
    <3>2. DOMAIN g = Live /\ \A p \in Live : g[p] = f[p]
      BY <2>1
    <3>3. /\ TotalAllocated(alloc, Live) = SumFunction(g)
          /\ TotalAllocated(alloc, Into) = SumFunction(f)
      BY DEF TotalAllocated, Restrict
    <3> HIDE DEF f, g, Live, Into
    <3> QED BY <2>1, <3>1, <3>2, <3>3, SumOfPart
  <2> HIDE DEF From, Into, Live, Trashed
  <2>10. /\ TotalAllocated(alloc, From)
              = AllocatedTo(r, e) + TotalAllocated(alloc, From \ {<<r, e>>})
         /\ TotalAllocated(alloc, From) \in Nat /\ AllocatedTo(r, e) \in Nat
    BY <2>1, PairInTotal
  <2>11. /\ TotalAllocated(alloc, Into)
              = AllocatedTo(r, e) + TotalAllocated(alloc, Into \ {<<r, e>>})
         /\ TotalAllocated(alloc, Into) \in Nat
    BY <2>1, PairInTotal
  <2>12. PICK had, fromAll, intoAll, intoLive :
           /\ had = AllocatedTo(r, e)
           /\ fromAll = TotalAllocated(alloc, From)
           /\ intoAll = TotalAllocated(alloc, Into)
           /\ intoLive = TotalAllocated(alloc, Live)
    OBVIOUS
  <2>13. PICK fromRest, intoRest :
           /\ fromRest = AllocatedOther(txn, alloc, r, e)
           /\ intoRest = ReimbursedOther(alloc, r, e)
    OBVIOUS
  <2>14. /\ had \in Nat /\ fromAll \in Nat /\ intoAll \in Nat /\ intoLive \in Nat
         /\ intoLive <= intoAll /\ intoAll <= txn[e].amount
         /\ ~Trashed => intoLive = intoAll
    BY <2>6, <2>8, <2>9, <2>10, <2>11, <2>12
  <2>15. fromAll = had + TotalAllocated(alloc, From \ {<<r, e>>})
         /\ intoAll = had + TotalAllocated(alloc, Into \ {<<r, e>>})
    BY <2>10, <2>11, <2>12
  <2>16. fromAll = had + fromRest /\ intoAll = had + intoRest
    BY <2>3, <2>4, <2>13, <2>15
  <2>17. TotalAllocated(alloc, From \ {<<r, e>>}) \in Nat
         /\ TotalAllocated(alloc, Into \ {<<r, e>>}) \in Nat
    <3>1. /\ From \ {<<r, e>>} \in SUBSET DOMAIN alloc /\ Into \ {<<r, e>>} \in SUBSET DOMAIN alloc
      BY <2>1
    <3>2. \A S \in SUBSET DOMAIN alloc : TotalAllocated(alloc, S) \in Nat
      <4> SUFFICES ASSUME NEW S \in SUBSET DOMAIN alloc PROVE TotalAllocated(alloc, S) \in Nat
        OBVIOUS
      <4> DEFINE f == [p \in S |-> alloc[p]]
      <4>1. IsFiniteSet(S) /\ f \in [S -> Nat]
        BY PartOfAllocations
      <4>2. DOMAIN f = S /\ S \in SUBSET S
        OBVIOUS
      <4>3. TotalAllocated(alloc, S) = SumFunction(f)
        BY DEF TotalAllocated, Restrict
      <4> HIDE DEF f
      <4> QED BY <4>1, <4>2, <4>3, SumOfPart
    <3> QED BY <3>1, <3>2
  <2>18. fromRest \in Nat /\ intoRest \in Nat
    BY <2>3, <2>4, <2>13, <2>17
  <2>19. PICK left, rest, n : /\ left = LeftToAllocate(r) /\ rest = Unreimbursed(e)
                              /\ n = row.suggested
    OBVIOUS
  <2>20. /\ left = AtLeastZero(txn[r].amount - fromAll)
         /\ rest = AtLeastZero(txn[e].amount - intoLive)
         /\ n = Lesser(left, rest)
    BY <2>5, <2>12, <2>19
  <2>21. \A c : Takes(c) <=> /\ fromRest + (had + c) <= txn[r].amount
                             /\ intoRest + (had + c) <= txn[e].amount
    BY <1>3, <2>12, <2>13 DEF CanAllocate
  <2>22. ~(/\ fromRest + (had + (n + 1)) <= txn[r].amount
           /\ intoRest + (had + (n + 1)) <= txn[e].amount)
    BY <2>7, <2>14, <2>16, <2>18, <2>20 DEF AtLeastZero, Lesser
  <2>23. left = 0 \/ Trashed \/ (/\ fromRest + (had + n) <= txn[r].amount
                                 /\ intoRest + (had + n) <= txn[e].amount)
    BY <2>7, <2>14, <2>16, <2>18, <2>20 DEF AtLeastZero, Lesser
  <2> HIDE DEF Takes
  <2> QED BY <2>19, <2>21, <2>22, <2>23
<1> HIDE DEF Trashed
<1>4. row.already = AllocatedTo(r, e)
  OBVIOUS
<1> QED BY <1>1, <1>2, <1>3, <1>4 DEF Trashed

-----------------------------------------------------------------------------
(* The charts: groups of rows, and what the groups show together.          *)

\* There are no more keys than rows.
LEMMA ImageFinite ==
  ASSUME NEW S, IsFiniteSet(S), NEW key
  PROVE  IsFiniteSet({key[t] : t \in S})
<1> DEFINE K == {key[t] : t \in S}
           f == [t \in S |-> key[t]]
<1>1. f \in Surjection(S, K)
  BY DEF Surjection
<1> HIDE DEF K, f
<1>2. IsFiniteSet(K)
  BY <1>1, FS_Surjection
<1> QED BY <1>2 DEF K

\* GROUP BY a key, each group with its net expenses.
Groups(S, key) == [k \in {key[t] : t \in S} |-> Net({t \in S : key[t] = k})]

LEMMA GroupsShown ==
  ASSUME Book, NEW S \in SUBSET DOMAIN txn, \A t \in S : IsExpense(txn, t), NEW key
  PROVE  /\ \A k \in DOMAIN Groups(S, key) : Groups(S, key)[k] \in Nat
         /\ Total(Groups(S, key)) = Shown(S)
         /\ Total(Positive(Groups(S, key))) = Shown(S)
<1> DEFINE K == {key[t] : t \in S}
           Part(k) == {t \in S : key[t] = k}
           g == Groups(S, key)
<1>1. IsFiniteSet(K)
  <2>1. IsFiniteSet(S)
    BY BookFacts, FS_Subset
  <2> QED BY <2>1, ImageFinite
<1>2. \A t \in S : key[t] \in K
  OBVIOUS
<1>3. DOMAIN g = K /\ \A k \in K : g[k] = Net(Part(k))
  BY DEF Groups
<1>4. ASSUME NEW k \in K
      PROVE  Net(Part(k)) = Shown(Expenses(Part(k))) /\ Net(Part(k)) \in Nat
  <2>1. Part(k) \in SUBSET DOMAIN txn /\ \A t \in Part(k) : IsExpense(txn, t)
    OBVIOUS
  <2>2. Expenses(Part(k)) = Part(k)
    BY <2>1 DEF Expenses
  <2> HIDE DEF Part
  <2> QED BY <2>1, <2>2, NetIsShown
<1>5. Expenses(S) = S
  BY DEF Expenses
<1>6. \A k \in K : g[k] \in Nat
  <2> HIDE DEF g, K, Part
  <2> QED BY <1>3, <1>4
<1>66. g = [k \in K |-> g[k]] /\ g \in [K -> Nat] /\ g \in [K -> Int]
  <2>1. g = [k \in K |-> g[k]]
    BY DEF Groups
  <2> HIDE DEF g, K
  <2>2. g \in [K -> Nat]
    BY <1>6, <2>1
  <2>3. \A k \in K : g[k] \in Int
    BY <1>6
  <2>4. g \in [K -> Int]
    BY <2>1, <2>3
  <2> QED BY <2>1, <2>2, <2>4
<1> DEFINE h == [k \in K |-> Shown(Expenses({t \in S : key[t] = k}))]
<1>7. Shown(Expenses(S)) = SumFunction(h)
  <2>1. /\ Income(S) = SumFunction([k \in K |-> Income({t \in S : key[t] = k})])
        /\ Shown(Expenses(S))
             = SumFunction([k \in K |-> Shown(Expenses({t \in S : key[t] = k}))])
    <3> HIDE DEF K, Part, g, h
    <3> QED BY <1>1, <1>2, ListedByKey
  <2> QED BY <2>1
<1>8. g = h
  <2>1. DOMAIN h = K /\ \A k \in K : h[k] = Shown(Expenses(Part(k)))
    <3> HIDE DEF K
    <3> QED OBVIOUS
  <2>2. h = [k \in K |-> h[k]]
    <3> HIDE DEF K
    <3> QED OBVIOUS
  <2> HIDE DEF g, h, K, Part
  <2> QED BY <1>3, <1>4, <1>66, <2>1, <2>2
<1> HIDE DEF g, h, K, Part
<1>9. SumFunction(g) = Shown(S)
  BY <1>5, <1>7, <1>8
<1>10. SumFunction(Positive(g)) = SumFunction(g)
  <2> DEFINE R == {k \in K : g[k] > 0}
             pos == Positive(g)
  <2>1. R \in SUBSET K /\ DOMAIN pos = R /\ \A k \in R : pos[k] = g[k]
    BY <1>3 DEF Positive, Restrict
  <2>2. \A k \in K \ R : g[k] = 0
    BY <1>6
  <2> HIDE DEF R, pos
  <2>3. SumFunction(pos) = SumFunction(g)
    BY <1>1, <1>66, <2>1, <2>2, SumOfRest
  <2> QED BY <2>3 DEF pos
<1>11. \A k \in DOMAIN g : g[k] \in Nat
  BY <1>3, <1>6
<1> QED BY <1>9, <1>10, <1>11 DEF Total, g

LEMMA IncomeGroups ==
  ASSUME Book, NEW S \in SUBSET DOMAIN txn, NEW key
  PROVE  Total([k \in {key[t] : t \in S} |-> Income({t \in S : key[t] = k})]) = Income(S)
<1> DEFINE K == {key[t] : t \in S}
<1>1. IsFiniteSet(K) /\ \A t \in S : key[t] \in K
  <2>1. IsFiniteSet(S)
    BY BookFacts, FS_Subset
  <2> QED BY <2>1, ImageFinite
<1> HIDE DEF K
<1> DEFINE h == [k \in K |-> Income({t \in S : key[t] = k})]
<1>2. /\ Income(S) = SumFunction([k \in K |-> Income({t \in S : key[t] = k})])
      /\ Shown(Expenses(S))
           = SumFunction([k \in K |-> Shown(Expenses({t \in S : key[t] = k}))])
  <2> HIDE DEF h
  <2> QED BY <1>1, ListedByKey
<1> HIDE DEF h
<1>3. Total(h) = Income(S)
  BY <1>2 DEF Total, h
<1> QED BY <1>3 DEF h, K

CategoryKey == [t \in DOMAIN txn |-> CategoryOfRow(t)]

LEMMA CategoryGroups ==
  ASSUME NEW S \in SUBSET DOMAIN txn
  PROVE  /\ ByCategory(S, Net) = Groups(S, CategoryKey)
         /\ ByCategory(S, Income)
              = [k \in {CategoryKey[t] : t \in S} |-> Income({t \in S : CategoryKey[t] = k})]
<1>1. {CategoryOfRow(t) : t \in S} = {CategoryKey[t] : t \in S}
  BY DEF CategoryKey
<1>2. \A k : {t \in S : CategoryOfRow(t) = k} = {t \in S : CategoryKey[t] = k}
  BY DEF CategoryKey
<1>3. ByCategory(S, Net) = Groups(S, CategoryKey)
  BY <1>1, <1>2 DEF ByCategory, Grouped, Groups
<1>4. ByCategory(S, Income)
        = [k \in {CategoryKey[t] : t \in S} |-> Income({t \in S : CategoryKey[t] = k})]
  BY <1>1, <1>2 DEF ByCategory, Grouped
<1> QED BY <1>3, <1>4

LEMMA DayGroups ==
  ASSUME NEW S \in SUBSET DOMAIN txn
  PROVE  Grouped(S, Date, Net) = Groups(S, [t \in DOMAIN txn |-> Date(t)])
<1> DEFINE key == [t \in DOMAIN txn |-> Date(t)]
<1>1. {Date(t) : t \in S} = {key[t] : t \in S}
  OBVIOUS
<1>2. \A k : {t \in S : Date(t) = k} = {t \in S : key[t] = k}
  OBVIOUS
<1> QED BY <1>1, <1>2 DEF Grouped, Groups

LEMMA ExpensesOf ==
  ASSUME NEW S \in SUBSET DOMAIN txn
  PROVE  /\ Expenses(S) \in SUBSET DOMAIN txn /\ Expenses(S) \in SUBSET S
         /\ \A t \in Expenses(S) : IsExpense(txn, t)
         /\ Expenses(Expenses(S)) = Expenses(S)
         /\ Incomes(S) \in SUBSET DOMAIN txn /\ Incomes(Incomes(S)) = Incomes(S)
BY DEF Expenses, Incomes

(* The categories of the breakdown and the days of a trend.                *)
LEMMA BreakdownAddsUp ==
  ASSUME Book, NEW s \in Int, NEW e \in Int
  PROVE  LET S == Rows(s, e, Whole)
             ring == CategoryBreakdown(s, e, "expense", {}, Whole, NoLimit)
             top == CategoryBreakdown(s, e, "expense", {}, Whole, BreakdownLimit)
             incomes == CategoryBreakdown(s, e, "income", {}, Whole, BreakdownLimit)
         IN /\ Total(ring.shown) = Shown(Expenses(S)) /\ top.of = Shown(Expenses(S))
            /\ Total(incomes.shown) = Income(S) /\ incomes.of = Income(S)
<1> DEFINE S == Rows(s, e, Whole)
<1>1. S \in SUBSET DOMAIN txn
  BY RowsAre
<1>2. {t \in S : {} = {} \/ CategoryOfRow(t) \in {}} = S
  OBVIOUS
<1> HIDE DEF S
<1>3. LET all == Positive(ByCategory(Expenses(S), Net))
      IN /\ CategoryBreakdown(s, e, "expense", {}, Whole, NoLimit).shown = all
         /\ CategoryBreakdown(s, e, "expense", {}, Whole, BreakdownLimit).of = Total(all)
  BY <1>2 DEF CategoryBreakdown, S
<1>4. LET all == ByCategory(Incomes(S), Income)
          answer == CategoryBreakdown(s, e, "income", {}, Whole, BreakdownLimit)
      IN answer.shown = all /\ answer.of = Total(all)
  BY <1>2 DEF CategoryBreakdown, S
<1>5. Total(Positive(Groups(Expenses(S), CategoryKey))) = Shown(Expenses(S))
  BY <1>1, ExpensesOf, GroupsShown
<1>6. ByCategory(Expenses(S), Net) = Groups(Expenses(S), CategoryKey)
  BY <1>1, ExpensesOf, CategoryGroups
<1>7. Total(ByCategory(Incomes(S), Income)) = Income(Incomes(S))
  <2> DEFINE R == Incomes(S)
  <2>1. R \in SUBSET DOMAIN txn
    BY <1>1, ExpensesOf
  <2> HIDE DEF R
  <2>2. Total([k \in {CategoryKey[t] : t \in R} |-> Income({t \in R : CategoryKey[t] = k})])
          = Income(R)
    BY <2>1, IncomeGroups
  <2>3. ByCategory(R, Income)
          = [k \in {CategoryKey[t] : t \in R} |-> Income({t \in R : CategoryKey[t] = k})]
    BY <2>1, CategoryGroups
  <2> QED BY <2>2, <2>3 DEF R
<1>8. Income(Incomes(S)) = Income(S)
  BY <1>1, ExpensesOf DEF Income
<1> QED BY <1>3, <1>4, <1>5, <1>6, <1>7, <1>8 DEF S

LEMMA TrendAddsUp ==
  ASSUME Book, NEW s \in Int, NEW e \in Int
  PROVE  Total(ReportTrend([start |-> s, end |-> e, kind |-> "any", cats |-> {},
                            scope |-> Whole])) = Shown(Expenses(Rows(s, e, Whole)))
<1> DEFINE o == [start |-> s, end |-> e, kind |-> "any", cats |-> {}, scope |-> Whole]
           S == Rows(s, e, Whole)
           key == [t \in DOMAIN txn |-> Date(t)]
<1>1. S \in SUBSET DOMAIN txn
  BY RowsAre
<1>2. OfReport([o EXCEPT !.kind = "any"], RowsBetween(s, e)) = S
  <2>1. [o EXCEPT !.kind = "any"] = o
    OBVIOUS
  <2>3. \A t \in RowsBetween(s, e) : txn[t].type \in TransactionType
    BY DEF Book, Structure, TypeOK, TransactionRow, RowsBetween
  <2>4. OfReport(o, RowsBetween(s, e)) = S
    BY <2>3, AllInWhole DEF OfReport, ReportKind, Rows
  <2> QED BY <2>1, <2>4
<1>3. ReportTrend(o) = Grouped(Expenses(S), Date, Net)
  <2>1. o.kind = "any" /\ o.start = s /\ o.end = e
    OBVIOUS
  <2> HIDE DEF o, S
  <2> QED BY <1>2, <2>1 DEF ReportTrend
<1>4. Grouped(Expenses(S), Date, Net) = Groups(Expenses(S), key)
  <2> HIDE DEF S
  <2> QED BY <1>1, ExpensesOf, DayGroups
<1>5. Total(Groups(Expenses(S), key)) = Shown(Expenses(S))
  <2> HIDE DEF S, key
  <2> QED BY <1>1, ExpensesOf, GroupsShown
<1> QED BY <1>3, <1>4, <1>5

(* The month a period begins in, from its first day on.                    *)
LEMMA FromFirstDay ==
  ASSUME NEW s, NEW e, InCalendar(s, e)
  PROVE  LET first == FirstDay(MonthOf(s))
         IN InCalendar(first, e) /\ MonthOf(first) = MonthOf(s)
<1> DEFINE m == MonthOf(s)
           first == FirstDay(m)
<1>1. s \in Nat \ {0} /\ e \in Nat \ {0} /\ s <= e /\ e <= LastDay(LastMonthOf)
  BY DEF InCalendar
<1>2. m \in Nat \ {0} /\ first <= s /\ s <= LastDay(m)
  BY <1>1, MonthHolds
<1>3. MonthLength \in Nat \ {0}
  BY ViewsAssumption
<1> HIDE DEF m
<1>4. first \in Nat \ {0} /\ first <= LastDay(m)
  <2>1. (m - 1) * MonthLength \in Nat
    BY <1>2, <1>3
  <2>2. first <= LastDay(m)
    BY <1>2, MonthBounds
  <2> QED BY <2>1, <2>2 DEF FirstDay
<1>5. MonthOf(first) = m
  BY <1>2, <1>4, MonthIs
<1>6. LastDay(LastMonthOf) \in Int
  BY ViewsAssumption, MonthBounds
<1>7. InCalendar(first, e)
  BY <1>1, <1>2, <1>4, <1>6 DEF InCalendar
<1> QED BY <1>5, <1>7 DEF m

LEMMA RowsFromFirstDay ==
  ASSUME Book, NEW s, NEW e, InCalendar(s, e), NEW scope, NEW m \in MonthSpan(s, e)
  PROVE  Rows(FirstDay(m), Lesser(e, LastDay(m)), scope)
           = MonthRows(FirstDay(MonthOf(s)), e, m, scope)
<1> DEFINE first == FirstDay(MonthOf(s))
<1>1. InCalendar(first, e)
  BY FromFirstDay
<1>2. m \in Month /\ MonthOf(s) \in Month /\ MonthOf(e) \in Month
  BY SpanFacts
<1>3. m \in Nat \ {0} /\ MonthOf(s) \in Nat \ {0} /\ MonthOf(s) <= m
  BY <1>2, ViewsAssumption DEF MonthSpan
<1>4. first <= FirstDay(m) /\ first \in Int /\ FirstDay(m) \in Int
  <2>1. first \in Int /\ FirstDay(m) \in Int
    BY <1>3, MonthBounds
  <2>2. CASE MonthOf(s) = m
    BY <2>1, <2>2
  <2>3. CASE MonthOf(s) < m
    <3>1. LastDay(MonthOf(s)) < FirstDay(m)
      BY <1>3, <2>3, MonthsApart
    <3>2. first <= LastDay(MonthOf(s)) /\ LastDay(MonthOf(s)) \in Int
      BY <1>3, MonthBounds
    <3> QED BY <2>1, <3>1, <3>2
  <2> QED BY <1>3, <2>2, <2>3
<1>5. Greater(first, FirstDay(m)) = FirstDay(m)
  BY <1>4 DEF Greater
<1> HIDE DEF first
<1>6. Rows(Greater(first, FirstDay(m)), Lesser(e, LastDay(m)), scope)
        = MonthRows(first, e, m, scope)
  BY <1>1, <1>2, PartOfMonth
<1> QED BY <1>5, <1>6 DEF first

LEMMA SpanFromFirstDay ==
  ASSUME NEW s, NEW e, InCalendar(s, e)
  PROVE  /\ MonthSpan(FirstDay(MonthOf(s)), e) = MonthSpan(s, e)
         /\ MonthsOf(s, e, LastMonthOf) = MonthSpan(s, e)
         /\ MonthsOf(1, e, MonthOf(e) - MonthOf(s) + 1) = MonthSpan(s, e)
<1>1. MonthSpan(FirstDay(MonthOf(s)), e) = MonthSpan(s, e)
  BY FromFirstDay DEF MonthSpan
<1>2. MonthsOf(s, e, LastMonthOf) = MonthSpan(s, e)
  BY SpanFacts
<1>3. s \in Nat \ {0} /\ e \in Nat \ {0} /\ 1 <= s
  BY DEF InCalendar
<1>4. MonthOf(1) \in Int /\ MonthOf(s) \in Int /\ MonthOf(e) \in Int /\ MonthOf(1) <= MonthOf(s)
  BY <1>3, MonthHolds, MonthsInOrder
<1>5. MonthsOf(1, e, MonthOf(e) - MonthOf(s) + 1) = MonthSpan(s, e)
  BY <1>4 DEF MonthsOf, MonthSpan
<1> QED BY <1>1, <1>2, <1>5

(* The months of the series and of the bands add up to the KPIs of the     *)
(* period from the first day of its first month.                           *)
LEMMA SeriesAddsUp ==
  ASSUME Book, NEW s, NEW e, InCalendar(s, e)
  PROVE  TotalFigures(MonthlySeries(s, e, LastMonthOf, Whole, FALSE, e))
           = Listed(Rows(FirstDay(MonthOf(s)), e, Whole))
<1> DEFINE first == FirstDay(MonthOf(s))
           f == MonthlySeries(s, e, LastMonthOf, Whole, FALSE, e)
<1>1. InCalendar(first, e) /\ MonthSpan(first, e) = MonthSpan(s, e)
  BY FromFirstDay, SpanFromFirstDay
<1>2. DOMAIN f = MonthSpan(s, e)
  BY SpanFromFirstDay DEF MonthlySeries
<1>3. ASSUME NEW m \in MonthSpan(s, e)
      PROVE  f[m] = Listed(MonthRows(first, e, m, Whole))
  <2> DEFINE S == Rows(FirstDay(m), Lesser(e, LastDay(m)), Whole)
  <2>1. f[m] = Figures(S)
    BY SpanFromFirstDay DEF MonthlySeries, Figures
  <2>2. S = MonthRows(first, e, m, Whole)
    BY RowsFromFirstDay
  <2>3. S \in SUBSET DOMAIN txn
    BY DEF Rows, RowsBetween
  <2> HIDE DEF S, f, first
  <2> QED BY <2>1, <2>2, <2>3, FiguresListed
<1> HIDE DEF f, first
<1>4. TotalFigures(f) = Listed(Rows(first, e, Whole))
  BY <1>1, <1>2, <1>3, SeriesListed
<1> QED BY <1>4 DEF f, first

LEMMA BandsAddUp ==
  ASSUME Book, NEW s, NEW e, InCalendar(s, e)
  PROVE  LET bands == MonthlyCategoryBands(e, MonthOf(e) - MonthOf(s) + 1, Whole)
         IN SumFunction([m \in DOMAIN bands |-> Total(bands[m].segments)])
              = Shown(Expenses(Rows(FirstDay(MonthOf(s)), e, Whole)))
<1> DEFINE first == FirstDay(MonthOf(s))
           K == MonthSpan(s, e)
           bands == MonthlyCategoryBands(e, MonthOf(e) - MonthOf(s) + 1, Whole)
<1>1. InCalendar(first, e) /\ MonthSpan(first, e) = K
  BY FromFirstDay, SpanFromFirstDay
<1>2. DOMAIN bands = K
  BY SpanFromFirstDay DEF MonthlyCategoryBands
<1>3. ASSUME NEW m \in K
      PROVE  Total(bands[m].segments) = Shown(Expenses(MonthRows(first, e, m, Whole)))
  <2> DEFINE S == Rows(FirstDay(m), Lesser(e, LastDay(m)), Whole)
  <2>1. bands[m].segments = Positive(ByCategory(Expenses(S), Net))
    BY SpanFromFirstDay DEF MonthlyCategoryBands
  <2>2. S = MonthRows(first, e, m, Whole)
    BY RowsFromFirstDay
  <2>3. S \in SUBSET DOMAIN txn
    BY DEF Rows, RowsBetween
  <2> HIDE DEF S, bands, first, K
  <2>4. ByCategory(Expenses(S), Net) = Groups(Expenses(S), CategoryKey)
    BY <2>3, ExpensesOf, CategoryGroups
  <2>5. Total(Positive(Groups(Expenses(S), CategoryKey))) = Shown(Expenses(S))
    BY <2>3, ExpensesOf, GroupsShown
  <2> QED BY <2>1, <2>2, <2>4, <2>5
<1>4. [m \in DOMAIN bands |-> Total(bands[m].segments)]
        = [m \in K |-> Shown(Expenses(MonthRows(first, e, m, Whole)))]
  <2> HIDE DEF bands, K, first
  <2> QED BY <1>2, <1>3
<1>5. /\ Income(Rows(first, e, Whole))
           = SumFunction([m \in MonthSpan(first, e) |-> Income(MonthRows(first, e, m, Whole))])
      /\ Shown(Expenses(Rows(first, e, Whole)))
           = SumFunction([m \in MonthSpan(first, e) |->
                            Shown(Expenses(MonthRows(first, e, m, Whole)))])
  <2> HIDE DEF first
  <2> QED BY <1>1, MonthsListed
<1> HIDE DEF bands, K, first
<1>6. SumFunction([m \in DOMAIN bands |-> Total(bands[m].segments)])
        = Shown(Expenses(Rows(first, e, Whole)))
  BY <1>1, <1>4, <1>5
<1> QED BY <1>6 DEF bands, first

LEMMA WholeRows ==
  ASSUME NEW s, NEW e
  PROVE  Rows(s, e, Whole) = RowsBetween(s, e) /\ RowsBetween(s, e) \in SUBSET DOMAIN txn
BY AllInWhole DEF Rows, RowsBetween

(* Amounts grouped by a key, when no durable is spread.                    *)
LEMMA PlainGroups ==
  ASSUME Book, NEW S \in SUBSET DOMAIN txn, NEW key, NEW other
  PROVE  Total(WithShares(GroupedAmounts(S, key), {}, other)) = Shown(Expenses(S))
<1> DEFINE R == Expenses(S)
           G == Groups(R, key)
<1>1. GroupedAmounts(S, key) = G
  BY DEF GroupedAmounts, Grouped, Groups
<1>2. R \in SUBSET DOMAIN txn /\ \A t \in R : IsExpense(txn, t)
  BY ExpensesOf
<1> HIDE DEF R
<1>3. \A k \in DOMAIN G : G[k] \in Nat
  BY <1>2, GroupsShown
<1>4. Total(G) = Shown(R)
  BY <1>2, GroupsShown
<1>5. G = [k \in DOMAIN G |-> G[k]]
  BY DEF Groups
<1>6. Shares({}) = 0
  <2>1. DOMAIN [p \in {} |-> ShareOn(p[1], p[2])] = {}
    OBVIOUS
  <2>2. SumFunction([p \in {} |-> ShareOn(p[1], p[2])]) = 0
    BY <2>1, SumOfNothing
  <2> QED BY <2>2 DEF Shares
<1> HIDE DEF G
<1>7. WithShares(G, {}, other) = [k \in DOMAIN G |-> G[k]]
  <2>1. {other[p] : p \in {}} = {} /\ \A k : {p \in {} : other[p] = k} = {}
    OBVIOUS
  <2>2. WithShares(G, {}, other)
          = [k \in DOMAIN G |-> (IF k \in DOMAIN G THEN G[k] ELSE 0) + Shares({})]
    BY <2>1 DEF WithShares
  <2>3. ASSUME NEW k \in DOMAIN G
        PROVE  (IF k \in DOMAIN G THEN G[k] ELSE 0) + Shares({}) = G[k]
    BY <1>3, <1>6
  <2> QED BY <2>2, <2>3
<1> QED BY <1>1, <1>4, <1>5, <1>7 DEF R

(* The cells of the grid, the recurring and the other share, and the rows  *)
(* of the day calendar with what the rules have posted.                    *)
LEMMA GridsAddUp ==
  ASSUME Book, NEW s, NEW e
  PROVE  /\ Total(MonthGrid(s, e, FALSE, e)) = Shown(Expenses(RowsBetween(s, e)))
         /\ Total(RecurringSplit(s, e, FALSE, e)) = Shown(Expenses(RowsBetween(s, e)))
         /\ Total(DayCalendar(s, e, FALSE, e)) = Shown(Expenses(RowsBetween(s, e) \ FromRule))
<1>1. /\ GridRows(s, e, FALSE) = RowsBetween(s, e)
      /\ SpreadShares(s, e, FALSE, e) = {}
      /\ {p \in SpreadShares(s, e, FALSE, e) : p[1] \notin FromRule} = {}
  BY DEF GridRows, SpreadShares
<1>2. RowsBetween(s, e) \in SUBSET DOMAIN txn
  BY WholeRows
<1>3. Total(MonthGrid(s, e, FALSE, e)) = Shown(Expenses(RowsBetween(s, e)))
  BY <1>1, <1>2, PlainGroups DEF MonthGrid
<1>4. Total(RecurringSplit(s, e, FALSE, e)) = Shown(Expenses(RowsBetween(s, e)))
  BY <1>1, <1>2, PlainGroups DEF RecurringSplit
<1>5. Total(DayCalendar(s, e, FALSE, e)) = Shown(Expenses(RowsBetween(s, e) \ FromRule))
  BY <1>1, <1>2, PlainGroups DEF DayCalendar
<1> QED BY <1>3, <1>4, <1>5

LEMMA CalendarSplits ==
  ASSUME Book, NEW S \in SUBSET DOMAIN txn
  PROVE  Shown(Expenses(S \ FromRule)) + Listed(S \cap FromRule).expenses = Shown(Expenses(S))
<1> DEFINE A == S \ FromRule
           B == S \cap FromRule
<1>1. A \in SUBSET S /\ B \in SUBSET S /\ \A t \in S : t \in A <=> t \notin B
  OBVIOUS
<1> HIDE DEF A, B
<1>2. Listed(S) = Plus(Listed(A), Listed(B))
  BY <1>1, ListedSplit
<1> QED BY <1>2 DEF Plus, Listed, A, B

(* Lists that are cut.                                                     *)

LEMMA RowKeys ==
  ASSUME Book, NEW t \in DOMAIN txn
  PROVE  CategoryOfRow(t) \in Category /\ TagsOf[t] \in SUBSET Tag
<1>1. t \in TxnId /\ txn[t].type \in TransactionType
  <2>1. DOMAIN txn \in SUBSET TxnId /\ txn \in [DOMAIN txn -> TransactionRow]
    BY DEF Book, Structure, TypeOK
  <2>2. txn[t] \in TransactionRow
    BY <2>1
  <2> QED BY <2>1, <2>2 DEF TransactionRow
<1> QED BY <1>1 DEF CategoryOfRow, Category, Tag

(* The largest entries of a list whose amounts are the real ones, and that *)
(* lacks no amount but zero.                                               *)
LEMMA LargestShowsMost ==
  ASSUME NEW f, NEW D, D = DOMAIN f, IsFiniteSet(D), D \in SUBSET (Category \cup Tag),
         \A k \in D : f[k] \in Int, NEW limit \in Nat \ {0},
         NEW amounts, D \in SUBSET DOMAIN amounts, \A k \in D : amounts[k] = f[k],
         \A k \in DOMAIN amounts \ D : amounts[k] = 0
  PROVE  ShowsMost(Largest(f, limit), amounts, limit)
<1> DEFINE Precedes(j, k) == f[j] > f[k] \/ (f[j] = f[k] /\ Place[j] < Place[k])
           before == {p \in D \X D : Precedes(p[1], p[2])}
           rank == [k \in D |-> Cardinality({j \in D : <<j, k>> \in before})]
           K == {k \in D : rank[k] < limit}
           top == Largest(f, limit)
<1>1. \A j, k \in D : <<j, k>> \in before <=> Precedes(j, k)
  OBVIOUS
<1>2. RankedBy(D, before, rank)
  <2>1. \A k \in D : Place[k] \in Nat /\ f[k] \in Int
    BY ViewsAssumption
  <2>2. \A j, k \in D : Place[j] = Place[k] => j = k
    BY ViewsAssumption
  <2>3. \A j, k \in D : Precedes(j, k) => ~Precedes(k, j)
    BY <2>1
  <2>4. \A i, j, k \in D : Precedes(i, j) /\ Precedes(j, k) => Precedes(i, k)
    BY <2>1
  <2>5. \A j, k \in D : j # k => Precedes(j, k) \/ Precedes(k, j)
    BY <2>1, <2>2
  <2>6. rank = [k \in D |-> Cardinality({j \in D : <<j, k>> \in before})]
    OBVIOUS
  <2> HIDE DEF Precedes, before, rank
  <2> QED BY <1>1, <2>3, <2>4, <2>5, <2>6 DEF RankedBy
<1>3. \A k \in D : rank[k] = Cardinality(Ahead(f, k))
  <2>1. \A k \in D : {j \in D : <<j, k>> \in before} = Ahead(f, k)
    BY <1>1 DEF Ahead
  <2> HIDE DEF before
  <2> QED BY <2>1
<1>4. DOMAIN top = K /\ \A k \in K : top[k] = f[k]
  <2> HIDE DEF rank
  <2> QED BY <1>3 DEF Largest, Restrict
<1>5. /\ Cardinality(K) <= limit
      /\ \A j \in D \ K : Cardinality(K) = limit
  <2>1. K = {k \in D : rank[k] < limit}
    OBVIOUS
  <2> HIDE DEF K, rank, before
  <2> QED BY <1>2, <2>1, FirstOfRanked
<1>6. ASSUME NEW j \in D \ K, NEW k \in K PROVE f[j] <= f[k]
  <2>1. rank[j] \in Int /\ rank[k] \in Int /\ rank[k] < limit /\ ~(rank[j] < limit)
    <3>1. \A i \in D : rank[i] \in 0..(Cardinality(D) - 1)
      BY <1>2, RanksInOrder
    <3> HIDE DEF rank
    <3> QED BY <1>6, <3>1
  <2>2. <<j, k>> \notin before
    <3>1. <<j, k>> \in before => rank[j] < rank[k]
      BY <1>2, <1>6, RanksInOrder
    <3> HIDE DEF rank, before
    <3> QED BY <2>1, <3>1
  <2>3. ~(f[j] > f[k])
    BY <1>1, <1>6, <2>2
  <2> QED BY <1>6, <2>3
<1> HIDE DEF K, top, rank, before
<1>7. K \in SUBSET D
  BY DEF K
<1>8. ShowsMost(top, amounts, limit)
  BY <1>4, <1>5, <1>6, <1>7 DEF ShowsMost
<1> QED BY <1>8 DEF top

(* The value of a figure where there is one.                               *)
At(f, c) == IF c \in DOMAIN f THEN f[c] ELSE 0

(* What the list shows of each category is what a query grouped by it says. *)
LEMMA SpendingGroups ==
  ASSUME Book, NEW S \in SUBSET DOMAIN txn
  PROVE  LET g == Groups(Expenses(S), CategoryKey)
         IN /\ DOMAIN g \in SUBSET Category /\ IsFiniteSet(DOMAIN g)
            /\ \A c \in DOMAIN g : g[c] \in Nat
            /\ DOMAIN Spending(S) = Category
            /\ \A c \in Category : Spending(S)[c] = At(g, c)
<1> DEFINE E == Expenses(S)
           g == Groups(E, CategoryKey)
<1>1. E \in SUBSET DOMAIN txn /\ (\A t \in E : IsExpense(txn, t)) /\ IsFiniteSet(E)
  <2>1. E \in SUBSET DOMAIN txn /\ \A t \in E : IsExpense(txn, t)
    BY DEF Expenses
  <2> HIDE DEF E
  <2> QED BY <2>1, BookFacts, FS_Subset
<1>2. DOMAIN g = {CategoryKey[t] : t \in E}
  BY DEF Groups
<1>3. \A t \in E : CategoryKey[t] = CategoryOfRow(t) /\ CategoryKey[t] \in Category
  BY <1>1, RowKeys DEF CategoryKey
<1>4. DOMAIN g \in SUBSET Category /\ IsFiniteSet(DOMAIN g)
  <2> HIDE DEF E, g
  <2> QED BY <1>1, <1>2, <1>3, ImageFinite
<1>5. \A c \in DOMAIN g : g[c] \in Nat
  <2> HIDE DEF E
  <2> QED BY <1>1, GroupsShown
<1>6. Shown({}) = 0
  <2>1. SumFunction([t \in {} |-> NetAmount(t)]) = 0
    BY SumOfNothing
  <2> QED BY <2>1 DEF Shown
<1>7. ASSUME NEW c \in Category PROVE Spending(S)[c] = At(g, c)
  <2> DEFINE Part == {t \in E : CategoryKey[t] = c}
  <2>1. Expenses({t \in S : CategoryOfRow(t) = c}) = Part
    BY <1>3 DEF Expenses
  <2>2. Spending(S)[c] = Shown(Part)
    <3> HIDE DEF Part
    <3> QED BY <2>1 DEF Spending, Listed
  <2>3. c \in DOMAIN g => g[c] = Net(Part)
    BY DEF Groups
  <2>4. c \notin DOMAIN g => Part = {}
    BY <1>2
  <2>5. Net(Part) = Shown(Part)
    <3>1. Part \in SUBSET DOMAIN txn /\ (\A t \in Part : IsExpense(txn, t)) /\ Expenses(Part) = Part
      BY <1>1 DEF Expenses
    <3> HIDE DEF Part
    <3> QED BY <3>1, NetIsShown
  <2> HIDE DEF Part, g
  <2> QED BY <1>6, <2>2, <2>3, <2>4, <2>5 DEF At
<1>8. DOMAIN Spending(S) = Category
  BY DEF Spending
<1> QED BY <1>4, <1>5, <1>7, <1>8

LEMMA BreakdownIsCut ==
  ASSUME Book, NEW s \in Int, NEW e \in Int
  PROVE  ShowsMost(CategoryBreakdown(s, e, "expense", {}, Whole, BreakdownLimit).shown,
                   Spending(RowsBetween(s, e)), BreakdownLimit)
<1> DEFINE S == RowsBetween(s, e)
           g == Groups(Expenses(S), CategoryKey)
           f == Positive(g)
           D == DOMAIN f
           amounts == Spending(S)
<1>1. S \in SUBSET DOMAIN txn /\ Rows(s, e, Whole) = S /\ Expenses(S) \in SUBSET DOMAIN txn
  BY WholeRows DEF Expenses
<1>2. {t \in S : {} = {} \/ CategoryOfRow(t) \in {}} = S
  OBVIOUS
<1>3. BreakdownLimit \in Nat \ {0} /\ BreakdownLimit # NoLimit
  BY ViewsAssumption DEF NoLimit
<1>4. CategoryBreakdown(s, e, "expense", {}, Whole, BreakdownLimit).shown = Largest(f, BreakdownLimit)
  <2>1. ByCategory(Expenses(S), Net) = g
    BY <1>1, CategoryGroups
  <2> HIDE DEF S, g
  <2> QED BY <1>1, <1>2, <1>3, <2>1 DEF CategoryBreakdown
<1> HIDE DEF S
<1>5. /\ DOMAIN g \in SUBSET Category /\ IsFiniteSet(DOMAIN g)
      /\ \A c \in DOMAIN g : g[c] \in Nat
      /\ DOMAIN amounts = Category
      /\ \A c \in Category : amounts[c] = At(g, c)
  BY <1>1, SpendingGroups
<1> HIDE DEF g, amounts
<1>6. D = {c \in DOMAIN g : g[c] > 0} /\ \A c \in D : f[c] = g[c]
  BY DEF Positive, Restrict
<1> HIDE DEF f, D
<1>7. /\ IsFiniteSet(D) /\ D \in SUBSET (Category \cup Tag) /\ D \in SUBSET DOMAIN amounts
      /\ \A c \in D : f[c] \in Int /\ amounts[c] = f[c]
      /\ \A c \in DOMAIN amounts \ D : amounts[c] = 0
  <2>1. IsFiniteSet(D)
    BY <1>5, <1>6, FS_Subset
  <2> QED BY <1>5, <1>6, <2>1 DEF At
<1>8. ShowsMost(Largest(f, BreakdownLimit), amounts, BreakdownLimit)
  BY <1>3, <1>7, LargestShowsMost DEF D
<1> QED BY <1>4, <1>8 DEF amounts, S

LEMMA TagsAreCut ==
  ASSUME Book, NEW s \in Int, NEW e \in Int, NEW amounts, DOMAIN amounts = Tag,
         \A g \in Tag :
           amounts[g] = Shown(Expenses(Rows(s, e, [included |-> {g}, excluded |-> {}])))
  PROVE  ShowsMost(TopTags(s, e, "expense", Whole, TagLimit), amounts, TagLimit)
<1> DEFINE E == Expenses(Rows(s, e, Whole))
           Part(g) == {t \in E : g \in TagsOf[t]}
           D == UNION {TagsOf[t] : t \in E}
           f == [g \in D |-> Net(Part(g))]
<1>1. TopTags(s, e, "expense", Whole, TagLimit) = Largest(f, TagLimit)
  BY DEF TopTags
<1>2. E \in SUBSET DOMAIN txn /\ IsFiniteSet(E)
  <2>1. E \in SUBSET DOMAIN txn
    BY DEF Expenses, Rows, RowsBetween
  <2> HIDE DEF E
  <2> QED BY <2>1, BookFacts, FS_Subset
<1>3. ASSUME NEW g \in Tag
      PROVE  /\ amounts[g] = Shown(Part(g)) /\ Net(Part(g)) = Shown(Part(g)) /\ Net(Part(g)) \in Nat
  <2>1. Part(g) = Expenses(Rows(s, e, [included |-> {g}, excluded |-> {}]))
    <3>1. \A t : /\ InScope(t, Whole)
                 /\ InScope(t, [included |-> {g}, excluded |-> {}]) <=> g \in TagsOf[t]
      BY DEF InScope, Whole
    <3> QED BY <3>1 DEF Rows, Expenses
  <2>2. /\ Part(g) \in SUBSET DOMAIN txn /\ (\A t \in Part(g) : IsExpense(txn, t))
        /\ Expenses(Part(g)) = Part(g)
    BY DEF Expenses, Rows, RowsBetween
  <2>3. amounts[g] = Shown(Part(g))
    <3> HIDE DEF Part
    <3> QED BY <2>1
  <2>4. Net(Part(g)) = Shown(Part(g)) /\ Net(Part(g)) \in Nat
    <3> DEFINE P == Part(g)
    <3>1. P \in SUBSET DOMAIN txn /\ (\A t \in P : IsExpense(txn, t)) /\ Expenses(P) = P
      BY <2>2
    <3> HIDE DEF P
    <3>2. Net(P) = Shown(P)
      BY <3>1, NetIsShown
    <3>3. Net(P) \in Nat
      BY <3>1, NetIsShown
    <3> QED BY <3>2, <3>3 DEF P
  <2> QED BY <2>3, <2>4
<1>4. D \in SUBSET Tag
  <2>1. \A t \in E : TagsOf[t] \in SUBSET Tag
    BY <1>2, RowKeys
  <2> HIDE DEF E
  <2> QED BY <2>1
<1>5. IsFiniteSet(D)
  <2>1. IsFiniteSet({TagsOf[t] : t \in E})
    <3> HIDE DEF E
    <3> QED BY <1>2, ImageFinite
  <2>2. \A t \in E : IsFiniteSet(TagsOf[t])
    <3>1. DOMAIN txn \in SUBSET TxnId
      BY DEF Book, Structure, TypeOK
    <3> QED BY <1>2, <3>1, ViewsAssumption
  <2>3. \A T \in {TagsOf[t] : t \in E} : IsFiniteSet(T)
    BY <2>2
  <2> QED BY <2>1, <2>3, FS_UNION
<1>6. DOMAIN f = D /\ \A g \in D : f[g] = Net(Part(g))
  OBVIOUS
<1>7. \A g \in Tag \ D : Part(g) = {}
  OBVIOUS
<1>8. Shown({}) = 0
  <2>1. SumFunction([t \in {} |-> NetAmount(t)]) = 0
    BY SumOfNothing
  <2> QED BY <2>1 DEF Shown
<1> HIDE DEF D, f, Part, E
<1>9. /\ \A g \in D : f[g] \in Int /\ amounts[g] = f[g]
      /\ \A g \in DOMAIN amounts \ D : amounts[g] = 0
  BY <1>3, <1>4, <1>6, <1>7, <1>8
<1>10. TagLimit \in Nat \ {0} /\ D \in SUBSET (Category \cup Tag) /\ D \in SUBSET DOMAIN amounts
  BY <1>4, ViewsAssumption
<1>11. ShowsMost(Largest(f, TagLimit), amounts, TagLimit)
  BY <1>5, <1>6, <1>9, <1>10, LargestShowsMost
<1> QED BY <1>1, <1>11

LEMMA DeltasAreCut ==
  ASSUME Book, NEW s \in Int, NEW e \in Int, NEW change, DOMAIN change = Category,
         \A c \in Category : change[c] = Spending(RowsBetween(s, e))[c]
                                           - Spending(RowsBetween(s - (e - s + 1), s - 1))[c]
  PROVE  LET deltas == ExpenseCategoryDeltas(s, e, Whole, DeltaLimit, FALSE, e)
         IN /\ ShowsMost(deltas.increases, change, DeltaLimit)
            /\ ShowsMost(Negated(deltas.decreases), Negated(change), DeltaLimit)
<1> DEFINE a == s - (e - s + 1)
           b == s - 1
           N == RowsBetween(s, e)
           B == RowsBetween(a, b)
           now == Groups(Expenses(N), CategoryKey)
           before == Groups(Expenses(B), CategoryKey)
           D == DOMAIN now \cup DOMAIN before
           f == [c \in D |-> At(now, c) - At(before, c)]
           answer == ExpenseCategoryDeltas(s, e, Whole, DeltaLimit, FALSE, e)
<1>1. ASSUME NEW i \in Int, NEW j \in Int
      PROVE  CategoryTotals(i, j, Whole, FALSE, e) = Groups(Expenses(RowsBetween(i, j)), CategoryKey)
  <2> DEFINE R == Expenses(RowsBetween(i, j))
  <2>1. R \in SUBSET DOMAIN txn /\ Rows(i, j, Whole) = RowsBetween(i, j)
    BY WholeRows DEF Expenses, RowsBetween
  <2>2. CategoryTotals(i, j, Whole, FALSE, e) = ByCategory(R, Net)
    BY <2>1 DEF CategoryTotals, ByCategory, Grouped
  <2> HIDE DEF R
  <2>3. ByCategory(R, Net) = Groups(R, CategoryKey)
    BY <2>1, CategoryGroups
  <2> QED BY <2>2, <2>3 DEF R
<1>2. a \in Int /\ b \in Int
  OBVIOUS
<1>3. answer.increases = Largest(f, DeltaLimit) /\ answer.decreases = Smallest(f, DeltaLimit)
  <2>1. CategoryTotals(s, e, Whole, FALSE, e) = now
    BY <1>1
  <2>2. CategoryTotals(s - (e - s + 1), s - 1, Whole, FALSE, e) = before
    <3> HIDE DEF a, b
    <3>1. CategoryTotals(a, b, Whole, FALSE, e) = before
      BY <1>1, <1>2
    <3> QED BY <3>1 DEF a, b
  <2> HIDE DEF now, before
  <2>3. ExpenseCategoryDeltas(s, e, Whole, DeltaLimit, FALSE, e)
          = [increases |-> Largest(f, DeltaLimit), decreases |-> Smallest(f, DeltaLimit)]
    BY <2>1, <2>2 DEF ExpenseCategoryDeltas, At
  <2>4. answer = [increases |-> Largest(f, DeltaLimit), decreases |-> Smallest(f, DeltaLimit)]
    BY <2>3
  <2> HIDE DEF f, answer
  <2> QED BY <2>4
<1>4. N \in SUBSET DOMAIN txn /\ B \in SUBSET DOMAIN txn
  BY DEF RowsBetween
<1>5. \A c \in Category : change[c] = Spending(N)[c] - Spending(B)[c]
  OBVIOUS
<1> HIDE DEF N, B, answer
<1>6. /\ DOMAIN now \in SUBSET Category /\ IsFiniteSet(DOMAIN now)
      /\ \A c \in DOMAIN now : now[c] \in Nat
      /\ \A c \in Category : Spending(N)[c] = At(now, c)
  BY <1>4, SpendingGroups
<1>7. /\ DOMAIN before \in SUBSET Category /\ IsFiniteSet(DOMAIN before)
      /\ \A c \in DOMAIN before : before[c] \in Nat
      /\ \A c \in Category : Spending(B)[c] = At(before, c)
  BY <1>4, SpendingGroups
<1> HIDE DEF now, before
<1>8. D \in SUBSET Category /\ IsFiniteSet(D)
  BY <1>6, <1>7, FS_Union
<1>9. DOMAIN f = D /\ \A c \in D : f[c] \in Int /\ f[c] = At(now, c) - At(before, c)
  BY <1>6, <1>7 DEF At
<1>10. /\ \A c \in D : change[c] = f[c]
       /\ \A c \in Category \ D : change[c] = 0
  <2>1. \A c \in Category : change[c] = At(now, c) - At(before, c)
    BY <1>5, <1>6, <1>7
  <2> QED BY <1>8, <1>9, <2>1 DEF At
<1> HIDE DEF f, D
<1>11. DeltaLimit \in Nat \ {0}
  BY ViewsAssumption
<1>12. ShowsMost(Largest(f, DeltaLimit), change, DeltaLimit)
  BY <1>8, <1>9, <1>10, <1>11, LargestShowsMost
<1>13. Negated(Smallest(f, DeltaLimit)) = Largest(Negated(f), DeltaLimit)
  <2> DEFINE h == Negated(f)
             low == Largest(h, DeltaLimit)
  <2>1. DOMAIN h = D /\ \A c \in D : h[c] \in Int
    BY <1>9 DEF Negated
  <2>2. low = [c \in DOMAIN low |-> low[c]] /\ \A c \in DOMAIN low : low[c] \in Int
    <3> HIDE DEF h
    <3>1. DOMAIN low \in SUBSET D /\ low = [c \in DOMAIN low |-> h[c]]
      BY <2>1 DEF Largest, Restrict
    <3> HIDE DEF low
    <3> QED BY <2>1, <3>1
  <2>3. Smallest(f, DeltaLimit) = Negated(low)
    BY DEF Smallest
  <2> HIDE DEF low
  <2>4. Negated(Negated(low)) = low
    <3>1. \A c \in DOMAIN low : -(-low[c]) = low[c]
      BY <2>2
    <3>2. DOMAIN Negated(low) = DOMAIN low /\ \A c \in DOMAIN low : Negated(low)[c] = -low[c]
      BY DEF Negated
    <3>3. Negated(Negated(low)) = [c \in DOMAIN low |-> low[c]]
      BY <3>1, <3>2 DEF Negated
    <3> QED BY <2>2, <3>3
  <2> QED BY <2>3, <2>4 DEF low
<1>14. ShowsMost(Largest(Negated(f), DeltaLimit), Negated(change), DeltaLimit)
  <2> DEFINE h == Negated(f)
             amounts == Negated(change)
  <2>1. DOMAIN h = D /\ \A c \in D : h[c] = -f[c]
    BY <1>9 DEF Negated
  <2>2. DOMAIN amounts = Category /\ \A c \in Category : amounts[c] = -change[c]
    BY DEF Negated
  <2> HIDE DEF h, amounts
  <2>3. /\ \A c \in D : h[c] \in Int /\ amounts[c] = h[c]
        /\ \A c \in DOMAIN amounts \ D : amounts[c] = 0
    BY <1>8, <1>9, <1>10, <2>1, <2>2
  <2>4. ShowsMost(Largest(h, DeltaLimit), amounts, DeltaLimit)
    BY <1>8, <1>11, <2>1, <2>2, <2>3, LargestShowsMost
  <2> QED BY <2>4 DEF h, amounts
<1>15. answer.increases = Largest(f, DeltaLimit) /\ answer.decreases = Smallest(f, DeltaLimit)
  BY <1>3
<1> QED BY <1>12, <1>13, <1>14, <1>15 DEF answer

LEMMA ChartsOfBook == Book => ChartsAgree
<1> SUFFICES ASSUME Book PROVE ChartsAgree
  OBVIOUS
<1> DEFINE Spans(s, e) ==
             LET whole == KpiFigures(s, e, Whole)
                 ring == CategoryBreakdown(s, e, "expense", {}, Whole, NoLimit)
                 top == CategoryBreakdown(s, e, "expense", {}, Whole, BreakdownLimit)
                 incomes == CategoryBreakdown(s, e, "income", {}, Whole, BreakdownLimit)
             IN /\ Total(ring.shown) = whole.expenses /\ top.of = whole.expenses
                /\ ShowsMost(top.shown, Spending(RowsBetween(s, e)), BreakdownLimit)
                /\ Total(incomes.shown) = whole.income /\ incomes.of = whole.income
                /\ Total(ReportTrend([start |-> s, end |-> e, kind |-> "any", cats |-> {},
                                      scope |-> Whole])) = whole.expenses
           Months(s, e) ==
             LET first == FirstDay(MonthOf(s))
             IN /\ TotalFigures(MonthlySeries(s, e, LastMonthOf, Whole, FALSE, e))
                     = KpiFigures(first, e, Whole)
                /\ LET bands == MonthlyCategoryBands(e, MonthOf(e) - MonthOf(s) + 1, Whole)
                   IN SumFunction([m \in DOMAIN bands |-> Total(bands[m].segments)])
                        = KpiFigures(first, e, Whole).expenses
           Grids(s, e) ==
             LET whole == KpiFigures(s, e, Whole)
             IN /\ Total(MonthGrid(s, e, FALSE, e)) = whole.expenses
                /\ Total(RecurringSplit(s, e, FALSE, e)) = whole.expenses
                /\ Total(DayCalendar(s, e, FALSE, e))
                     + Listed(RowsBetween(s, e) \cap FromRule).expenses = whole.expenses
           Tags(s, e) ==
             ShowsMost(TopTags(s, e, "expense", Whole, TagLimit),
               [g \in Tag |-> KpiFigures(s, e, [included |-> {g}, excluded |-> {}]).expenses],
               TagLimit)
           Deltas(s, e) ==
             s - (e - s + 1) >= 1 =>
               LET now    == Spending(RowsBetween(s, e))
                   before == Spending(RowsBetween(s - (e - s + 1), s - 1))
                   change == [c \in Category |-> now[c] - before[c]]
                   deltas == ExpenseCategoryDeltas(s, e, Whole, DeltaLimit, FALSE, e)
               IN /\ ShowsMost(deltas.increases, change, DeltaLimit)
                  /\ ShowsMost(Negated(deltas.decreases), Negated(change), DeltaLimit)
<1>1. ASSUME NEW s, NEW e, InCalendar(s, e)
      PROVE  Spans(s, e) /\ Months(s, e) /\ Grids(s, e) /\ Tags(s, e) /\ Deltas(s, e)
  <2>1. s \in Int /\ e \in Int /\ s >= 1 /\ s <= e
    BY <1>1 DEF InCalendar
  <2>2. \A scope : KpiFigures(s, e, scope) = Listed(Rows(s, e, scope))
    BY <1>1, KpisListed
  <2>3. /\ KpiFigures(s, e, Whole).income = Income(Rows(s, e, Whole))
        /\ \A scope : KpiFigures(s, e, scope).expenses = Shown(Expenses(Rows(s, e, scope)))
    BY <2>2 DEF Listed
  <2>4. Spans(s, e)
    BY <2>1, <2>3, BreakdownAddsUp, BreakdownIsCut, TrendAddsUp
  <2>5. Months(s, e)
    <3> DEFINE first == FirstDay(MonthOf(s))
    <3>1. KpiFigures(first, e, Whole) = Listed(Rows(first, e, Whole))
      BY <1>1, FromFirstDay, KpisListed
    <3>2. KpiFigures(first, e, Whole).expenses = Shown(Expenses(Rows(first, e, Whole)))
      BY <3>1 DEF Listed
    <3>3. TotalFigures(MonthlySeries(s, e, LastMonthOf, Whole, FALSE, e))
            = Listed(Rows(first, e, Whole))
      BY <1>1, SeriesAddsUp
    <3>4. LET bands == MonthlyCategoryBands(e, MonthOf(e) - MonthOf(s) + 1, Whole)
          IN SumFunction([m \in DOMAIN bands |-> Total(bands[m].segments)])
               = Shown(Expenses(Rows(first, e, Whole)))
      BY <1>1, BandsAddUp
    <3> HIDE DEF first
    <3> QED BY <3>1, <3>2, <3>3, <3>4 DEF first
  <2>6. Grids(s, e)
    <3>1. RowsBetween(s, e) \in SUBSET DOMAIN txn /\ Rows(s, e, Whole) = RowsBetween(s, e)
      BY WholeRows
    <3>2. Shown(Expenses(RowsBetween(s, e) \ FromRule))
            + Listed(RowsBetween(s, e) \cap FromRule).expenses = Shown(Expenses(RowsBetween(s, e)))
      BY <3>1, CalendarSplits
    <3> QED BY <2>3, <3>1, <3>2, GridsAddUp
  <2>7. Tags(s, e)
    <3> DEFINE amounts ==
          [g \in Tag |-> KpiFigures(s, e, [included |-> {g}, excluded |-> {}]).expenses]
    <3>1. DOMAIN amounts = Tag
      OBVIOUS
    <3>2. \A g \in Tag :
            amounts[g] = Shown(Expenses(Rows(s, e, [included |-> {g}, excluded |-> {}])))
      BY <2>3
    <3> HIDE DEF amounts
    <3>3. ShowsMost(TopTags(s, e, "expense", Whole, TagLimit), amounts, TagLimit)
      BY <2>1, <3>1, <3>2, TagsAreCut
    <3> QED BY <3>3 DEF amounts
  <2>8. Deltas(s, e)
    <3> DEFINE now == Spending(RowsBetween(s, e))
               before == Spending(RowsBetween(s - (e - s + 1), s - 1))
               change == [c \in Category |-> now[c] - before[c]]
    <3>1. DOMAIN change = Category /\ \A c \in Category : change[c] = now[c] - before[c]
      OBVIOUS
    <3>2. \A c \in Category :
            change[c] = Spending(RowsBetween(s, e))[c]
                          - Spending(RowsBetween(s - (e - s + 1), s - 1))[c]
      BY <3>1
    <3> HIDE DEF change
    <3>3. LET deltas == ExpenseCategoryDeltas(s, e, Whole, DeltaLimit, FALSE, e)
          IN /\ ShowsMost(deltas.increases, change, DeltaLimit)
             /\ ShowsMost(Negated(deltas.decreases), Negated(change), DeltaLimit)
      BY <2>1, <3>1, <3>2, DeltasAreCut
    <3> QED BY <3>3 DEF change
  <2> QED BY <2>4, <2>5, <2>6, <2>7, <2>8
<1>2. \A p \in Period : /\ Spans(p[1], p[2]) /\ Months(p[1], p[2]) /\ Grids(p[1], p[2])
                        /\ Tags(p[1], p[2]) /\ Deltas(p[1], p[2])
  <2> HIDE DEF Spans, Months, Grids, Tags, Deltas
  <2> QED BY <1>1, PeriodFacts
<1> QED BY <1>2 DEF ChartsAgree

(* Rounding to the nearest never goes below the whole part, and changes no *)
(* multiple of the divisor.                                                *)
LEMMA QuotientAtLeast ==
  ASSUME NEW n \in Nat, NEW d \in Nat \ {0}, NEW k \in Nat, k * d <= n
  PROVE  n \div d >= k
<1> DEFINE q == n \div d
<1>1. q \in Nat /\ n < d * (q + 1)
  BY Z3
<1> HIDE DEF q
<1>2. SUFFICES ASSUME q < k PROVE FALSE
  BY <1>1 DEF q
<1>3. q + 1 <= k
  BY <1>1, <1>2
<1>4. d * (q + 1) <= d * k
  BY <1>1, <1>3, Z3
<1>5. d * k = k * d
  BY Z3
<1>6. d * k \in Int /\ d * (q + 1) \in Int
  BY <1>1
<1> QED BY <1>1, <1>4, <1>5, <1>6

LEMMA RoundedAtLeast ==
  ASSUME NEW n \in Nat, NEW d \in Nat \ {0}, NEW k \in Nat, k * d <= n
  PROVE  Rounded(n, d) >= k
<1>1. n \div d \in Int /\ n \div d >= k
  BY QuotientAtLeast
<1> QED BY <1>1 DEF Rounded

LEMMA RoundedExact ==
  ASSUME NEW d \in Nat \ {0}, NEW k \in Nat
  PROVE  Rounded(k * d, d) = k
<1>1. (k * d) \div d = k /\ (k * d) % d = 0
  BY Z3
<1> QED BY <1>1 DEF Rounded

(* A projection is at least what was spent, and that on the last day.      *)
LEMMA ProjectionHolds ==
  ASSUME NEW spent \in Nat, NEW m \in Month, NEW asOf \in Day
  PROVE  /\ Progress(0, spent, m, asOf).projected >= spent
         /\ Progress(0, spent, m, LastDay(m)).projected = spent
<1>1. MonthLength \in Nat \ {0} /\ m \in Nat \ {0}
  BY ViewsAssumption
<1>2. /\ FirstDay(m) \in Int /\ LastDay(m) \in Int /\ FirstDay(m) <= LastDay(m)
      /\ LastDay(m) = FirstDay(m) + MonthLength - 1
  <2>1. (m - 1) * MonthLength \in Int /\ m * MonthLength = (m - 1) * MonthLength + MonthLength
    BY <1>1
  <2> QED BY <1>1, <2>1, MonthBounds DEF FirstDay, LastDay
<1>3. asOf \in Int
  BY DEF Day
<1>4. Elapsed(m, asOf) \in 0..MonthLength
  BY <1>1, <1>2, <1>3 DEF Elapsed
<1>5. Elapsed(m, LastDay(m)) = MonthLength
  BY <1>1, <1>2 DEF Elapsed
<1>6. spent * MonthLength \in Nat
  BY <1>1
<1>7. Progress(0, spent, m, asOf).projected >= spent
  <2> DEFINE el == Elapsed(m, asOf)
  <2>1. Progress(0, spent, m, asOf).projected
          = IF el > 0 THEN Rounded(spent * MonthLength, el) ELSE spent
    BY DEF Progress
  <2> HIDE DEF el
  <2>2. ASSUME el > 0 PROVE Rounded(spent * MonthLength, el) >= spent
    <3>1. el \in Nat \ {0} /\ el <= MonthLength
      BY <1>1, <1>4, <2>2 DEF el
    <3>2. spent * el <= spent * MonthLength
      BY <1>1, <3>1, Z3
    <3> QED BY <1>6, <3>1, <3>2, RoundedAtLeast
  <2> QED BY <2>1, <2>2
<1>8. Progress(0, spent, m, LastDay(m)).projected = spent
  BY <1>1, <1>5, RoundedExact DEF Progress
<1> QED BY <1>7, <1>8

(* What budgets see of some days.                                          *)
LEMMA BudgetRowsAre ==
  ASSUME NEW s, NEW e
  PROVE  /\ BudgetRows(s, e) \in SUBSET DOMAIN txn
         /\ \A t \in BudgetRows(s, e) : IsExpense(txn, t)
         /\ BudgetRows(s, e)
              = Expenses({t \in RowsBetween(s, e) : TagsOf[t] \cap HiddenTag = {}})
         /\ Expenses(BudgetRows(s, e)) = BudgetRows(s, e)
BY DEF BudgetRows, Expenses, RowsBetween

LEMMA SpentListed ==
  ASSUME Book, NEW s, NEW e
  PROVE  /\ Total(SpentByCategory(s, e)) = Shown(BudgetRows(s, e))
         /\ Shown(BudgetRows(s, e)) \in Nat
         /\ \A c \in DOMAIN SpentByCategory(s, e) :
              SpentByCategory(s, e)[c] = Shown({t \in BudgetRows(s, e) : CategoryOfRow(t) = c})
<1> DEFINE S == BudgetRows(s, e)
<1>1. S \in SUBSET DOMAIN txn /\ \A t \in S : IsExpense(txn, t)
  BY BudgetRowsAre
<1>2. SpentByCategory(s, e) = ByCategory(S, Net)
  BY DEF SpentByCategory
<1> HIDE DEF S
<1>3. ByCategory(S, Net) = Groups(S, CategoryKey)
  BY <1>1, CategoryGroups
<1>4. Total(Groups(S, CategoryKey)) = Shown(S) /\ Shown(S) \in Nat
  BY <1>1, GroupsShown, NetIsShown
<1>5. \A c \in DOMAIN ByCategory(S, Net) :
        ByCategory(S, Net)[c] = Net({t \in S : CategoryOfRow(t) = c})
  BY DEF ByCategory, Grouped
<1>6. ASSUME NEW c
      PROVE  Net({t \in S : CategoryOfRow(t) = c}) = Shown({t \in S : CategoryOfRow(t) = c})
  <2> DEFINE P == {t \in S : CategoryOfRow(t) = c}
  <2>1. P \in SUBSET DOMAIN txn /\ \A t \in P : IsExpense(txn, t)
    BY <1>1
  <2> HIDE DEF P
  <2>2. Net(P) = Shown(P)
    BY <2>1, NetIsShown
  <2> QED BY <2>2 DEF P
<1>7. \A c \in DOMAIN SpentByCategory(s, e) :
        SpentByCategory(s, e)[c] = Shown({t \in S : CategoryOfRow(t) = c})
  BY <1>2, <1>5, <1>6
<1> QED BY <1>2, <1>3, <1>4, <1>7 DEF S

LEMMA BudgetOfMonth ==
  ASSUME Book, NEW m \in Month, NEW asOf \in Day
  PROVE  LET spent == Total(SpentByCategory(FirstDay(m), LastDay(m)))
         IN /\ spent
                 = Listed({t \in RowsBetween(FirstDay(m), LastDay(m)) :
                             TagsOf[t] \cap HiddenTag = {}}).expenses
            /\ Burndown(m, {})[LastDay(m)] = spent
            /\ \A c \in DOMAIN SpentByCategory(FirstDay(m), LastDay(m)) :
                 Burndown(m, {c})[LastDay(m)] = SpentByCategory(FirstDay(m), LastDay(m))[c]
            /\ Progress(0, spent, m, asOf).projected >= spent
            /\ Progress(0, spent, m, LastDay(m)).projected = spent
<1> DEFINE S == BudgetRows(FirstDay(m), LastDay(m))
           spent == Total(SpentByCategory(FirstDay(m), LastDay(m)))
<1>1. spent = Shown(S) /\ Shown(S) \in Nat
  BY SpentListed
<1>2. Listed({t \in RowsBetween(FirstDay(m), LastDay(m)) : TagsOf[t] \cap HiddenTag = {}}).expenses
        = Shown(S)
  BY BudgetRowsAre DEF Listed
<1>3. LastDay(m) \in FirstDay(m)..LastDay(m)
  <2>1. m \in Int
    BY ViewsAssumption
  <2> QED BY <2>1, MonthBounds
<1>4. \A cats : Burndown(m, cats)[LastDay(m)]
                  = Shown({t \in S : cats = {} \/ CategoryOfRow(t) \in cats})
  BY <1>3 DEF Burndown
<1>5. Burndown(m, {})[LastDay(m)] = Shown(S)
  <2>1. {t \in S : {} = {} \/ CategoryOfRow(t) \in {}} = S
    OBVIOUS
  <2> HIDE DEF S
  <2> QED BY <1>4, <2>1
<1>6. ASSUME NEW c \in DOMAIN SpentByCategory(FirstDay(m), LastDay(m))
      PROVE  Burndown(m, {c})[LastDay(m)] = SpentByCategory(FirstDay(m), LastDay(m))[c]
  <2>1. {t \in S : {c} = {} \/ CategoryOfRow(t) \in {c}} = {t \in S : CategoryOfRow(t) = c}
    OBVIOUS
  <2>2. SpentByCategory(FirstDay(m), LastDay(m))[c] = Shown({t \in S : CategoryOfRow(t) = c})
    BY SpentListed
  <2> HIDE DEF S
  <2> QED BY <1>4, <2>1, <2>2
<1> HIDE DEF S, spent
<1>7. /\ Progress(0, spent, m, asOf).projected >= spent
      /\ Progress(0, spent, m, LastDay(m)).projected = spent
  BY <1>1, ProjectionHolds
<1> QED BY <1>1, <1>2, <1>5, <1>6, <1>7 DEF spent

(* No row is later than the last day of the calendar.                      *)
LEMMA DateInCalendar ==
  ASSUME Book, NEW t \in DOMAIN txn
  PROVE  Date(t) \in Int /\ 1 <= Date(t) /\ Date(t) <= LastDay(LastMonthOf)
<1>1. /\ txn[t].month \in Month /\ Date(t) \in Nat \ {0}
      /\ Date(t) <= LastDay(txn[t].month)
  BY DateOfRow
<1>2. /\ MonthLength \in Nat \ {0} /\ LastMonthOf \in Nat \ {0}
      /\ txn[t].month \in Nat \ {0} /\ txn[t].month <= LastMonthOf
  BY <1>1, ViewsAssumption
<1>3. LastDay(txn[t].month) \in Int /\ LastDay(LastMonthOf) \in Int
  BY <1>2, MonthBounds
<1>4. LastDay(txn[t].month) <= LastDay(LastMonthOf)
  <2> DEFINE m == txn[t].month
             n == LastMonthOf
  <2>1. m \in Nat /\ n \in Nat /\ m <= n
    BY <1>2
  <2> HIDE DEF m, n
  <2>2. m * MonthLength <= n * MonthLength
    BY <1>2, <2>1, Z3
  <2> QED BY <2>2 DEF LastDay, m, n
<1> QED BY <1>1, <1>3, <1>4

(* The months of the calendar add up to the year.                          *)
LEMMA BudgetOfYear ==
  ASSUME Book
  PROVE  Total(SpentByCategory(1, LastDay(LastMonthOf)))
           = SumFunction([m \in Month |-> Total(SpentByCategory(FirstDay(m), LastDay(m)))])
<1> DEFINE S == BudgetRows(1, LastDay(LastMonthOf))
           key == [t \in DOMAIN txn |-> txn[t].month]
<1>1. S \in SUBSET DOMAIN txn /\ \A t \in S : IsExpense(txn, t)
  BY BudgetRowsAre
<1>2. \A t \in S : key[t] \in Month
  BY <1>1, BookFacts
<1>3. IsFiniteSet(Month)
  BY ViewsAssumption, FS_Interval
<1>4. ASSUME NEW m \in Month
      PROVE  {t \in S : key[t] = m} = BudgetRows(FirstDay(m), LastDay(m))
  <2>1. m \in Int /\ FirstDay(m) \in Int /\ LastDay(m) \in Int
    <3>1. m \in Int
      BY ViewsAssumption
    <3> QED BY <3>1, MonthBounds
  <2>2. LastDay(LastMonthOf) \in Int
    BY ViewsAssumption, MonthBounds
  <2>3. ASSUME NEW t \in DOMAIN txn
        PROVE  t \in S /\ txn[t].month = m <=> t \in BudgetRows(FirstDay(m), LastDay(m))
    <3>1. Date(t) \in 1..LastDay(LastMonthOf)
      BY <2>2, DateInCalendar
    <3>2. Date(t) \in FirstDay(m)..LastDay(m) <=> txn[t].month = m
      BY <2>1, DateOfRow, MonthIs
    <3> QED BY <3>1, <3>2 DEF BudgetRows, Expenses, RowsBetween
  <2>4. BudgetRows(FirstDay(m), LastDay(m)) \subseteq DOMAIN txn
    BY BudgetRowsAre
  <2>5. \A t \in S : key[t] = txn[t].month
    BY <1>1
  <2> HIDE DEF S, key
  <2> QED BY <1>1, <2>3, <2>4, <2>5
<1>5. \A m \in Month : Shown(Expenses({t \in S : key[t] = m}))
                         = Total(SpentByCategory(FirstDay(m), LastDay(m)))
  <2> SUFFICES ASSUME NEW m \in Month
               PROVE  Shown(Expenses({t \in S : key[t] = m}))
                        = Total(SpentByCategory(FirstDay(m), LastDay(m)))
    OBVIOUS
  <2> DEFINE R == BudgetRows(FirstDay(m), LastDay(m))
  <2>1. Expenses(R) = R /\ Total(SpentByCategory(FirstDay(m), LastDay(m))) = Shown(R)
    BY BudgetRowsAre, SpentListed
  <2>2. {t \in S : key[t] = m} = R
    BY <1>4
  <2> HIDE DEF S, key, R
  <2> QED BY <2>1, <2>2
<1>6. Expenses(S) = S /\ Total(SpentByCategory(1, LastDay(LastMonthOf))) = Shown(S)
  BY BudgetRowsAre, SpentListed
<1> HIDE DEF S, key
<1>7. /\ Income(S) = SumFunction([m \in Month |-> Income({t \in S : key[t] = m})])
      /\ Shown(Expenses(S))
           = SumFunction([m \in Month |-> Shown(Expenses({t \in S : key[t] = m}))])
  BY <1>1, <1>2, <1>3, ListedByKey
<1>8. [m \in Month |-> Shown(Expenses({t \in S : key[t] = m}))]
        = [m \in Month |-> Total(SpentByCategory(FirstDay(m), LastDay(m)))]
  BY <1>5
<1> QED BY <1>6, <1>7, <1>8

(* The week of the digest.                                                 *)
LEMMA DigestOfWeek ==
  ASSUME Book, NEW w \in Day
  PROVE  LET digest == WeeklyDigest(w, 2)
         IN /\ digest.total = KpiFigures(w, Lesser(w + 1, LastDay(LastMonthOf)), Whole).expenses
            /\ ShowsMost(digest.categories, Spending(RowsBetween(w, w + 1)), DigestLimit)
            /\ digest.unusual \subseteq Expenses(Rows(w, w + 1, Whole))
<1> DEFINE final == LastDay(LastMonthOf)
           S == Expenses(RowsBetween(w, w + 1))
           K == {CategoryKey[t] : t \in S}
           h == [k \in K |-> Shown({t \in S : CategoryKey[t] = k})]
<1>1. final \in Int /\ w \in Nat \ {0} /\ w <= final
  <2>1. final \in Int
    BY ViewsAssumption, MonthBounds
  <2> QED BY <2>1 DEF Day
<1>2. WeekExpenses(w + 2, 1, 2) = S
  <2>1. \A a, b : a = w /\ b = w + 1 => Expenses(RowsBetween(a, b)) = S
    OBVIOUS
  <2>2. (w + 2) - 1 * 2 = w /\ (w + 2) - 1 = w + 1
    BY <1>1
  <2> HIDE DEF S
  <2>3. Expenses(RowsBetween((w + 2) - 1 * 2, (w + 2) - 1)) = S
    BY <2>1, <2>2
  <2> QED BY <2>3 DEF WeekExpenses
<1>3. /\ WeeklyDigest(w, 2).total = Shown(S)
      /\ WeeklyDigest(w, 2).categories = Largest(ByCategory(S, Shown), DigestLimit)
      /\ WeeklyDigest(w, 2).unusual \subseteq S
  <2> HIDE DEF S
  <2> QED BY <1>2 DEF WeeklyDigest
<1>4. S = Expenses(RowsBetween(w, Lesser(w + 1, final)))
  <2>1. \A t \in DOMAIN txn : Date(t) \in w..(w + 1) <=> Date(t) \in w..Lesser(w + 1, final)
    <3> HIDE DEF final
    <3>1. \A t \in DOMAIN txn : Date(t) \in Int /\ Date(t) <= final
      BY DateInCalendar DEF final
    <3> QED BY <1>1, <3>1 DEF Lesser
  <2> QED BY <2>1 DEF RowsBetween, Expenses
<1>5. KpiFigures(w, Lesser(w + 1, final), Whole).expenses = Shown(S)
  <2> DEFINE e == Lesser(w + 1, final)
  <2>1. InCalendar(w, e)
    <3> HIDE DEF final
    <3>1. e \in Nat \ {0} /\ w <= e /\ e <= final
      BY <1>1 DEF Lesser
    <3> QED BY <1>1, <3>1 DEF InCalendar, final
  <2> HIDE DEF e
  <2>2. KpiFigures(w, e, Whole) = Listed(Rows(w, e, Whole))
    BY <2>1, KpisListed
  <2>3. S = Expenses(Rows(w, e, Whole))
    BY <1>4, WholeRows DEF e
  <2>4. KpiFigures(w, e, Whole).expenses = Shown(S)
    BY <2>2, <2>3 DEF Listed
  <2> QED BY <2>4 DEF e
<1>6. /\ S \in SUBSET DOMAIN txn /\ Expenses(S) = S
      /\ \A k : Expenses({t \in S : CategoryKey[t] = k}) = {t \in S : CategoryKey[t] = k}
  BY DEF Expenses, RowsBetween
<1>7. IsFiniteSet(K) /\ \A t \in S : CategoryKey[t] \in K
  <2>1. IsFiniteSet(S)
    BY <1>6, BookFacts, FS_Subset
  <2> HIDE DEF S
  <2> QED BY <2>1, ImageFinite
<1>8. ByCategory(S, Shown) = h
  <2>1. \A t \in S : CategoryKey[t] = CategoryOfRow(t)
    BY <1>6 DEF CategoryKey
  <2> HIDE DEF S
  <2>2. K = {CategoryOfRow(t) : t \in S}
    BY <2>1
  <2>3. \A k : {t \in S : CategoryKey[t] = k} = {t \in S : CategoryOfRow(t) = k}
    BY <2>1
  <2> HIDE DEF K
  <2> QED BY <2>2, <2>3 DEF ByCategory, Grouped
<1>9. ShowsMost(Largest(h, DigestLimit), Spending(RowsBetween(w, w + 1)), DigestLimit)
  <2> DEFINE g == Groups(S, CategoryKey)
             R == RowsBetween(w, w + 1)
             amounts == Spending(R)
  <2>1. R \in SUBSET DOMAIN txn /\ S = Expenses(R)
    BY DEF RowsBetween
  <2> HIDE DEF R
  <2>2. /\ DOMAIN g \in SUBSET Category /\ IsFiniteSet(DOMAIN g)
        /\ \A c \in DOMAIN g : g[c] \in Nat
        /\ DOMAIN amounts = Category
        /\ \A c \in Category : amounts[c] = At(g, c)
    BY <2>1, SpendingGroups
  <2>3. DOMAIN g = K /\ DOMAIN h = K
    BY DEF Groups
  <2>4. \A c \in K : h[c] = g[c]
    <3> TAKE c \in K
    <3> DEFINE P == {t \in S : CategoryKey[t] = c}
    <3>1. P \in SUBSET DOMAIN txn /\ \A t \in P : IsExpense(txn, t)
      BY <2>1 DEF Expenses
    <3>2. g[c] = Net(P) /\ h[c] = Shown(P)
      BY DEF Groups
    <3> HIDE DEF P, g, h
    <3> QED BY <3>1, <3>2, NetIsShown
  <2> HIDE DEF g, h, K, amounts
  <2>5. /\ \A c \in K : h[c] \in Int /\ amounts[c] = h[c]
        /\ \A c \in DOMAIN amounts \ K : amounts[c] = 0
    BY <2>2, <2>3, <2>4 DEF At
  <2>6. DigestLimit \in Nat \ {0} /\ K \in SUBSET (Category \cup Tag) /\ K \in SUBSET DOMAIN amounts
    BY <2>2, <2>3, ViewsAssumption
  <2>7. ShowsMost(Largest(h, DigestLimit), amounts, DigestLimit)
    BY <1>7, <2>3, <2>5, <2>6, LargestShowsMost
  <2> QED BY <2>7 DEF amounts, R
<1>10. WeeklyDigest(w, 2).unusual \subseteq Expenses(Rows(w, w + 1, Whole))
  BY <1>3, WholeRows
<1>11. ShowsMost(WeeklyDigest(w, 2).categories, Spending(RowsBetween(w, w + 1)), DigestLimit)
  <2> HIDE DEF S, K, h
  <2> QED BY <1>3, <1>8, <1>9
<1> QED BY <1>3, <1>5, <1>10, <1>11

LEMMA FiguresOfBook == Book => FiguresAgree
<1> SUFFICES ASSUME Book PROVE FiguresAgree
  OBVIOUS
<1> DEFINE Spent(m) == Total(SpentByCategory(FirstDay(m), LastDay(m)))
           Visible(m) == {t \in RowsBetween(FirstDay(m), LastDay(m)) :
                            TagsOf[t] \cap HiddenTag = {}}
<1>1. ASSUME NEW m \in Month
      PROVE  /\ Spent(m) = Listed(Visible(m)).expenses
             /\ Burndown(m, {})[LastDay(m)] = Spent(m)
             /\ \A c \in DOMAIN SpentByCategory(FirstDay(m), LastDay(m)) :
                  Burndown(m, {c})[LastDay(m)] = SpentByCategory(FirstDay(m), LastDay(m))[c]
             /\ \A asOf \in Day : Progress(0, Spent(m), m, asOf).projected >= Spent(m)
             /\ Progress(0, Spent(m), m, LastDay(m)).projected = Spent(m)
  <2>1. 1 \in Day
    <3>1. LastDay(LastMonthOf) \in Nat \ {0}
      BY ViewsAssumption DEF LastDay
    <3> QED BY <3>1 DEF Day
  <2> QED BY <2>1, BudgetOfMonth
<1>2. Total(SpentByCategory(1, LastDay(LastMonthOf))) = SumFunction([m \in Month |-> Spent(m)])
  BY BudgetOfYear
<1>3. \A w \in {d \in Day : d % 2 = 0} :
        LET digest == WeeklyDigest(w, 2)
        IN /\ digest.total = KpiFigures(w, Lesser(w + 1, LastDay(LastMonthOf)), Whole).expenses
           /\ ShowsMost(digest.categories, Spending(RowsBetween(w, w + 1)), DigestLimit)
           /\ digest.unusual \subseteq Expenses(Rows(w, w + 1, Whole))
  BY DigestOfWeek
<1>4. BudgetsSeeTheList
  BY <1>1, <1>2, <1>3 DEF BudgetsSeeTheList
<1> QED BY <1>4, ChartsOfBook DEF FiguresAgree

-----------------------------------------------------------------------------
LEMMA InitBook == ViewsInit => Book
<1>1. Init => ExpenseNotOverReimbursed
  BY DEF Init, ExpenseNotOverReimbursed
<1> QED BY <1>1, InitStructure, InitRollup DEF ViewsInit, Book

LEMMA NextBook == Book /\ [ViewsNext]_viewVars => Book'
<1>1. ViewsNext \/ UNCHANGED viewVars => [Next]_ledgerVars
  BY DEF ViewsNext, AnchorStep, CreateAnchor, UpdateAnchor, DeleteAnchor, viewVars, ledgerVars
<1>2. Book /\ [Next]_ledgerVars => Book'
  BY NextStructure, NextRollup, NextReimbursed DEF Book
<1> QED BY <1>1, <1>2

(* The KPIs, the summary line and the sparklines of every period are what  *)
(* the transaction list adds up to, in every reachable book.               *)
THEOREM ViewsKpis == ViewsSpec => []KpisAddUp
BY InitBook, NextBook, KpisOfBook, PTL DEF ViewsSpec

(* The dialogs propose the most that upsert_allocation accepts.            *)
THEOREM ViewsSuggestion == ViewsSpec => []SuggestionIsTheMost
BY InitBook, NextBook, SuggestionOfBook, PTL DEF ViewsSpec

(* Every chart, budget and digest shows the same money as the KPIs of its  *)
(* period.                                                                 *)
THEOREM ViewsFigures == ViewsSpec => []FiguresAgree
BY InitBook, NextBook, FiguresOfBook, PTL DEF ViewsSpec
=============================================================================
