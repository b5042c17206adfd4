SPECIFICATION Spec
CONSTANTS
  TxnId = {t1, t2, t3}
  Month = {jan, feb}
  MaxCents = 2
SYMMETRY Symmetry
INVARIANTS
  TypeOK
  RollupExact
  ExpenseNotOverReimbursed
