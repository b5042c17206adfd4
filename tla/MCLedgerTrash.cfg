SPECIFICATION Spec
CONSTANTS
  TxnId = {t1, t2, t3}
  Month = {jan}
  MaxCents = 1
SYMMETRY Symmetry
INVARIANT ReimbursementNotOverAllocated
