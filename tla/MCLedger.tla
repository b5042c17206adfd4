------------------------------ MODULE MCLedger ------------------------------
(* Ledger on a small instance: three transactions, so that one            *)
(* reimbursement can pay two expenses and one expense can be paid by two.  *)
EXTENDS Ledger, TLC

Symmetry == Permutations(TxnId)
=============================================================================
