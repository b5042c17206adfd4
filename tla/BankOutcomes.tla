---------------------------- MODULE BankOutcomes ----------------------------
(***************************************************************************)
(* What bank reconciliation promises, whatever happens to the transactions *)
(* themselves: each imported statement row is open, ignored or settled by  *)
(* one transaction, no transaction settles two rows, and a row that is not *)
(* open changes only by becoming open again.  The exception is a row that  *)
(* was decided on before a commit and written after it: it is contested,   *)
(* until a call that nobody overtook writes it again.  BankReconciliation  *)
(* implements this.                                                        *)
(***************************************************************************)
CONSTANTS RowId, TxnId, Open, Ignored, Contested

VARIABLE outcome   \* imported row -> Open, Ignored, Contested or the transaction

Outcomes == TxnId \cup {Open, Ignored, Contested}

\* No transaction settles two rows.
Exclusive(o) ==
  \A q, r \in DOMAIN o : o[q] \in TxnId /\ o[q] = o[r] => q = r

\* An open row is ignored or settled, by a choice or because the transaction that
\* settled it is back from the trash; any other is reopened or loses its transaction to
\* the trash, and keeps its outcome until then.
MayBecome(old, new) ==
  \/ new = old
  \/ Open \in {old, new}
  \/ Contested \in {old, new}

Init == outcome = <<>>

\* Rows are imported, and each row follows its own course.
Next ==
  \E S \in SUBSET RowId :
    /\ DOMAIN outcome \subseteq S
    /\ outcome' \in [S -> Outcomes]
    /\ \A r \in S : IF r \in DOMAIN outcome THEN MayBecome(outcome[r], outcome'[r])
                                            ELSE outcome'[r] = Open
    /\ Exclusive(outcome')

Spec == Init /\ [][Next]_outcome
=============================================================================
