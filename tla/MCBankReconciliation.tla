------------------------ MODULE MCBankReconciliation ------------------------
(* Two transactions in one month; two expense rows, one of them in a       *)
(* foreign currency, compete for them.  One client's calls overlap those   *)
(* of the others.                                                          *)
EXTENDS BankReconciliation, TLC

CONSTANTS euro, foreign, jan

MCRowCents == (euro :> 1) @@ (foreign :> 1)
MCNear == {euro, foreign} \X {jan}
MCBookedAfter == {<<euro, foreign>>}
MCAccountRows == {{euro}, {foreign}}
Symmetry == Permutations(TxnId)

\* The bounds: every transaction is an expense and none a durable purchase; an Undo is
\* on offer or a call waits, not both, and neither once a row is contested.
Bounds ==
  /\ durable = {}
  /\ \A t \in DOMAIN txn : txn[t].type = "expense"
  /\ contested = {} \/ (toast = Null /\ requests = <<>>)
  /\ toast = Null \/ requests = <<>>

\* An overtaken call writes or fails next.
OvertakenEnds ==
  (\E c \in DOMAIN requests : requests[c].late) => DOMAIN requests' # DOMAIN requests
=============================================================================
