------------------------- MODULE BankReconciliation -------------------------
(***************************************************************************)
(* Bank statement rows and how each is resolved against the ledger's       *)
(* transactions (services/bank_reconciliation.py).  A row is matched to an *)
(* existing transaction, answered by a transaction created from it, or     *)
(* ignored.  A match whose transaction is in the trash does not count, and *)
(* comes back with a restore.                                              *)
(*                                                                         *)
(* Rows are identified by their import hash, so importing a statement      *)
(* again adds nothing.  Booking dates matter only through the months whose *)
(* transactions fall into the five-day match window and the order in which *)
(* a batch is worked off.  The amount of a transaction in a foreign        *)
(* currency is not in the ledger model: which transactions agree with a    *)
(* foreign row is left open.                                               *)
(*                                                                         *)
(* A call first reads (SELECTs outside a transaction) and then writes and  *)
(* commits, and no unique key guards matched_transaction_id: a call may be *)
(* overtaken by the commits of others between the two.  So each call here  *)
(* decides on a plan, from one consistent read, and the plan is written at *)
(* once or, when a client's call overlaps others, later or never.          *)
(***************************************************************************)
EXTENDS Ledger

CONSTANTS
  RowId,         \* bank statement rows that can be imported
  IncomeRow,     \* those with a positive amount
  ForeignRow,    \* those in another currency than EUR
  RowCents,      \* abs(amount_cents) of each row
  Near,          \* <<row, month>>: the month's transactions are in the window
  BookedAfter,   \* <<q, r>>: a batch works q off before r
  AccountRows,   \* the rows of each account label
  Client,        \* those whose calls may overlap the calls of others
  Null           \* no match, and an argument left out

ASSUME BankAssumption ==
  /\ {Null, "none", "ignored", "contested"} \cap TxnId = {}
  /\ RowCents \in [RowId -> Cents]
  /\ \A q, r \in RowId : q # r => <<q, r>> \in BookedAfter \/ <<r, q>> \in BookedAfter

VARIABLES
  bank,       \* bank_statement_rows: row -> match, reviewed_at, resolution
  requests,   \* client -> the call that has read and not yet written
  contested,  \* history: rows last written by a call that had been overtaken
  toast       \* the outcome the page offers to Undo, or Null

bankVars == <<txn, alloc, durable, rollup, bank, requests, contested, toast>>

Unresolved == "none"   \* resolution IS NULL

Resolution == {"matched", "created", "ignored", Unresolved}

BankStatementRow ==
  [matched : TxnId \cup {Null}, reviewed : BOOLEAN, resolution : Resolution]

OpenRow == [matched |-> Null, reviewed |-> FALSE, resolution |-> Unresolved]
IgnoredRow == [matched |-> Null, reviewed |-> TRUE, resolution |-> "ignored"]
ResolvedBy(t, res) == [matched |-> t, reviewed |-> FALSE, resolution |-> res]

UndoOffer ==
  [row : RowId, resolution : Resolution, matched : TxnId \cup {Null},
   amount : Cents \cup {Null}]

ASSUME OfferAssumption == Null \notin UndoOffer \cup Resolution

BankTypeOK ==
  /\ TypeOK
  /\ DOMAIN bank \subseteq RowId
  /\ bank \in [DOMAIN bank -> BankStatementRow]
  /\ DOMAIN requests \subseteq Client
  /\ contested \subseteq DOMAIN bank
  /\ toast \in UndoOffer \cup {Null}

-----------------------------------------------------------------------------
RowType(r) == IF r \in IncomeRow THEN "income" ELSE "expense"

MatchedToTrash(T, row) == row.matched \in DOMAIN T /\ T[row.matched].deleted

\* _is_unresolved.  Mutant: a match counts whatever became of its transaction.
IsUnresolved_TrashCounts(T, row) == ~row.reviewed /\ row.matched = Null
IsUnresolved(T, row) ==
  ~row.reviewed /\ (row.matched = Null \/ MatchedToTrash(T, row))

\* _row_conditions, view "open": the same question asked in SQL.
InOpenView(T, row) ==
  \/ row.resolution = Unresolved
  \/ MatchedToTrash(T, row)
  \/ row.resolution \in {"matched", "created"} /\ row.matched = Null

\* _reserved_transaction_ids: matches in the trash stay reserved.  Mutant: they
\* do not.
Reserved_LiveOnly(rows) ==
  {bank[r].matched : r \in {q \in rows : IsLive(txn, bank[q].matched)}}
Reserved(rows) == {bank[r].matched : r \in rows} \ {Null}

\* _candidate_transactions.  agrees holds the pairs of a foreign row and a
\* transaction entered with its amount in its currency.
Candidates(r, reserved, agrees) ==
  {t \in DOMAIN txn \ reserved :
     /\ IsLive(txn, t)
     /\ txn[t].type = RowType(r)
     /\ <<r, txn[t].month>> \in Near
     /\ IF r \in ForeignRow THEN <<r, t>> \in agrees
                            ELSE txn[t].amount = RowCents[r]}

ForeignAgreement == SUBSET (ForeignRow \X DOMAIN txn)

\* reimbursed_total_for_expense and allocated_total_for_reimbursement: only live
\* counterparts count.
LiveReimbursed(T, e) ==
  TotalAllocated(alloc, {p \in AllocationsInto(alloc, e) :
                           IsLive(T, p[1]) /\ IsReimbursement(T, p[1])})
LiveAllocated(T, r) ==
  TotalAllocated(alloc, {p \in AllocationsFrom(alloc, r) :
                           IsLive(T, p[2]) /\ IsExpense(T, p[2])})

\* _set_amount raises below what is allocated.  Trashed or not itself, only the
\* other side's being live counts.
CanSetAmount(t, a) ==
  /\ IsExpense(txn, t) => LiveReimbursed(txn, t) <= a
  /\ IsReimbursement(txn, t) => LiveAllocated(txn, t) <= a

\* What the user sees of a row.
OutcomeOf(T, row) ==
  IF IsUnresolved(T, row) THEN Unresolved
  ELSE IF row.reviewed THEN "ignored" ELSE row.matched

-----------------------------------------------------------------------------
(* Reading and writing.                                                    *)

\* What a call will write: rows of the statement and transactions, existing or new.
Plan(rows, txns) == [rows |-> rows, txns |-> txns]
RowsOnly(rows) == Plan(rows, <<>>)
One(key, value) == [k \in {key} |-> value]

Targets(p) == {p.rows[r].matched : r \in DOMAIN p.rows} \ {Null}

\* The objects as the session has loaded them.
Seen(p) ==
  [rows |-> Restrict(bank, DOMAIN p.rows),
   txns |-> Restrict(txn, DOMAIN p.txns \cap DOMAIN txn)]

\* UPDATE sets the columns that differ from what was loaded.
Merged(now, loaded, new) == IF new = loaded THEN now ELSE new

MergedRow(now, loaded, new) ==
  [matched    |-> Merged(now.matched, loaded.matched, new.matched),
   reviewed   |-> Merged(now.reviewed, loaded.reviewed, new.reviewed),
   resolution |-> Merged(now.resolution, loaded.resolution, new.resolution)]

MergedTransaction(now, loaded, new) ==
  [now EXCEPT !.amount  = Merged(@, loaded.amount, new.amount),
              !.deleted = Merged(@, loaded.deleted, new.deleted)]

\* The months _set_amount, TransactionService.restore, soft_delete and create
\* recompute.
TouchedMonths(p, seen) ==
  {p.txns[t].month : t \in DOMAIN p.txns}
    \cup ExpenseMonths(txn, alloc,
           {t \in DOMAIN seen.txns : /\ IsReimbursement(seen.txns, t)
                                     /\ p.txns[t].deleted # seen.txns[t].deleted})

\* The foreign key wants the matched transaction, an UPDATE its row, an INSERT a
\* free id.
CanWrite(p, seen) ==
  /\ Targets(p) \subseteq DOMAIN txn \cup DOMAIN p.txns
  /\ DOMAIN p.txns \cap DOMAIN txn = DOMAIN seen.txns

\* flush and commit
Flush(p, seen) ==
  /\ bank' = [r \in DOMAIN bank |->
                IF r \in DOMAIN p.rows
                  THEN MergedRow(bank[r], seen.rows[r], p.rows[r]) ELSE bank[r]]
  /\ txn' = [t \in DOMAIN txn \cup DOMAIN p.txns |->
               IF t \notin DOMAIN p.txns THEN txn[t]
               ELSE IF t \in DOMAIN seen.txns
                      THEN MergedTransaction(txn[t], seen.txns[t], p.txns[t])
                      ELSE p.txns[t]]
  /\ UNCHANGED <<alloc, durable>>
  /\ RecomputeMonths(TouchedMonths(p, seen))

Request(p, seen, late) == [plan |-> p, seen |-> seen, late |-> late]

\* A commit overtakes a waiting call when it changes a row the call is about to
\* write, or gives one of the call's transactions to another row.
Overtaken(p) ==
  \/ \E r \in DOMAIN p.rows : \/ bank'[r] # bank[r]
                              \/ OutcomeOf(txn', bank'[r]) # OutcomeOf(txn, bank[r])
  \/ \E q \in DOMAIN bank \ DOMAIN p.rows : bank'[q].matched \in Targets(p)

Committed(waiting) ==
  requests' = [c \in waiting |->
                 LET req == requests[c]
                 IN Request(req.plan, req.seen, req.late \/ Overtaken(req.plan))]

\* The rest of every call: its commit follows its reads, or its client waits.
Decide(p) ==
  \/ /\ Flush(p, Seen(p))
     /\ contested' = contested \ DOMAIN p.rows
     /\ Committed(DOMAIN requests)
  \/ \E c \in Client \ DOMAIN requests :
       /\ requests' = [d \in DOMAIN requests \cup {c} |->
                         IF d = c THEN Request(p, Seen(p), FALSE) ELSE requests[d]]
       /\ UNCHANGED <<ledgerVars, bank, contested>>

\* The commit of a call that waited.
Write(c) ==
  LET req == requests[c]
  IN /\ CanWrite(req.plan, req.seen)
     /\ Flush(req.plan, req.seen)
     /\ contested' = IF req.late THEN contested \cup DOMAIN req.plan.rows
                                 ELSE contested \ DOMAIN req.plan.rows
     /\ Committed(DOMAIN requests \ {c})

\* A constraint fails, the database stays locked, or the process stops.
Fail(c) ==
  /\ requests' = Restrict(requests, DOMAIN requests \ {c})
  /\ UNCHANGED <<ledgerVars, bank, contested>>

-----------------------------------------------------------------------------
\* import_commerzbank_csv: rows whose hash is known are skipped; the unique key on
\* the hash makes the later of two overlapping imports fail.
ImportStatement(S) ==
  /\ S # {}
  /\ bank' = [r \in DOMAIN bank \cup S |-> IF r \in DOMAIN bank THEN bank[r] ELSE OpenRow]
  /\ UNCHANGED <<ledgerVars, requests, contested>>

\* accept_suggestion
AcceptSuggestion(r, agrees) ==
  /\ IsUnresolved(txn, bank[r])
  /\ \E t \in DOMAIN txn :
       /\ Candidates(r, Reserved(DOMAIN bank \ {r}), agrees) = {t}
       /\ Decide(RowsOnly(One(r, ResolvedBy(t, "matched"))))

\* What the loop of accept_suggestions has reserved when it reaches r: all matches
\* on entry, this row's own trashed one included, and those it just made.  Mutant:
\* the ones it just made are forgotten.
ReservedSoFar_OnEntry(accepted, r) == Reserved(DOMAIN bank)
ReservedSoFar(accepted, r) ==
  Reserved(DOMAIN bank) \cup
    {accepted[q] : q \in {s \in DOMAIN accepted : <<s, r>> \in BookedAfter}}

\* Mutant: the batch takes rows that were resolved since the page was loaded.
Acceptable_Stale(S) == S
Acceptable(S) == {r \in S : IsUnresolved(txn, bank[r])}

\* accept_suggestions: in booking order, each unresolved row with exactly one
\* candidate is matched to it.
AcceptSuggestions(S, agrees) ==
  \E D \in SUBSET Acceptable(S) : \E accepted \in [D -> DOMAIN txn] :
    /\ \A r \in Acceptable(S) :
         LET found == Candidates(r, ReservedSoFar(accepted, r), agrees)
         IN IF r \in D THEN found = {accepted[r]} ELSE Cardinality(found) # 1
    /\ Decide(RowsOnly([r \in D |-> ResolvedBy(accepted[r], "matched")]))

\* match_transaction: a trashed transaction is accepted, and restored, when the
\* match undoes the reopening of a created row.
MatchTransaction(r, t, update, res) ==
  LET matched == [txn[t] EXCEPT !.deleted = FALSE,
                                !.amount = IF update THEN RowCents[r] ELSE @]
  IN /\ IsUnresolved(txn, bank[r])
     /\ txn[t].deleted => res = "created"
     /\ txn[t].type = RowType(r)
     /\ t \notin Reserved(DOMAIN bank \ {r})
     /\ update => r \notin ForeignRow /\ CanSetAmount(t, RowCents[r])
     /\ Decide(Plan(One(r, ResolvedBy(t, res)),
                    [u \in {v \in {t} : update \/ txn[v].deleted} |-> matched]))

\* create_transaction: from the row, with the date the user may have changed.
CreateFromRow(r, t, m) ==
  /\ IsUnresolved(txn, bank[r])
  /\ t \notin DOMAIN txn
  /\ Decide(Plan(One(r, ResolvedBy(t, "created")),
                 One(t, NewRow(RowType(r), FALSE, RowCents[r], m))))

Ignore(r) ==
  /\ IsUnresolved(txn, bank[r])
  /\ Decide(RowsOnly(One(r, IgnoredRow)))

\* ignore_open: every row of the open view, of one account or of all.  Mutant: the
\* view is the one of the page the user looks at, not of now.
OpenRows_Stale(A) == DOMAIN bank \cap A
OpenRows(A) == {r \in DOMAIN bank \cap A : InOpenView(txn, bank[r])}

IgnoreOpen(A) == Decide(RowsOnly([r \in OpenRows(A) |-> IgnoredRow]))

\* The outcome a caller names is still the row's; an argument left out names any.
\* Mutant: any outcome is reopened.
StillNamed_Any(r, resolution, matched) == TRUE
StillNamed(r, resolution, matched) ==
  resolution \in {Null, bank[r].resolution} /\ matched \in {Null, bank[r].matched}

\* _reopen_row: optionally puts back the amount the match replaced and trashes the
\* transaction the row created.
Reopen(r, trash, resolution, matched, amount) ==
  LET row     == bank[r]
      t       == row.matched
      restore == amount # Null /\ t # Null /\ txn[t].amount = RowCents[r]
      trashed == trash /\ row.resolution = "created" /\ t # Null /\ ~txn[t].deleted
      changed == {u \in {t} : restore \/ trashed}
  IN /\ StillNamed(r, resolution, matched)
     /\ restore => CanSetAmount(t, amount)
     /\ Decide(Plan(One(r, OpenRow),
                    [u \in changed |->
                       [txn[u] EXCEPT !.amount = IF restore THEN amount ELSE @,
                                      !.deleted = @ \/ trashed]]))

\* reopen_many: an Undo of a batch, for rows that still have its outcome.
ReopenMany(S) ==
  /\ \A r \in S : bank[r].resolution \in {"matched", "ignored"}
  /\ Decide(RowsOnly([r \in S |-> OpenRow]))

\* The page confirms an outcome and offers to take it back; the amount is the one
\* that setting the bank's amount replaced.
Offer(r, amount) ==
  /\ bank[r].resolution # Unresolved
  /\ bank[r].matched = Null <=> bank[r].resolution = "ignored"
  /\ amount # Null => bank[r].resolution = "matched"
  /\ toast' = [row |-> r, resolution |-> bank[r].resolution,
               matched |-> bank[r].matched, amount |-> amount]
  /\ UNCHANGED <<ledgerVars, bank, requests, contested>>

\* Its button names that outcome, whatever became of the row since.
Undo ==
  /\ toast # Null
  /\ Reopen(toast.row, toast.resolution = "created", toast.resolution, toast.matched,
            toast.amount)
  /\ toast' = Null

\* The foreign key of matched_transaction_id: ON DELETE SET NULL.
Unlinked(row) ==
  IF row.matched \in DOMAIN txn \ DOMAIN txn' THEN [row EXCEPT !.matched = Null] ELSE row

-----------------------------------------------------------------------------
BankInit ==
  /\ Init
  /\ bank = <<>> /\ requests = <<>> /\ contested = {} /\ toast = Null

LedgerCall ==
  /\ Next
  /\ bank' = [r \in DOMAIN bank |-> Unlinked(bank[r])]
  /\ Committed(DOMAIN requests)
  /\ UNCHANGED contested

\* Naming the outcome only refuses more: that is Undo.
BankCall ==
  \/ \E S \in SUBSET RowId : ImportStatement(S)
  \/ \E r \in DOMAIN bank, agrees \in ForeignAgreement : AcceptSuggestion(r, agrees)
  \/ \E S \in SUBSET DOMAIN bank, agrees \in ForeignAgreement : AcceptSuggestions(S, agrees)
  \/ \E r \in DOMAIN bank, t \in DOMAIN txn, update \in BOOLEAN,
        res \in {"matched", "created"} : MatchTransaction(r, t, update, res)
  \/ \E r \in DOMAIN bank, t \in TxnId, m \in Month : CreateFromRow(r, t, m)
  \/ \E r \in DOMAIN bank : Ignore(r)
  \/ \E A \in AccountRows \cup {RowId} : IgnoreOpen(A)
  \/ \E r \in DOMAIN bank, trash \in BOOLEAN, amount \in Cents \cup {Null} :
        Reopen(r, trash, Null, Null, amount)
  \/ \E S \in SUBSET DOMAIN bank : ReopenMany(S)

BankNext ==
  \/ LedgerCall /\ UNCHANGED toast
  \/ BankCall /\ UNCHANGED toast
  \/ \E c \in DOMAIN requests : Write(c) /\ UNCHANGED toast
  \/ \E c \in DOMAIN requests : Fail(c) /\ UNCHANGED toast
  \/ \E r \in DOMAIN bank, amount \in Cents \cup {Null} : Offer(r, amount)
  \/ Undo

BankSpec == BankInit /\ [][BankNext]_bankVars

-----------------------------------------------------------------------------
(* Properties.  That RollupExact survives the calls that write             *)
(* transactions behind Ledger's back is proved in BankProofs.              *)

\* A transaction answers two rows of the statement, trashed or not, only when one of
\* them was written by a call that had been overtaken: the database has no unique key
\* on matched_transaction_id, each call reads the reserved ids itself.
OneRowPerTransaction ==
  \A q, r \in DOMAIN bank :
    bank[q].matched # Null /\ bank[q].matched = bank[r].matched
      => q = r \/ {q, r} \cap contested # {}

\* The list of open rows (SQL) and the guard of every resolving call (Python) agree on
\* every row that no overtaken call left half written: nothing in the list is refused,
\* and ignoring the whole list touches no resolved row.
OpenViewIsUnresolved ==
  \A r \in DOMAIN bank \ contested :
    InOpenView(txn, bank[r]) <=> IsUnresolved(txn, bank[r])

\* A match never points at a transaction that is gone, and a row counts as matched
\* or created exactly when it names one or lost it to a purge.
MatchesExist ==
  \A r \in DOMAIN bank :
    /\ bank[r].matched \in DOMAIN txn \cup {Null}
    /\ r \notin contested =>
         /\ bank[r].matched # Null => bank[r].resolution \in {"matched", "created"}
         /\ bank[r].reviewed <=> bank[r].resolution = "ignored"

Contested == "contested"

Outcome ==
  [r \in DOMAIN bank |-> IF r \in contested THEN Contested ELSE OutcomeOf(txn, bank[r])]

Outcomes == INSTANCE BankOutcomes
              WITH outcome <- Outcome, Open <- Unresolved, Ignored <- "ignored"

\* The Undo of an outcome takes back that outcome and no other, also when it comes late:
\* it touches no other row and no transaction but the match, that one's amount only while
\* it is the bank's, and trashes it only when the row created it.
UndoStep ==
  toast # Null /\ toast' = Null =>
    /\ bank[toast.row].resolution = toast.resolution
    /\ toast.matched \in {bank[toast.row].matched, Null}
    /\ \A q \in DOMAIN bank \ {toast.row} : bank'[q] = bank[q]
    /\ \A t \in DOMAIN txn :
         /\ t # toast.matched => txn'[t] = txn[t]
         /\ txn'[t].amount # txn[t].amount => txn[t].amount = RowCents[toast.row]
         /\ txn'[t].deleted # txn[t].deleted => toast.resolution = "created"

UndoTakesBackItsOwn == [][UndoStep]_bankVars

\* Reconciliation implements its abstract promise: no call, batch, trash or restore
\* replaces the outcome of a resolved row, no transaction settles two rows, and an
\* Undo takes back its own outcome.
OutcomeSpec == Outcomes!Spec /\ UndoTakesBackItsOwn
=============================================================================
