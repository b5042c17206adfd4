# Verification of Expenses

Expenses is a self-hosted personal finance application: a FastAPI service over
SQLite (`src/src/expenses`), a React client (`src/ui`) and an iOS client
(`src/ios`). This directory holds TLA+ models of the parts of the service where
something can go wrong that a unit test would hardly reach, the TLC runs that
check them on small instances, and TLAPS proofs of what should hold for every
size.

Paths below are relative to `src/src/expenses` unless they begin with `src/`.
`PROJECT.json` maps every definition to the lines it models.

Contents: [the system](#the-system) · [modules](#modules-and-how-they-follow-the-code) ·
[runs](#runs) · [fairness](#fairness) · [proofs](#proofs) ·
[what the models say about the code](#what-the-models-say-about-the-code) ·
[not modelled](#what-is-not-modelled) · [plan](#plan)

## The system

Every user's data is separate, so all models are of one user. A request is
handled by one service call in one SQLAlchemy session; SQLite has one writer at
a time, and the sessions do not begin a transaction before their first write,
so what a call reads before that write can be out of date when it writes.

| Component | State | Operations | What makes it correct | Hard because |
|---|---|---|---|---|
| **Ledger** `services/main.py`, `services/rollups.py` | `transactions` (with a trash), `reimbursement_allocations`, `durable_purchases`, `monthly_rollups` | create, CSV import, update, trash, restore, purge, set reimbursement, allocate, durable tracking, rebuild | the stored monthly totals equal the recomputed ones; allocations join a reimbursement and an expense and never exceed the expense | each handler names the months it touched by hand; rows disappear into the trash and come back |
| **Bank reconciliation** `services/bank_reconciliation.py` | `bank_statement_rows`: match, reviewed, resolution | import, accept suggestion(s), match, create, ignore, ignore all open, reopen, undo | a transaction answers one row; a resolved row is never resolved again without being reopened; an Undo takes back its own outcome; the open list and the guards agree | the checks are reads outside a transaction and no unique key backs them; the matched transaction is edited, trashed, restored and purged by others |
| **Recurring engine** `recurrence/engine.py`, `recurrence/scheduling.py` | `recurring_rules.next_occurrence`, posted rows, cached rates | catch-up runs at boot, hourly, nightly and on demand; rule edits | no occurrence skipped, none posted twice, every one posted in the end | runs in threads with sessions of their own overlap with each other and with edits; savepoints commit piecemeal; a second connection commits in between |
| **Recurrence dates** `recurrence/engine.py` | the rule's schedule and its next date | step to the next date, edit | dates advance, keep to the day asked for, one per period, on workdays | the next date comes from the last alone: clamping, weekends and edits are carried on |
| **Exchange rates** `infra/fx_rates.py` | `fx_quote_cache` | fetch and store | a stored rate does not cost an occurrence | stored through a second connection inside a run |
| **Budgets** `services/main.py` (`BudgetService`), `ai/assistant_actions.py` | `budget_templates`, `budget_overrides` | upsert, apply onward, override, delete, category merge, planned change and its undo | an amount set onward changes the months it should and no others; a plan applies to what was shown; undo gives back | templates overlap and nest; a plan is approved long after it was made |
| **Assistant** `ai/assistant.py`, `ai/assistant_actions.py` | `assistant_chats`, `assistant_turns`, `assistant_actions` | ask, retry, approve, dismiss, undo, delete, prune; background turns | a change is made once if approved and never otherwise; a deleted chat stays deleted; the model's history is well-formed | requests read before they write; a turn runs for seconds and is saved from an old copy |
| **Assistant's plans** `ai/assistant_actions.py` | a card's stored plan and its stored inverse | propose, apply, undo of edits, trash, allocations, archiving, renaming, creating, ending | an approval overwrites nothing the user entered since; an undo gives back what was | a plan is approved long after it was shown |
| **Categories, tags, rules, templates, ingest** `services/main.py` | `categories`, `tags`, `rules`, `transaction_templates` | create, rename, archive, restore, merge, delete, sort a new transaction, ingest | names stay unique; a merge moves everything and sticks; what a user picked, rejected or deleted stays so | names kept as JSON in rules; ingest commits a category before the transaction; guesses become training data |
| **Receipts** `services/main.py`, `api/routes.py` | `receipt_attachments`, files, thumbnails | upload, replace, delete, thumbnail, purge | a row has its file, a file its row, a thumbnail its receipt | files and rows cannot commit together; ids are reused; two requests overlap |
| **Sign-in** `auth/`, `api/routes.py` | users, browser sessions, device sessions, ingest tokens, the throttle | set up, sign up, sign in, use, expire, elevate, sign out, revoke | one administrator; a closed token stays closed; an elevation was proved | verifying a password takes long; a device has one session under new tokens |
| **AI suggestions** `ai/service.py` | `ai_suggestions`, rule proposals, jobs | triage, accept, reject, mine, accept a rule, clear | a suggestion is the answer to the transaction it names, applied once | the model answers after seconds; accepting takes two commits |
| **Automatic categories** `services/auto_categorization.py`, `services/category_model.py` | preference with a model, a parsed model in memory | switch on, train, use | a model called ready is there and of the rows it names | training spans two sessions and minutes |
| **Views** `services/main.py` (metrics, insights, reports, digests, balances) | `balance_anchors` | sum up | every screen shows the same money | each figure is a query of its own, put together from rollups, rows and anchors |
| **Forecast** `services/main.py` | none | project, scenario | each coming occurrence once; effects add up | one pointer per rule carried from month to month |
| **Exports, importers, routes, schemas, configuration, CLI, clients** | none of their own | validate, format | - | - |

Interactions. Bank reconciliation, the recurring engine, ingest, CSV import and
the assistant's plans all write transactions, some of them through
`TransactionService` and some behind its back. Category merges rewrite
transactions, rules and budgets. The scheduler starts recurring runs and
prunes old chats beside requests. The assistant applies plans through the services.
Most handlers commit everything they write at once; what interleaves is therefore
*calls* for the ledger, budgets and the catalog, *savepoints* for the
recurring engine, *commits and files* for receipts, suggestions and training, and
*reads and writes* for the bank, the assistant and sign-ins.

`PROJECT.json` lists each hazard at its line with the properties that watch it.

## Modules and how they follow the code

```
 Ledger <-- BankReconciliation   AssistantChat     Access        Schedule <-- Forecast
    ^             |  implements  |  implements    |  implements
  Views      BankOutcomes   ActionLifecycle    TokenLife

 RecurringRules   Budgets   Plans   Catalog   Receipts   Suggestions   Training
```

Proofs are in modules of their own, each of which extends the module it is about:
`BankProofs` (the ledger, bank reconciliation and what the screens show), `RecurringProofs` (catch-up runs and
the dates of a schedule), `AssistantProofs` (the chat, and the cards' plans as `MCAssistant`
instantiates them), `BudgetsProofs`, `CatalogProofs` (the catalog,
and the receipts as `MCCatalog` instantiates them), `AccessProofs` and `SuggestionsProofs`
(suggestions, and training as `MCSuggestions` instantiates it); what they need of
sums and of least and greatest numbers is in `DataLemmas`.

`MC*` modules give constants for TLC. In every module a row that does not exist
is outside the domain of its table, which is a partial function from keys to
rows; a call that raises rolls back, so the conditions under which the code
raises are guards; and a comment marked *Mutant* introduces a variant of the
next definition with a plausible bug in it, which must break a property (the
table of mutants is in `PROJECT.json`).

### Ledger

| TLA+ | code |
|---|---|
| `txn`, `alloc`, `durable`, `rollup` | the four tables; `deleted_at` is a flag, the date its month |
| `Create`, `Update`, `SoftDelete`, `RestoreFromTrash`, `PermanentDelete` | `TransactionService`, single and bulk; the administrator's purge is `PermanentDelete` of old trash |
| `ImportCsv` | `CSVService.commit` |
| `SetReimbursement`, `UpsertAllocation`, `DeleteAllocation` | `ReimbursementService` |
| `UpsertDurable`, `DeleteDurable`, `RebuildRollups` | `DurablePurchaseService`, the rebuild |
| `MonthTotals`, `RecomputeMonths` | `recompute_monthly_rollup` on the months the handler names |

One action is one whole call, rollup recomputation included: `RecomputeMonths`
takes the months *the handler names*, so a forgotten month shows. Foreign keys
(`ON DELETE CASCADE` of allocations and durable purchases) are part of
`PermanentDelete`. A rollup row that the code deletes because it is all zero is
a record of zeros. Amounts are natural numbers up to `MaxCents`.

### BankReconciliation, BankOutcomes

`BankReconciliation` extends `Ledger`: `LedgerCall` is any ledger call with
what the foreign key `matched_transaction_id ... ON DELETE SET NULL` does to
the bank rows; the bank's calls write the ledger's tables where the code does
(`CreateFromRow` a new transaction; `MatchTransaction` may restore from the trash and take
the bank's amount over; `Reopen` may put the old amount back and trash what the row created).

A bank call checks by SELECTs outside a transaction that the row is open and the transaction
not reserved, and nothing in the database enforces it afterwards. So a call decides on
a `Plan`, from one consistent read, and `Decide` leaves open when it is written: at once, or
by a client whose call others overlap, later (`Write`) or never (`Fail`). `Flush` sets the
columns that differ from what was read (`MergedRow`, `MergedTransaction`), so what lies
between may survive or not. A call is *overtaken* when, while it waits, a commit changes
one of its rows or gives one of its transactions to another row (`Overtaken`), and `contested`
are the rows such a call wrote, until a call nobody overtook writes them again. The two
promises about matches are therefore: a transaction answers two rows, and a row's list and
guard disagree, only where an overtaken call wrote. What several SELECTs of one call may see
of commits between *them* is not modelled: such a call also counts as one that read early
or late. `ImportStatement` is one step, as its unique hash refuses the
later of two imports; a row is known by that hash, so importing a file twice
adds nothing.

`toast` is the outcome the page last offered to take back (`Offer`); `Undo` sends the
arguments of that offer, however late, and `StillNamed` is how the service compares
them with the row. `AcceptSuggestions` is the loop over a batch: what it has reserved
when it reaches a row includes the matches it just made. Which transactions
agree with a row in a foreign currency is left open (`agrees`), because the
ledger model has no currencies.

`BankOutcomes` is the promise to the user: each row is open, ignored or settled
by one transaction; no two rows by the same; and a row that is not open changes
only by becoming open. A contested row is outside of it until it is decided on again. `OutcomeSpec`
is the refinement, where a row whose transaction is in the trash counts as open, together
with what the abstract level cannot say: an `Undo` takes back exactly the outcome it was offered
for (`UndoTakesBackItsOwn`), so one that comes late, after the row was reopened and
decided on otherwise, changes nothing.

### RecurringRules

Catch-up runs at the granularity SQLite gives them, which the module's header
explains: outside a transaction a savepoint's release commits; a transaction
that has read is refused its first write once another connection has committed
(`stale`); and from the flush of an advanced `next_occurrence` on, a run holds the
write lock, so the rest of it is one step (`RunRest`). Between the exists query
and the insert anything may happen. `FetchQuote` stores a rate through a
connection of its own, which overtakes the run's own snapshot. `Crash` loses a
run at any point. `read` keeps what a run found stored as each rule's next occurrence: the
property that none is skipped ranges from there, so the first date a run tries, the one that a
failed fetch or a refused insert hits, is among them. A rule deleted during the run leaves `read`:
its id may be given to another. Users create, edit, pause and delete rules and move posted
rows to the trash, back, or out of it. A date is a day number and a rule posts
daily.

### Schedule

`calculate_next_date`, with `_add_months`, the three month-day policies and
the weekend nudge, iterated as `catch_up_rule` and the previews iterate it,
with the edits of a rule in between (`Update` keeps the next occurrence unless
the start moves past it). A date is a day number; the calendar is the constant
`FirstDay`, and the assumption on it is what the properties need of a calendar:
months of 28 to 31 days, never two short ones in a row.

### Budgets

Templates with a start and an inclusive end, overrides of one month, the budget
in effect, and every call that changes them, merges of two categories included.
What the assistant proposes is `plan`: `Propose` stores the rows of the scope,
`Apply` is refused unless they are still the same, `Undo` unless the rows are
those the change left. Dates are first-of-month or later-in-month, because
`effective_budgets_for_month` looks at nothing else.

### AssistantChat, ActionLifecycle

A client (a browser window or a phone) has one request or turn under way. What
a request reads and what it then writes are separate steps (`Ask` /
`DismissPending`, `Decide` / `ClaimAndDecide`), because nothing locks what it
read; from its first write to its commit it holds the write lock, so that is
one step. A turn runs from a copy (`StartRun`) and is saved later in one commit
(`FinishRun`, `_save_turn` and `_run_turn`). The model's answer is any set of
tool calls, whose ids may repeat those of earlier turns. What a change does is
reduced to whether it was made (`effects`): the content of budget plans is in
`Budgets`.

`ActionLifecycle` is the abstract life of a change: proposed, then decided at
most once, made exactly when approved, undone at most once by an approved undo.

### Catalog

| TLA+ | code |
|---|---|
| `categories`, `tags`, `rules`, `templates`, `txns`, `model` | the tables, and what the local model predicts for a title |
| `CreateCategory` … `MergeCategories`, `CreateTag` … `MergeTags` | `CategoryService`, `TagService` |
| `SaveRule`, `ToggleRule`, `DeleteRule`, `Matching`, `Classify` | `RuleService` and its use in `TransactionService.create` |
| `Create`, `Update`, `BulkCategory`, `BulkTags`, `PostRecurring` | what sorts or re-sorts a transaction |
| `Ingest` | `IngestService.ingest_expense` |
| `Dismiss`, `Train`, `Suggested`, `TrainingRows` | `auto_categorization.py`: what a user rejects, what trains, what is offered |

A name stands for all its spellings, as lookups ignore case. Rules keep the
*names* of the tags they add and transactions their *ids*, which is why
renaming, merging and deleting a tag differ. `seen` remembers what users did, so that
a property can say that it still stands.

### Receipts

A receipt is a row, a file under a fresh key and a thumbnail under the row's id.
An upload is `BeginUpload` (the checks), `WriteFile`, `CommitUpload`; a deletion
`BeginDelete`, one step for each file, `Finish`; a purge takes the database's lock
first. `NewId` gives the id of a deleted last row away again, as SQLite does
without AUTOINCREMENT. `Stop` ends everything under way. `slips` records the orders of events for which
the properties make an exception, each one described below.

### Access, TokenLife

A sign-in, an elevation and the first set-up read first and write after a slow
password check, so they are several steps (`BeginLogin`, `Fail` or `LoginWeb`;
`BeginElevation`, `Elevate`; `ReadDevice`, `WriteDevice`); every other request
is one. An update writes the columns that differ from what was read, as SQLAlchemy
does (`Reissued`). The throttle is `failures` with `Recent`, `Refused` and
`Evicted`. `Tick` is the clock. `TokenLife` is the promise: a token is handed out once, opens
something until it is closed, and is never accepted again.

### Suggestions, Training

`Suggestions` follows a model call from `BeginTriage` or `BeginMining` over
`Answers` or `CallFails` to `CheckAnswer` and the store, and an acceptance over
its two commits (`Apply`, `MarkAccepted`; `CreateRule`, `MarkAccepted`), while
transactions are edited, features are switched and the process stops.
`ClearOldTraces` is the daily job that ends jobs a stop left running. `Training`
is `train_user` with its two sessions (`BeginTraining`, `EndTraining` or
`FailTraining`), next to `Save`, hourly `TrainDueUsers`, readers of the cache
and stops. Data are versions: a model is the version it was fitted to.

### Plans

`book` is the user's data, one record per row, and `cards` what the assistant
proposed. A plan names for each row the fields the approval will check
(`before`) and write (`after`); `Fits` is what `apply_action` checks for each
kind, `Applied` what it writes, `UndoOf` the stored inverse. `ProposeEdit`,
`ProposeTrash`, `ProposeCreate`, `ProposeArchive`, `ProposeRename`,
`ProposeEnd`, `ProposeAllocate` and `ProposeUndo` build plans as the tools do; `User`
actions are the user's own edits in between. Each card remembers the data when it was proposed
(`seen`), before (`was`) and after it was applied (`left`). `DataOK` says what data a
user can have: rows well formed, names of live categories apart, an income with allocations
marked, no expense covered beyond its amount.

### Views

`Views` extends `Ledger`: the book is the ledger's, the days, categories and
tags of its rows are constants, and each screen is an operator that selects rows, groups
them and sums, with the floor at zero where the code has it. `KpiFigures`
puts rows and rollups together as `kpis` does; `BalancesAsOf` moves its one pointer
over the anchors; `ShareOn` and `DurableSpread` spread a purchase; the charts, the month grid,
the flow diagram, budgets, the digest and reports follow. The actions are the ledger's
and those of balance anchors. The properties compare screens with each other
and with a definition by addition (`Listed`) or by a walk through time (`WalkedBalance`).

Lists that the code cuts are cut: `Largest` keeps the first `limit` in the order of the query's
sort, ties in the order of the rows (`Place`). The limits are constants: 8 for
`CategoryBreakdown` (the dashboard's ring alone asks for all, and incomes are never cut; the
percentages are of the total before the cut), 12 for `TopTags`, 8 for each side of
`ExpenseCategoryDeltas`, 5 for the digest's categories. What is claimed of a cut list is not
that it adds up but that it is right as far as it goes and leaves out nothing larger (`ShowsMost`);
the sums are claimed of what is uncut.

### Forecast

`Forecast` extends `Schedule`: `Project` walks every rule with one pointer that
each month takes over from the one before (`Walked`, `Charged`), adds the
estimates and the single events, and follows the balance by the day
(`Running`); `Deltas` is a scenario. What two modifications of different things do adds up exactly,
but for two categories' estimates: the current month's are added up before they are rounded, so
their joint effect may be up to two cents from the sum (`Besides`), the same in every month of the
running total. The properties hold at every
state of the schedule, edits included, so a forecast is made from whatever next
occurrence a rule can have.

## Runs

| Run | Question | Bounds and why they are enough |
|---|---|---|
| `ledger` | Do the stored totals stay exact and expenses within what they cost? | Three transactions are a reimbursement and two expenses, or two of one; two months let a row move; two cents let an amount be split. |
| `ledger_trash` (violation) | Can a reimbursement be handed out twice? | One month and one cent suffice. |
| `bank` | Do each row keep one outcome and each transaction one row unless calls overlap, do the two ways to ask whether a row is open agree, and does a late Undo take back only its own? | Two expense rows (one foreign, without an amount check) compete for two transactions; batches of any subset; one client's call waits while any others commit, so two overlapping calls decide and write in every order. Nothing follows an overtaken call but its end (`OvertakenEnds`); a toast, a waiting call and a contested row are not combined, other than contested rows with each other (`Bounds`), as each is looked at by itself. |
| `recurring` | Is an occurrence ever skipped or posted twice, and is each posted in the end? | Two runs, two days, a rule in euros and one in dollars with one edit or crash; a dollar rule alone with two. Fetches and inserts fail on the first date of a run and on later ones. |
| `recurring_start` (violation) | Is a moved start respected? | One run, one edit, three days. |
| `assistant` | Are changes made as decided, in windows that know nothing of each other, and do plans apply to what was shown and undo what they did? | Two turns, two calls whose ids repeat, one window with three changes, or two windows with two of them, in one turn or one in each. Two cards, the second of which may undo the first, one change of the user's, over each group of rows in turn. |
| `schedule` | Do dates keep to the rule, and do forecasts count them once? | Seven years with two leap years; units, policies and weekends, from 31 and 26 January and 29 February; one edit at any time. Forecasts two months ahead from February 2024, with the next date ahead, due or overdue; scenarios of one or two changes of every kind, two categories' estimates at once included. |
| `budgets` | Do onward changes, merges, plans and undos do what they say? | Two scopes, four months, templates that start and end inside and outside of them; three requests. |
| `catalog` | Do names, decisions and merges stand, and do receipts and files keep together? | Five categories, two tags, one title, three transactions and three requests, from a sorted and an unsorted expense with and without a rule and a model. One receipt allowed and three uploads by two requests, so the limit is passed and an id given away again. |
| `access` | One administrator, closed tokens, proved elevations, a throttle that holds? | Two requests at once, two names and one device, one failure allowed and remembered for one name; the clock outlives elevations and device sessions. |
| `suggestions` | Does what is stored and applied fit the transaction, and does work end? | Two requests, one transaction edited twice, two jobs, one proposal; three versions of the data, one too small to learn from, two trainings, one stop. |
| `views` | Do all screens show the same money? | Four transactions of every kind over three months of two days, so a period may begin and end at a month's seam, inside one, or span a full one; every period and tag; two anchors on any instant. Two categories and two tags with every limit 1, so that each list is cut. |

Bounds are constants or guards marked *BOUND*. A run of several parts (the
`MC*` modules' `part`) chooses one in its initial state; the parts share no variable, and the run
is the union of their state spaces. Symmetry is only over sets that no property and no
constant tells apart; `recurring`, which checks liveness under fairness, and `suggestions`
use none. Deadlock is not checked where the bounds let a model stop.

Every property has a mutant in `PROJECT.json`: a variant of a mapped
definition with a plausible bug, under which the same run finds the property violated.

## Fairness

Two runs check liveness, `recurring` and `suggestions`.

- `EventuallyCaughtUp`: weak fairness of each run's steps, because the hourly job starts
  again and a thread that has begun goes on, and strong fairness of `FetchQuote`,
  because a provider that is asked again and again answers some time. Crashes and
  users need not stop; nothing forces them.
- `WorkEnds` for jobs: weak fairness of the end of a model call (clients have time-outs),
  of the days that pass, and of the daily job.
- `WorkEnds` for training: weak fairness of the hourly job and of the thread that trains.

Everything else is safety and uses no fairness.

## Proofs

TLAPS proves the following for every value of the constants that the modules'
assumptions admit: any finite number of transactions, rows, windows or templates.

| Theorem | For every instance | Argument |
|---|---|---|
| `LedgerType`, `LedgerAllocationEndpoints` | rows are well-formed; an allocation joins a reimbursement and an expense | `Structure` is inductive by itself: a purge cascades, a type change with allocations is refused |
| `LedgerRollupExact` | the stored totals equal the recomputed | `RecomputeExact` for the months a handler names; for the others `TotalsUnchanged`: a month's totals are sums over its rows, and none of them changed |
| `LedgerExpenseNotOverReimbursed` | an expense's allocations never exceed it | `FewerAllocations` and `OneAllocation`: a sum over a smaller set is no larger, and replacing one term moves it by the difference |
| `BankMatchesExist`, `BankOneRow`, `BankOpenView` | matches exist; a transaction answers one row, and the list and the guard agree, except where an overtaken call wrote; for any number of clients whose calls overlap | `BankInv` adds that a resolution agrees with its match, and `WaitingOK`: what a waiting call that nobody overtook believed of its rows and transactions is still true, so that writing it now is as good as deciding now; what a ledger call can do to rows is `LedgerCallFacts`; batches by what is reserved when each row is reached |
| `BankImplementsOutcomes` | reconciliation implements `BankOutcomes`, and an Undo takes back its own outcome | each decision, late write and ledger call maps to a step in which every row follows its own course |
| `ChangesAppliedOnce`, `ChatImplementsLifecycle` | a change is made once if approved and never otherwise | `Typed` is inductive; every step is a life-cycle step (`StepGood`), and the life-cycle keeps `AppliedOnce` |
| `BankRollupExact` | the stored totals stay exact under reconciliation too, if no calls overlap (`Client = {}`: two requests may leave a month out of date, as for the ledger) | `BankInv`, `Structure` and `RollupExact` together: each bank call is the ledger's create, an edit of one row (`EditOne`), a restore or a trash, followed by the recomputation of its months |
| `ViewsKpis`, `ViewsFigures` | all screens show the same money: KPIs, summaries, sparklines, charts, budgets and the digest are sums over the rows the list shows, and lists that are cut show the largest, for every period, tag, category, limit and calendar of equal months | `Book` (`Structure`, the exact rollup, the bound on what an expense is paid back): the floor under a query's total never counts (`NetIsShown`), a sum splits by any key (`ListedByKey`), a rollup is its month's list (`RollupListed`), and the parts a screen makes of a period are disjoint and cover it (`PeriodParts`, `PartOfMonth`); each entry has a rank of its own, so a cut list has all it may have or all there are, and what it leaves out comes after what it has (`RankedBy`, `LargestShowsMost`) |
| `ViewsSuggestion` | the dialogs propose the most that `upsert_allocation` accepts | what is left of a reimbursement and of an expense is each a sum of which the pair is one term (`PairInTotal`) |
| `RecurringTypeCorrect`, `AnswersHold` | runs are well-formed; what a run found out of an occurrence is true when it inserts, or the run cannot write | `RecurringInv`: every commit that can change the answer puts the runs with an open snapshot among the stale |
| `RunsSkipNothing` | from the next occurrence a run found stored to the one it leaves stored, every date has a row | `RunsPosted` is kept: what a run has passed since it read the rule, its first date included, has rows, because an insert or a fetch that fails leaves the run's `next` where it is |
| `DeletedForGood`, `ApprovedCardsStay` | a deleted chat stays deleted, a retry keeps the cards that show an approved change, for any windows | `RowsInv` (ids of new rows come last, an undo names its action), and what each request may still believe of the turn it read |
| `CardsStayLive`, `NothingUnanswered` | an undo counts once, whatever windows do; in one window each pending card is of a change `decide` can still decide and each waiting change has its card, and no run has an unanswered tool call | `ChatInv`, of the set of windows in use: with one in use a request's copy is the turn as it is, and the newest action of a tool call is the one its card names, so that the copy may be saved whole |
| `PlansStayGood`, `ApprovalsStaySafe` | a card can be approved while the data are as it found them, its undo puts every row back, names of categories stay apart; an approval overwrites nothing the user changed since and allocates no more than there is; for any data and any number of cards and changes | `PlansInv` says of a pending card that its plan is one the data it saw would let through (`Sound`), and of an applied one that the stored inverse takes what it left back to what it found (`Inverts`). What each kind of plan writes is worked out row by row (`ApproveStep`, `ApproveUndoStep`), beside what a user may do (`UserStep`) and what a new card is (`ProposeKeeps`). Allocations are written one by one and each stays within the income because the shrinking ones come first (`PrefixWithin`) |
| `ScheduleType`, `ScheduleAlwaysLater` | dates stay in the calendar and advance | `NextDateFacts`: where the next date lies, for each unit and policy, from `MonthOfDate`, `MonthReached` and `Nudged` |
| `ScheduleKeepsTheDay`, `ScheduleEveryPeriodOnce`, `ScheduleWorkdaysOnly` | the day comes back, no period is left out or repeated, workdays only | the same facts at every step |
| `BudgetsType`, `BudgetsStayDisjoint`, `BudgetsPlanAsShown`, `BudgetsUndoGivesBack`, `BudgetsRemovalEndsIt`, `BudgetsMergeKeeps`, `BudgetsOnwardChanges` | as the runs check, for any templates | the budget in effect depends on the rows of its scope alone (`EffectiveOfRows`); a template put in ends before the next (`EndBeforeNext`, `AppliedFromCases`); a merge moves rows month by month (`MergedEffect`); that an onward change shows in its months needs `EndsInv`, that no template ends before it starts |
| `CatalogWellFormed`, `CatalogDecisionsStand`, `CatalogMergesStick` | names stay unique and types agree; what was picked, rejected or deleted stays so; merges move everything and stick | `CatalogInv` is inductive where the three are not: a decision stands because the row remembers it (a pick is not `Uncategorized`, a guess is marked, the last rejection is the dismissed one), a deleted tag stays away because no *rule* has its name either, and a merged category stays empty because no rule or recurring rule names it and the model guesses only categories in use |
| `ReceiptsKept` | a listed receipt has its file and its own thumbnail, no file is left behind, the limit is passed by overlapping uploads only, for any number of requests under way | `ReceiptsInvariant` says what each request remembers of what the others do: the file it has written is nobody else's (`Alone`), what it unlinks was asked for or has no row any more (`UnlinkOK`), a purge has its rows to itself (`PurgeOK`). Rows that no upload under way replaces, and those uploads, share the places there are (`RoomLeft`, counted with `Trade`); an id never runs ahead of the keys (`Counted`) |
| `SignInSafe` | one administrator; an elevation was paid for by a right password in time; the throttle's tables keep to its limits | `AccessInv`: what a request under way has read of users and rows is still true of them or is checked when it writes; failures of a key ascend, so those since a time are a suffix, and no more than `MaxFailures` of them count |
| `TokensLiveOnce` | a token is handed out once, and a closed one is never accepted again (`TokenLife`) | each step opens new tokens, closes some or leaves them (`AccessInv`: a token is in one table, at most `issued`) |
| `SuggestionsKeep` | what is suggested fits the transaction it names, is applied once and is marked when it is done, for any number of requests, edits and stops | `SuggestionsInvariant`: what each request under way relies on is still so (`Fits`), two that do the same are remembered (`Apart`), and a suggestion that was applied has an older fingerprint than its transaction, so no later request passes the check (`CurrentIsNew`) |
| `ReadyIsTrained`, `PartsKeep` | a model called ready is there and of the rows whose fingerprint is kept; the parsed one is its own; and both in the run's own composition | `TrainingInvariant`: what a reader holds or the cache keeps is no newer than the latest training and, under its time, is its model (`KeptOK`) |

`DataLemmas` proves what these need of folds (sums over finite sets, from an
induction written out in `FiniteSetInduction`) and of least numbers, and that entries in a strict order can be ranked. The assumptions are those
the modules state: finitely many rows, rules and clients at a time (`ReceiptsAssumption` among them); what a user submits is
a row of its table; `Null` is none of the values it is distinguished from (a transaction's data, a request under way); the first catalog is one
that the requests can have made (`SetUpAssumption`), and the data that cards start from are ones a user
can have, in tables with no key in common (`PlansAssumption`, `DataOK`). The one on the calendar (months of 28 to 31 days, never
two short ones in a row) holds of every Gregorian calendar; `Views` only adds up, so its
months have one length, which is any.

Only model-checked: liveness (`EventuallyCaughtUp`, `WorkEnds`), which is beyond this
prover; `Forecast`; and of `Views` what sorts and walks (`BalancesHold`) and what
is divided (`CentsKept`): balances and reports fold over sequences, and that a spread purchase
adds up is an induction over its days.

## What the models say about the code

Two runs show the code doing what it says it does not (`findings` in `PROJECT.json`):

- `ledger_trash`: allocate a reimbursement to an expense, trash that expense, allocate
  the same money to another, restore the first. The reimbursement then pays
  out more than its amount, which `upsert_allocation` otherwise refuses.
- `recurring_start`: a run under way when a schedule's start is moved later
  writes the earlier next occurrence back, which the next run posts.

Behaviours a maintainer may want to know, which nothing in the repository rules out and no
property therefore forbids:

*Ledger, views.* Two requests at the same instant each read before they write:
two allocations may together exceed an expense, and two moves of one
transaction may leave the month in between out of date until it changes again. Taking over a
smaller bank amount ignores reimbursements in the trash, which may come back.
The amount a reimbursement dialog offers ignores them too, and saving it may then be refused.

*Bank.* Two overlapping calls can both find a transaction free and a row open: the later write
leaves one transaction as the answer to two rows, replaces the outcome the first wrote, or mixes the
two (ignored *and* matched). Reopening one of the rows and deciding again repairs it.

*Recurring.* A run that stored a rate loses its own snapshot, so its later
rules fail and wait for the next run. An occurrence due on Saturday 30 April,
moved to 2 May, counts from May, so the next is on 30 June.

*Assistant.* With two windows, a decision saves the items it started from: a
decision on another card in between vanishes from what is shown (the changes
themselves are right), and a message sent while another turn ends may give the
model an unanswered tool call. An undo of an edit that took a transaction out of
an archived category is refused.

*Budgets.* `apply_from` ends a template before the next one starts, so an amount
that came back after a nested template is lost. Merging categories with
overlapping templates keeps one of the amounts, not their sum. Two first
requests for the overall budget insert it twice, as NULLs do not clash.

*Catalog.* A merge does not reach templates, so a client that fills its form from
one names the archived source again. Renaming a tag leaves the old name in
rules, and the next match creates that tag anew.

*Receipts.* Deleting unlinks before it deletes the row; a stop in between leaves a
receipt without its file, at which an export gives up. A stop may also leave a
file nobody lists. A thumbnail that is made while its receipt is deleted
stays, and shows for the next receipt with the id; so it does if the id is given
away before the replacement that freed it has unlinked. Two removals of one id may hit the row that got the id in
between. Overlapping uploads pass the limit, each but the first by at most one.

*Sign-in.* Failures are counted after the password check, so one more wrong password than
allowed is tried for each request under way at once.

*AI suggestions.* Two requests that accept at once both apply, and a stop between
a rule and its status offers the rule again; two minings at once may store a
proposal twice.

## What is not modelled

- CSV parsing, the legacy importers and the portable export: conversion around
  the ledger's create. (The CSV import's commit is `Ledger!ImportCsv`.)
- The assistant's reading tools: queries on a read-only connection.
- HTTP routes and schemas: validation around one call each; what they guarantee is an
  assumption on the inputs. Where a route checks something the service does not, the
  route is part of the action.
- Configuration, logging, CLI, mock data, migrations: start-up and tools.
- The web and the iOS client: their requests are the inputs of the models.
- Exchange rates, seasonal medians, the random paths of a forecast, the fitting of the local model and
  prompts: numbers and text, of which the models keep that there is one.
- Lists that are only the head of something the models do have: a report's five categories
  on its front page, the burndown's five largest days, the three items of the pace card; pages and row limits
  (the digest reads up to 20,000 and 100,000 rows).
- That ingest commits a category it had to create before it tries the transaction: `Ingest` is one step. What a
  failure in between leaves, an unused category, is a state `CreateCategory` also makes.
- Wording and layout of every screen and report, and the order of lists that are shown whole; the caches of computed figures,
  whose keys hold a version of the data.

## Plan

Done, in this order because transactions are what every other part writes: ledger,
bank, recurring engine, recurrence dates, budgets, assistant; then catalog, sign-in,
receipts, suggestions and training, the assistant's plans, views and the forecast.

What would add most next: requests as reads and writes under SQLite's rules
(*LedgerRaces*: two allocations to one expense, two moves of one transaction, two first
overall budgets), which today no property survives and no document promises; the
importers' runs over existing data; the portable export's consistency with receipts that
come and go. Theorems to come: balances and what is
divided (`Views`), and the forecast; these fold over sequences and days.
