------------------------------- MODULE Plans -------------------------------
(***************************************************************************)
(* What the Assistant's approval cards do to the user's data.  Proposing a *)
(* change stores a plan: for each row it would change, the fields the      *)
(* approval will check and the fields it will write.  Between the proposal *)
(* and the approval the user goes on working.  Approving checks the plan   *)
(* against the data as they are, writes it, and stores the plan's inverse, *)
(* which a later card can propose as an undo.  Budget plans are the module *)
(* Budgets'; the life of a card as such is AssistantChat's.                *)
(***************************************************************************)
EXTENDS Integers, FiniteSets, FiniteSetsExt, Functions

CONSTANTS
  Txn, Id,      \* transactions and their ids
  Income,       \* those that are income; the others are expenses
  Paid,         \* the income whose allocations are followed
  Spare,        \* transactions and categories that are not there at first
  Category, Tag, Rule,
  Uncategorized,
  Name, Title, Note, NoNotes,
  MaxCents, MaxDay,
  Percent,      \* the shares a user asks to be reimbursed
  Change,       \* the edits asked for
  Unsaid,       \* a part of an edit that was not asked for
  Card,         \* 1..n: cards are proposed in this order
  MaxTouches,   \* the user's own changes
  Start,        \* the data a behaviour may begin with
  Null

VARIABLES
  book,     \* each row of the user's data, Null until it is there
  cards,    \* each card's plan, what is stored to undo it, and the data as they were
            \* when it was proposed (seen), before it was applied (was) and after (left)
  touches   \* how often the user changed something

vars == <<book, cards, touches>>
Object == Txn \cup Category \cup Tag \cup Rule
Expense == Txn \ Income
Cents == 0..MaxCents
Day == 0..MaxDay

\* share is what Paid reimburses of an expense, other what other incomes do.
TxnRow == [live : BOOLEAN, title : Title, cents : Cents \ {0}, category : Category,
           tags : SUBSET Tag, notes : Note, marked : BOOLEAN, share : Cents, other : Cents]
CategoryRow == [name : Name, archived : BOOLEAN]
TagRow == [archived : BOOLEAN]
RuleRow == [anchor : Day, ends : Day \cup {Null}]
RowsOf(o) ==
  IF o \in Txn THEN TxnRow ELSE IF o \in Category THEN CategoryRow
  ELSE IF o \in Tag THEN TagRow ELSE RuleRow

\* Data the user can have: rows of their table, those yet to be created aside; no name
\* twice; allocations only from an income that is marked as a reimbursement, and no
\* more for an expense than it cost.
RowsOK(data) ==
  /\ DOMAIN data = Object
  /\ \A o \in Object : data[o] \in RowsOf(o) \/ (o \in Spare /\ data[o] = Null)
NamesApart(data) ==
  \A c, d \in Category :
    data[c] # Null /\ data[d] # Null /\ c # d => data[c].name # data[d].name
SharesMarked(data) ==
  \A e \in Expense : data[e] # Null /\ data[e].share # 0 => data[Paid].marked
SharesCovered(data) ==
  \A e \in Expense : data[e] # Null => data[e].share + data[e].other <= data[e].cents
DataOK(data) == RowsOK(data) /\ NamesApart(data) /\ SharesMarked(data) /\ SharesCovered(data)

\* What the constants are.
PlansAssumption ==
  /\ IsFiniteSet(Txn) /\ Id \in [Txn -> Nat] /\ IsInjective(Id)
  /\ Income \subseteq Txn /\ Paid \in Income /\ NoNotes \in Note
  /\ Uncategorized \in Category /\ Spare \subseteq (Txn \cup Category) \ {Paid}
  /\ Txn \cap (Category \cup Tag \cup Rule) = {} /\ Category \cap (Tag \cup Rule) = {}
  /\ Tag \cap Rule = {}
  /\ \A o \in Object : Null \notin RowsOf(o)
  /\ Change \subseteq [category : Category \cup {Unsaid}, add : SUBSET Tag, remove : SUBSET Tag,
                      title : Title \cup {Unsaid}, notes : Note \cup {Unsaid}]
  /\ \A data \in Start : DataOK(data)
  /\ Percent \subseteq 1..100 /\ MaxCents \in Nat /\ MaxDay \in Nat /\ MaxTouches \in Nat

NoCard == [status |-> "none", plan |-> Null, inverse |-> Null, seen |-> Null,
           was |-> Null, left |-> Null]

Init ==
  /\ book \in Start
  /\ cards = [k \in Card |-> NoCard]
  /\ touches = 0

--------------------------------------------------------------------------------
(* The data. *)

There(S) == {o \in S : book[o] # Null}
Live == {t \in There(Txn) : book[t].live}
Part(o, fields) == [f \in fields |-> book[o][f]]
Allotted(data, S) == SumFunction([e \in S |-> data[e].share])
Spent(data) == Allotted(data, {e \in Expense : data[e] # Null /\ data[e].live})
NameFree(name, c) == \A d \in There(Category) \ {c} : book[d].name # name

\* Some fields of a row, written over it.
Onto(row, fields) ==
  [f \in DOMAIN fields \cup DOMAIN row |-> IF f \in DOMAIN fields THEN fields[f] ELSE row[f]]

\* What an approval writes over the rows it names.
Over(data, after) ==
  [o \in Object |-> IF o \notin DOMAIN after THEN data[o]
                    ELSE IF data[o] = Null THEN after[o] ELSE Onto(data[o], after[o])]

--------------------------------------------------------------------------------
(* Proposals: what a plan will check and what it will write. *)

Shown == {"title", "cents", "category"}
Removal(S) == [kind |-> "trash",
               before |-> [t \in S |-> Onto(Part(t, Shown), [live |-> TRUE])],
               after |-> [t \in S |-> [live |-> FALSE]]]
Return(S) == [kind |-> "restore",
              before |-> [t \in S |-> Onto(Part(t, Shown), [live |-> FALSE])],
              after |-> [t \in S |-> [live |-> TRUE]]]

Classified(t) == Part(t, {"category", "tags", "title"})
Edited(t, e) ==
  [category |-> IF e.category = Unsaid THEN book[t].category ELSE e.category,
   tags |-> (book[t].tags \ e.remove) \cup e.add,
   title |-> IF e.title = Unsaid THEN book[t].title ELSE e.title]
NotesChange(t, e) == e.notes # Unsaid /\ e.notes # book[t].notes
EditPlan(S, e) ==
  LET T == {t \in S : Edited(t, e) # Classified(t) \/ NotesChange(t, e)}
  IN [kind |-> "edit",
      before |-> [t \in T |-> Part(t, {"cents", "category", "tags", "title"}
                                      \cup IF NotesChange(t, e) THEN {"notes"} ELSE {})],
      after |-> [t \in T |-> IF NotesChange(t, e) THEN Onto(Edited(t, e), [notes |-> e.notes])
                             ELSE Edited(t, e)]]

FlagPlan(S, flag) == [kind |-> "archive", before |-> [o \in S |-> [archived |-> ~flag]],
                      after |-> [o \in S |-> [archived |-> flag]]]
RenamePlan(names) == [kind |-> "rename", before |-> [c \in DOMAIN names |-> Part(c, {"name"})],
                      after |-> [c \in DOMAIN names |-> [name |-> names[c]]]]
EndPlan(S, day) == [kind |-> "end", before |-> [r \in S |-> Part(r, {"ends"})],
                    after |-> [r \in S |-> [ends |-> day]]]
CreatePlan(rows) == [kind |-> "create", before |-> <<>>, after |-> rows]

\* An allocation also keeps what its card showed: Paid's amount and allocations, the
\* amounts of the expenses.
ShownAmounts(S) == [cents |-> book[Paid].cents,
                    allocated |-> [e \in There(Expense) |-> book[e].share],
                    expenses |-> [e \in S |-> book[e].cents]]
AllocatePlan(amounts) ==
  LET S == DOMAIN amounts IN
  [kind |-> "allocate", before |-> [e \in S |-> Part(e, {"share"})],
   after |-> [e \in S |-> [share |-> amounts[e]]],
   mark |-> IF book[Paid].marked THEN "keep" ELSE "set", shown |-> ShownAmounts(S)]

\* What is left of Paid, and of an expense, for these expenses.
Available(S) == book[Paid].cents - (Spent(book) - Allotted(book, S))
Remaining(e) == book[e].cents - book[e].other
HalfUp(n, percent) == (n * percent + 50) \div 100
Place(e, S) == Cardinality({d \in S : Id[d] < Id[e]})
ShareSplit(S, percent) == [e \in S |-> Min({Remaining(e), HalfUp(book[e].cents, percent)})]
EvenSplit(S) ==
  LET rest == Max({0, Available(S)})
      n == Cardinality(S)
  IN [e \in S |-> Min({Remaining(e), (rest \div n) + (IF Place(e, S) < rest % n THEN 1 ELSE 0)})]
Splits(S) == {ShareSplit(S, p) : p \in Percent} \cup {EvenSplit(S)}
             \cup {a \in [S -> Cents] : \A e \in S : a[e] <= Remaining(e)}

Propose(plan) ==
  \E k \in Card :
    /\ cards[k].status = "none" /\ \A j \in 1..(k - 1) : cards[j].status # "none"
    /\ cards' = [cards EXCEPT ![k].status = "pending", ![k].plan = plan, ![k].seen = book]
    /\ UNCHANGED <<book, touches>>

ProposeEdit == \E S \in (SUBSET Live) \ {{}}, e \in Change :
  /\ e.category # Unsaid => book[e.category] # Null /\ ~book[e.category].archived
  /\ DOMAIN EditPlan(S, e).after # {}
  /\ Propose(EditPlan(S, e))
ProposeTrash == \E S \in (SUBSET Live) \ {{}} : Propose(Removal(S))
NewRow(title, cents, c, tags) ==
  [live |-> TRUE, title |-> title, cents |-> cents, category |-> c, tags |-> tags,
   notes |-> NoNotes, marked |-> FALSE, share |-> 0, other |-> 0]
\* A row to create stands for the new id it will get.
Unplanned(o) == book[o] = Null /\ \A k \in Card : cards[k].status # "none" => o \notin DOMAIN cards[k].plan.after
ProposeCreate == \E t \in Spare \cap Txn, title \in Title, cents \in Cents \ {0}, tags \in SUBSET Tag :
  \E c \in There(Category) :
    /\ Unplanned(t)
    /\ c = Uncategorized \/ ~book[c].archived
    /\ Propose(CreatePlan([o \in {t} |-> NewRow(title, cents, c, tags)]))
ProposeArchive == \E S \in (SUBSET There(Category \cup Tag)) \ {{}} :
  /\ Uncategorized \notin S /\ \A o \in S : ~book[o].archived
  /\ Propose(FlagPlan(S, TRUE))
ProposeCreateCategories == \E c \in Spare \cap Category, name \in Name :
  /\ Unplanned(c) /\ NameFree(name, c)
  /\ Propose(CreatePlan([o \in {c} |-> [name |-> name, archived |-> FALSE]]))
ProposeRename == \E S \in (SUBSET (There(Category) \ {Uncategorized})) \ {{}} : \E names \in [S -> Name] :
  /\ \A c \in S : names[c] # book[c].name /\ NameFree(names[c], c)
  /\ IsInjective(names)
  /\ Propose(RenamePlan(names))
ProposeEnd == \E S \in (SUBSET There(Rule)) \ {{}}, day \in Day :
  /\ \A r \in S : day >= book[r].anchor /\ book[r].ends # day
  /\ Propose(EndPlan(S, day))
ProposeAllocate == Paid \in Live /\ \E S \in (SUBSET (Live \cap Expense)) \ {{}} : \E a \in Splits(S) :
  /\ \A e \in S : a[e] > 0
  /\ SumFunction(a) <= Available(S)
  /\ Propose(AllocatePlan(a))


--------------------------------------------------------------------------------
(* Approval. *)

\* Every field the plan checks is as its card showed it.
AsShown(plan) == \A o \in DOMAIN plan.before :
  book[o] # Null /\ Part(o, DOMAIN plan.before[o]) = plan.before[o]

\* Mutant: the row must only be there, with the amount and date shown.
EditFitsAmount(plan) == \A t \in DOMAIN plan.after : book[t].live /\ book[t].cents = plan.before[t].cents
EditFits(plan) == AsShown(plan) /\ \A t \in DOMAIN plan.after :
  /\ book[t].live
  /\ plan.after[t].category # book[t].category => ~book[plan.after[t].category].archived
RenameFits(plan) == AsShown(plan) /\ \A c \in DOMAIN plan.after : NameFree(plan.after[c].name, c)
CreateFits(plan) == \A o \in DOMAIN plan.after \cap Category : NameFree(plan.after[o].name, o)

\* upsert_allocation: no more of Paid than it has, no more for the expense than it cost.
CanUpsert(data, e, cents) ==
  /\ data[Paid].live /\ data[Paid].marked /\ data[e].live
  /\ Spent([data EXCEPT ![e].share = 0]) + cents <= data[Paid].cents
  /\ data[e].other + cents <= data[e].cents

\* Mutant: in the order of the card.
GrowthIgnored(plan, e) == 0
\* The allocations are written one by one, those that shrink most first.
Growth(plan, e) == plan.after[e].share - plan.before[e].share
Earlier(plan, e) == {d \in DOMAIN plan.after :
  Growth(plan, d) < Growth(plan, e) \/ (Growth(plan, d) = Growth(plan, e) /\ Id[d] < Id[e])}
Marked(plan) == IF plan.mark = "set" THEN [book EXCEPT ![Paid].marked = TRUE] ELSE book
StillShown(shown) ==
  /\ book[Paid].cents = shown.cents
  /\ [e \in There(Expense) |-> book[e].share] = shown.allocated
  /\ \A e \in DOMAIN shown.expenses : book[e].live /\ book[e].cents = shown.expenses[e]
AllocateFits(plan) ==
  /\ Paid \in Live /\ AsShown(plan)
  /\ plan.shown # Null => StillShown(plan.shown)
  /\ \A e \in DOMAIN plan.after : plan.after[e].share # 0 =>
       CanUpsert(Over(Marked(plan), Restrict(plan.after, Earlier(plan, e))), e, plan.after[e].share)
Allocated(plan) ==
  LET data == Over(Marked(plan), plan.after)
      cleared == plan.mark = "clear" /\ \A e \in Expense : data[e] # Null => data[e].share = 0
  IN [data EXCEPT ![Paid].marked = @ /\ ~cleared]

Fits(plan) ==
  CASE plan.kind = "edit" -> EditFits(plan)
    [] plan.kind \in {"trash", "restore", "archive", "end"} -> AsShown(plan)
    [] plan.kind = "rename" -> RenameFits(plan)
    [] plan.kind = "create" -> CreateFits(plan)
    [] plan.kind = "allocate" -> AllocateFits(plan)
Applied(plan) == IF plan.kind = "allocate" THEN Allocated(plan) ELSE Over(book, plan.after)

\* What undoes a plan: the same rows, from what it leaves to what it found.
Swapped(plan) ==
  [plan EXCEPT !.before = [o \in DOMAIN plan.before |-> Onto(plan.before[o], plan.after[o])],
               !.after = [o \in DOMAIN plan.after |-> Restrict(plan.before[o], DOMAIN plan.after[o])]]
UndoOf(plan) ==
  CASE plan.kind = "trash" -> [Swapped(plan) EXCEPT !.kind = "restore"]
    [] plan.kind \in {"edit", "archive", "rename", "end"} -> Swapped(plan)
    [] plan.kind = "allocate" ->
         [Swapped(plan) EXCEPT !.shown = Null,
            !.mark = IF plan.mark = "set" /\ ~book[Paid].marked THEN "clear" ELSE "keep"]
    [] plan.kind = "create" ->
         LET S == DOMAIN plan.after IN
         IF S \subseteq Txn
         THEN [kind |-> "trash", after |-> [t \in S |-> [live |-> FALSE]],
               before |-> [t \in S |-> Restrict(plan.after[t], Shown \cup {"live"})]]
         ELSE [kind |-> "archive", after |-> [c \in S |-> [archived |-> TRUE]],
               before |-> [c \in S |-> [archived |-> FALSE]]]

Approve(k) ==
  /\ cards[k].status = "pending" /\ cards[k].plan.kind # "undo" /\ Fits(cards[k].plan)
  /\ book' = Applied(cards[k].plan)
  /\ cards' = [cards EXCEPT ![k].status = "applied", ![k].inverse = UndoOf(cards[k].plan),
                            ![k].was = book, ![k].left = book']
  /\ UNCHANGED touches

--------------------------------------------------------------------------------
(* Undo: the stored inverse, less the rows it no longer fits. *)

Only(plan, S) == [plan EXCEPT !.before = Restrict(@, S), !.after = Restrict(@, S)]
UndoneRows(plan) ==
  LET rows == DOMAIN plan.before IN
  CASE plan.kind = "trash" -> {t \in rows : book[t].live}
    [] plan.kind = "restore" -> {t \in rows : ~book[t].live}
    [] plan.kind = "archive" -> {o \in rows : book[o].archived = plan.before[o].archived}
    [] plan.kind = "edit" -> {t \in rows \cap Live : \A f \in DOMAIN plan.before[t] \ {"cents"} :
                                                      book[t][f] = plan.before[t][f]}
    [] plan.kind = "rename" -> IF RenameFits(plan) THEN rows ELSE {}
    [] plan.kind = "end" -> IF AsShown(plan) THEN rows ELSE {}
    [] plan.kind = "allocate" -> IF AsShown(plan) THEN rows \cap Live ELSE {}
UndoPlan(plan, S) ==
  CASE plan.kind = "trash" -> Removal(S)
    [] plan.kind = "restore" -> Return(S)
    [] plan.kind = "edit" ->
         [Only(plan, S) EXCEPT !.before = [t \in S |-> Onto(plan.before[t], Part(t, {"cents"}))]]
    [] OTHER -> Only(plan, S)

ProposeUndo(j) ==
  LET plan == cards[j].inverse
      S == UndoneRows(plan)
  IN /\ cards[j].status = "applied" /\ cards[j].plan.kind # "undo" /\ S # {}
     /\ Propose([kind |-> "undo", of |-> j, plan |-> UndoPlan(plan, S), after |-> <<>>])
ApproveUndo(k) ==
  LET plan == cards[k].plan IN
  /\ cards[k].status = "pending" /\ plan.kind = "undo"
  /\ cards[plan.of].status = "applied" /\ Fits(plan.plan)
  /\ book' = Applied(plan.plan)
  /\ cards' = [cards EXCEPT ![k].status = "applied", ![k].was = book, ![k].left = book',
                            ![plan.of].status = "undone"]
  /\ UNCHANGED touches

--------------------------------------------------------------------------------
(* The user's own changes, in the app: what each may do to one row. *)

Put(o, row) == /\ touches < MaxTouches /\ touches' = touches + 1
               /\ row # book[o] /\ book' = [book EXCEPT ![o] = row]
               /\ UNCHANGED cards
\* No less than what is allocated to the expense, or from the income.
Covers(t, cents) == IF t \in Expense THEN cents >= book[t].share + book[t].other
  ELSE t = Paid /\ book[t].marked => cents >= Allotted(book, There(Expense))
UserEdits == \E t \in Live :
  \/ \E title \in Title : Put(t, [book[t] EXCEPT !.title = title])
  \/ \E cents \in Cents \ {0} : Covers(t, cents) /\ Put(t, [book[t] EXCEPT !.cents = cents])
  \/ \E c \in There(Category) : Put(t, [book[t] EXCEPT !.category = c])
  \/ \E tags \in SUBSET Tag : Put(t, [book[t] EXCEPT !.tags = tags])
  \/ \E notes \in Note : Put(t, [book[t] EXCEPT !.notes = notes])
UserTrashes == \E t \in There(Txn) : Put(t, [book[t] EXCEPT !.live = ~@])
UserAllocates == \E e \in There(Expense) :
  \/ \E cents \in Cents : (cents = 0 \/ CanUpsert(book, e, cents)) /\ Put(e, [book[e] EXCEPT !.share = cents])
  \/ \E cents \in Cents : book[e].share + cents <= book[e].cents /\ Put(e, [book[e] EXCEPT !.other = cents])
UserMarks ==
  /\ Paid \in Live /\ touches < MaxTouches /\ touches' = touches + 1
  /\ book' = [o \in Object |->
                IF o = Paid THEN [book[o] EXCEPT !.marked = ~@]
                ELSE IF o \in There(Expense) /\ book[Paid].marked THEN [book[o] EXCEPT !.share = 0]
                ELSE book[o]]
  /\ UNCHANGED cards
UserChangesCategory == \E c \in There(Category) \ {Uncategorized} :
  \/ \E name \in Name : NameFree(name, c) /\ Put(c, [book[c] EXCEPT !.name = name])
  \/ Put(c, [book[c] EXCEPT !.archived = ~@])
UserChangesTag == \E g \in Tag : Put(g, [book[g] EXCEPT !.archived = ~@])
UserChangesRule == \E r \in Rule, anchor \in Day, ends \in Day \cup {Null} :
  /\ ends # Null => ends >= anchor
  /\ Put(r, [anchor |-> anchor, ends |-> ends])

User == UserEdits \/ UserTrashes \/ UserAllocates \/ UserMarks
        \/ UserChangesCategory \/ UserChangesTag \/ UserChangesRule
ProposeAny ==
  /\ \E k \in Card : cards[k].status = "none"
  /\ \/ ProposeEdit \/ ProposeTrash \/ ProposeCreate \/ ProposeArchive
     \/ ProposeCreateCategories \/ ProposeRename \/ ProposeEnd \/ ProposeAllocate
Next ==
  \/ touches < MaxTouches /\ User
  \/ ProposeAny
  \/ \E k \in Card : Approve(k) \/ ProposeUndo(k) \/ ApproveUndo(k)
Spec == Init /\ [][Next]_vars

--------------------------------------------------------------------------------
(* Properties. *)

\* Every row has its fields, rows that were not created aside, and cards their states.
TypeOK ==
  /\ RowsOK(book)
  /\ \A k \in Card : cards[k].status \in {"none", "pending", "applied", "undone"}
  /\ touches \in 0..MaxTouches

\* No two categories have one name, whatever was renamed or created between a card that
\* renames or creates one and its approval.
NamesDiffer == NamesApart(book)

Approved(k) == cards[k].status = "pending" /\ cards'[k].status = "applied"

\* An approval overwrites nothing the user entered since the card was made: a field it
\* changes has the value it had then.
LosesNothing == [][\A k \in Card : Approved(k) =>
  \A o \in There(Object) : \A f \in DOMAIN book[o] :
    book'[o][f] # book[o][f] => cards[k].seen[o] # Null /\ book[o][f] = cards[k].seen[o][f]]_vars

\* An approved allocation, or its undo, leaves the income with no more allocated than it
\* has and the expenses with no more reimbursed than they cost.
WithinAmounts == [][\A k \in Card : Approved(k) =>
  LET plan == IF cards[k].plan.kind = "undo" THEN cards[k].plan.plan ELSE cards[k].plan
      grown == {e \in DOMAIN plan.after \cap Expense : book'[e].share > 0}
  IN plan.kind = "allocate" /\ grown # {} =>
       /\ Spent(book') <= book'[Paid].cents
       /\ \A e \in grown : book'[e].share + book'[e].other <= book'[e].cents]_vars

\* A card can be approved while the data are as they were when it was made.  (Not so
\* for an income that restored expenses have left with more allocated than it has.)
ApprovalWorks == \A k \in Card :
  /\ cards[k].status = "pending" /\ cards[k].plan.kind # "undo" /\ book = cards[k].seen
  /\ Spent(book) <= book[Paid].cents
  => Fits(cards[k].plan)

\* While the data are as an applied change left them, it can be undone, and undoing it
\* puts back every row as it was, created ones in Trash or archived.  (Not when the edit
\* took a transaction out of an archived category, or the income had too much allocated.)
UndoRestores == \A k \in Card :
  LET card == cards[k]
      plan == card.inverse
      S == UndoneRows(plan)
  IN /\ card.status = "applied" /\ card.plan.kind # "undo" /\ book = card.left
     /\ Spent(card.was) <= card.was[Paid].cents
     /\ plan.kind = "edit" => \A t \in DOMAIN plan.after :
          plan.after[t].category = book[t].category \/ ~book[plan.after[t].category].archived
     => /\ S # {} /\ Fits(UndoPlan(plan, S))
        /\ LET data == Applied(UndoPlan(plan, S)) IN \A o \in There(Object) :
             IF card.was[o] # Null THEN data[o] = card.was[o]
             ELSE IF o \in Txn THEN ~data[o].live ELSE data[o].archived

================================================================================
