------------------------------ MODULE Catalog -------------------------------
(***************************************************************************)
(* What transactions are sorted by: categories, tags, the rules that set   *)
(* both on a new transaction, templates, the local model that guesses a    *)
(* category, and the requests that merge, rename, archive and delete them  *)
(* (TagService, RuleService, CategoryService, TransactionTemplateService,  *)
(* the classification in TransactionService, IngestService and             *)
(* auto_categorization.py).                                                *)
(*                                                                         *)
(* Every request is one transaction of the database.  Names are compared   *)
(* without case, so a name here stands for all its spellings.  A rule's    *)
(* pattern is the title it matches, and a tag's auto-attach period the set *)
(* of days it covers, none if it has no period.  A rule keeps the names of *)
(* the tags it adds, not their ids; a transaction keeps ids.               *)
(***************************************************************************)
EXTENDS Integers, Sequences, FiniteSets, FiniteSetsExt, Functions, SequencesExt

CONSTANTS
  Type, Expense,    \* transaction types, and the one that ingest posts
  CatName,          \* names of categories
  Uncategorized,    \* the one that rules may replace
  Near,             \* pairs of different names at most one letter apart
  TagName, TagInput, \* names of tags, and the sets of them given to transactions
  Title,
  Day,
  RuleId,           \* rules, in the order they are tried
  RuleInput,        \* rows a user submits
  TemplateName,
  FirstCategories,  \* the catalog a user has set up
  FirstTags, FirstStanding, FirstRules, FirstTxns,
  MaxTxns, MaxCategories, MaxTags, MaxEdits,  \* BOUNDS: rows, and requests
  Null              \* no category, tag, type or name

ASSUME CatalogAssumption ==
  /\ Expense \in Type /\ Uncategorized \in CatName /\ Near \subseteq CatName \X CatName
  /\ RuleId \subseteq Nat /\ IsFiniteSet(RuleId)
  /\ IsFiniteSet(TagName) /\ TagInput \subseteq SUBSET TagName
  /\ MaxTxns \in Nat /\ MaxCategories \in Nat /\ MaxTags \in Nat /\ MaxEdits \in Nat
  /\ Null \notin CatName \cup TagName \cup Nat \cup Type

CategoryId == 1..MaxCategories
TagId == 1..MaxTags
TxnId == 1..MaxTxns

VARIABLES
  categories,  \* CategoryId -> name, type, archived
  tags,        \* TagId -> name, archived, period
  rules,       \* RuleId -> type, title, sets, adds (names), excludes, enabled
  templates,   \* TemplateName -> type, category
  standing,    \* the categories that recurring rules post to
  txns,        \* TxnId -> type, category, title, tags, posted, auto, dismissed
  model,       \* Title -> the category that the local model predicts, or Null
  seen,        \* what has happened: merged categories, forgotten tags, categories that
               \* users picked and rejected, and transactions whose category was guessed
  edits

vars == <<categories, tags, rules, templates, standing, txns, model, seen, edits>>

Category == [name : CatName, type : Type, archived : BOOLEAN]
Tag == [name : TagName, archived : BOOLEAN, period : SUBSET Day]
Rule == [type : Type \cup {Null}, title : Title, sets : CategoryId \cup {Null},
         adds : SUBSET TagName, excludes : TagId \cup {Null}, enabled : BOOLEAN]
Transaction == [type : Type, category : CategoryId, title : Title, tags : SUBSET TagId,
                posted : BOOLEAN, auto : BOOLEAN, dismissed : CategoryId \cup {Null}]

\* Rows and their foreign keys.
TablesOK(C, T, R, X) ==
  /\ DOMAIN C \subseteq CategoryId /\ C \in [DOMAIN C -> Category]
  /\ DOMAIN T \subseteq TagId /\ T \in [DOMAIN T -> Tag]
  /\ DOMAIN R \subseteq RuleId /\ R \in [DOMAIN R -> Rule]
  /\ DOMAIN X \subseteq TxnId /\ X \in [DOMAIN X -> Transaction]
  /\ \A id \in DOMAIN X : X[id].category \in DOMAIN C /\ X[id].tags \subseteq DOMAIN T
  /\ \A r \in DOMAIN R : /\ R[r].sets \in DOMAIN C \cup {Null}
                         /\ R[r].excludes \in DOMAIN T \cup {Null}

\* No two categories of a type, and no two tags, have the same name.
UniqueNames(C, T) ==
  /\ \A c, d \in DOMAIN C : C[c].type = C[d].type /\ C[c].name = C[d].name => c = d
  /\ \A t, u \in DOMAIN T : T[t].name = T[u].name => t = u

\* The first tables are such as the requests below make, and rules are submitted whole.
ASSUME SetUpAssumption ==
  /\ RuleInput \subseteq Rule
  /\ \A R \in FirstRules : TablesOK(FirstCategories, FirstTags, R, FirstTxns)
  /\ UniqueNames(FirstCategories, FirstTags)
  /\ \A id \in DOMAIN FirstTxns :
       FirstCategories[FirstTxns[id].category].type = FirstTxns[id].type
  /\ FirstStanding \subseteq DOMAIN FirstCategories

TypeOK == TablesOK(categories, tags, rules, txns)

-----------------------------------------------------------------------------
Put(table, key, row) == [k \in DOMAIN table \cup {key} |-> IF k = key THEN row ELSE table[k]]
Without(table, keys) == Restrict(table, DOMAIN table \ keys)
NewId(table) == IF DOMAIN table = {} THEN 1 ELSE Max(DOMAIN table) + 1

Live(table) == {k \in DOMAIN table : ~table[k].archived}

\* The categories of a type with a name, archived ones included.
Named(C, type, name) == {c \in DOMAIN C : C[c].type = type /\ C[c].name = name}

\* get_or_create_uncategorized: the one there is, restored if need be, or a new one.
WithUncategorized(C, type) ==
  LET there == Named(C, type, Uncategorized)
  IN IF there \cap Live(C) # {} THEN C
     ELSE IF there # {} THEN [C EXCEPT ![Min(there)].archived = FALSE]
     ELSE Put(C, NewId(C), [name |-> Uncategorized, type |-> type, archived |-> FALSE])

\* The category a transaction is saved with: the one given, or Uncategorized.
Given(C, type, c) ==
  IF c # Null THEN c ELSE Min(Named(C, type, Uncategorized) \cap Live(C))
Prepared(C, type, c) == IF c # Null THEN C ELSE WithUncategorized(C, type)

\* TagService.get_or_create on several names; archived tags are found too.
IdsOf(T, names) == {t \in DOMAIN T : T[t].name \in names}
NamesOf(T, ids) == {T[t].name : t \in ids}
Added(T, name) == Put(T, NewId(T), [name |-> name, archived |-> FALSE, period |-> {}])
WithTags(T, names) ==
  LET new == SetToSeq(names \ NamesOf(T, DOMAIN T))
      first == NewId(T)
  IN [t \in DOMAIN T \cup first..(first + Len(new) - 1) |->
        IF t \in DOMAIN T THEN T[t]
        ELSE [name |-> new[t - first + 1], archived |-> FALSE, period |-> {}]]

\* active_auto_attach_tags.
Attached(T, day) == {t \in Live(T) : day \in T[t].period}

-----------------------------------------------------------------------------
\* RuleService.apply_rules on a transaction to be saved, in three parts: the rules that
\* match, the category, and the names of the tags.
Matching(type, title) ==
  {r \in DOMAIN rules : /\ rules[r].enabled
                        /\ rules[r].type \in {type, Null}
                        /\ rules[r].title = title}

\* The rule that sets the category, if one may and does.
Setting(C, type, title, c) ==
  {r \in Matching(type, title) :
     /\ C[c].name = Uncategorized
     /\ rules[r].sets # Null /\ C[rules[r].sets].type = type}

ByRules(C, type, title, c) ==
  LET setting == Setting(C, type, title, c)
  IN IF setting = {} THEN c ELSE rules[Min(setting)].sets

\* The tags a rule adds, by name: a budget exclusion is stored by id.
AddsNames(row, T) == row.adds \cup (IF row.excludes = Null THEN {} ELSE {T[row.excludes].name})
TagsByRules(T, type, title) == UNION {AddsNames(rules[r], T) : r \in Matching(type, title)}

\* eligible_prediction.
Eligible(C, type, title) ==
  {c \in Live(C) : /\ type = Expense /\ c = model[title]
                   /\ C[c].type = type /\ C[c].name # Uncategorized}

\* suggestions_for: what is offered for a transaction that is still uncategorized.
Suggested(id) ==
  LET txn == txns[id]
  IN IF txn.posted \/ categories[txn.category].name # Uncategorized THEN {}
     ELSE Eligible(categories, txn.type, txn.title) \ {txn.dismissed}

-----------------------------------------------------------------------------
Edit == edits < MaxEdits /\ edits' = edits + 1

\* A category given by a user, unless it is one to be replaced.
Pick(C, c) == IF c = Null \/ C[c].name = Uncategorized THEN Null ELSE c

\* Names that a user types are no longer forgotten.
Typed(names) == seen' = [seen EXCEPT !.forgotten = @ \ names]

\* CategoryService.create and update: no other category of the type has the name.
\* Mutant: only categories in use are looked at.
Free_Live(type, name, except) ==
  Named(categories, type, name) \cap Live(categories) \subseteq except
Free(type, name, except) == Named(categories, type, name) \subseteq except

CreateCategory(type, name) ==
  /\ Edit
  /\ NewId(categories) \in CategoryId /\ Free(type, name, {})
  /\ categories' = Put(categories, NewId(categories),
                       [name |-> name, type |-> type, archived |-> FALSE])
  /\ UNCHANGED <<tags, rules, templates, standing, txns, model, seen>>

UpdateCategory(c, name) ==
  /\ Edit
  /\ Free(categories[c].type, name, {c})
  /\ categories' = [categories EXCEPT ![c].name = name]
  /\ seen' = [seen EXCEPT !.picked = [id \in DOMAIN txns |-> Pick(categories', @[id])]]
  /\ UNCHANGED <<tags, rules, templates, standing, txns, model>>

ArchiveCategory(c) ==
  /\ Edit
  /\ categories' = [categories EXCEPT ![c].archived = TRUE]
  /\ UNCHANGED <<tags, rules, templates, standing, txns, model, seen>>

RestoreCategory(c) ==
  /\ Edit
  /\ categories' = [categories EXCEPT ![c].archived = FALSE]
  /\ seen' = [seen EXCEPT !.merged = @ \ {c}]
  /\ UNCHANGED <<tags, rules, templates, standing, txns, model>>

\* What a merge makes of the id or name of its source.
Into(x, source, target) == IF x = source THEN target ELSE x

\* CategoryService.merge on transactions.  Mutant: rejections are left.
MergedTxns_LeaveRejected(s, t) ==
  [id \in DOMAIN txns |-> [txns[id] EXCEPT !.category = Into(@, s, t)]]
MergedTxns(s, t) ==
  [id \in DOMAIN txns |-> [txns[id] EXCEPT !.category = Into(@, s, t),
                                           !.dismissed = Into(@, s, t)]]

\* And on rules.
MergedRules(s, t) == [r \in DOMAIN rules |-> [rules[r] EXCEPT !.sets = Into(@, s, t)]]

\* merge_preview.
CategoriesMayMerge(s, t) ==
  s # t /\ categories[s].type = categories[t].type /\ ~categories[t].archived

\* A merge refused for its budgets is in Budgets.  Templates are not moved.
MergeCategories(s, t) ==
  /\ Edit
  /\ CategoriesMayMerge(s, t)
  /\ txns' = MergedTxns(s, t)
  /\ rules' = MergedRules(s, t)
  /\ standing' = {Into(c, s, t) : c \in standing}
  /\ categories' = [categories EXCEPT ![s].archived = TRUE]
  /\ seen' = [seen EXCEPT !.merged = @ \cup {s},
                          !.rejected = {<<r[1], Into(r[2], s, t)>> : r \in @},
                          !.picked = [id \in DOMAIN txns |-> Pick(categories, Into(@[id], s, t))]]
  /\ UNCHANGED <<tags, templates, model>>

-----------------------------------------------------------------------------
\* TagService.
CreateTag(name, period) ==
  /\ Edit
  /\ NewId(tags) \in TagId /\ IdsOf(tags, {name}) = {}
  /\ tags' = [Added(tags, name) EXCEPT ![NewId(tags)].period = period]
  /\ Typed({name})
  /\ UNCHANGED <<categories, rules, templates, standing, txns, model>>

\* Rules keep the old name.
UpdateTag(t, name, period) ==
  /\ Edit
  /\ IdsOf(tags, {name}) \subseteq {t}
  /\ tags' = [tags EXCEPT ![t].name = name, ![t].period = period]
  /\ Typed({name})
  /\ UNCHANGED <<categories, rules, templates, standing, txns, model>>

ArchiveTag(t, archived) ==
  /\ Edit
  /\ tags' = [tags EXCEPT ![t].archived = archived]
  /\ UNCHANGED <<categories, rules, templates, standing, txns, model, seen>>

Untagged(t) == [id \in DOMAIN txns |-> [txns[id] EXCEPT !.tags = @ \ {t}]]

\* The rules without a tag that is deleted.
RulesWithout(t) ==
  [r \in DOMAIN rules |-> [rules[r] EXCEPT !.excludes = IF @ = t THEN Null ELSE @,
                                           !.adds = @ \ {tags[t].name}]]

DeleteTag(t) ==
  /\ Edit
  /\ txns' = Untagged(t)
  /\ rules' = RulesWithout(t)
  /\ tags' = Without(tags, {t})
  /\ seen' = [seen EXCEPT !.forgotten = @ \cup {tags[t].name}]
  /\ UNCHANGED <<categories, templates, standing, model>>

\* TagService.merge: ids in transactions and exclusions, and names in rules, become the
\* target's.  Mutant: the names in rules are left.
TagRules_KeepNames(s, t) == [r \in DOMAIN rules |-> [rules[r] EXCEPT !.excludes = Into(@, s, t)]]
TagRules(s, t) ==
  [r \in DOMAIN rules |->
     [rules[r] EXCEPT !.excludes = Into(@, s, t),
                      !.adds = {Into(n, tags[s].name, tags[t].name) : n \in @}]]

TagsMayMerge(s, t) ==
  s # t /\ ~tags[t].archived /\ (tags[s].period = {} \/ tags[t].period \in {{}, tags[s].period})

MergeTags(s, t) ==
  /\ Edit
  /\ TagsMayMerge(s, t)
  /\ txns' = [id \in DOMAIN txns |-> [txns[id] EXCEPT !.tags = {Into(x, s, t) : x \in @}]]
  /\ rules' = TagRules(s, t)
  /\ tags' = [tags EXCEPT ![t].period = IF @ = {} THEN tags[s].period ELSE @,
                          ![s].period = {}, ![s].archived = TRUE]
  /\ UNCHANGED <<categories, templates, standing, model, seen>>

-----------------------------------------------------------------------------
\* RuleService.create and update, toggle and delete.  The category has the rule's type,
\* if it has one.
SaveRule(r, row) ==
  /\ Edit
  /\ row.sets # Null => /\ row.sets \in DOMAIN categories
                        /\ row.type \in {categories[row.sets].type, Null}
  /\ row.excludes # Null => row.excludes \in DOMAIN tags
  /\ rules' = Put(rules, r, row)
  /\ seen' = [seen EXCEPT !.forgotten = @ \ row.adds, !.merged = @ \ {row.sets}]
  /\ UNCHANGED <<categories, tags, templates, standing, txns, model>>

ToggleRule(r) ==
  /\ Edit
  /\ rules' = [rules EXCEPT ![r].enabled = ~@]
  /\ UNCHANGED <<categories, tags, templates, standing, txns, model, seen>>

DeleteRule(r) ==
  /\ Edit
  /\ rules' = Without(rules, {r})
  /\ UNCHANGED <<categories, tags, templates, standing, txns, model, seen>>

\* TransactionTemplateService.  The client fills the form for a new transaction from it.
SaveTemplate(name, c) ==
  /\ Edit
  /\ templates' = Put(templates, name, [type |-> categories[c].type, category |-> c])
  /\ UNCHANGED <<categories, tags, rules, standing, txns, model, seen>>

DeleteTemplate(name) ==
  /\ Edit
  /\ templates' = Without(templates, {name})
  /\ UNCHANGED <<categories, tags, rules, standing, txns, model, seen>>

-----------------------------------------------------------------------------
\* TransactionService.create with rules, then the model if it is sure.  C and T are the
\* tables before it; names are the tags given.
Classify(C, T, type, title, c, names, sure) ==
  LET given == Given(C, type, c)
      ruled == ByRules(C, type, title, given)
      guess == IF sure /\ Setting(C, type, title, given) = {} /\ C[ruled].name = Uncategorized
               THEN Eligible(C, type, title) ELSE {}
      table == WithTags(T, names \cup TagsByRules(T, type, title))
  IN [category |-> IF guess = {} THEN ruled ELSE Min(guess),
      guessed |-> guess # {},
      picked |-> Pick(C, c),
      table |-> table,
      tags |-> IdsOf(table, names \cup TagsByRules(T, type, title))]

Marked(it) == it.guessed

Store(C, T, type, title, c, names, sure) ==
  LET id == NewId(txns)
      it == Classify(C, T, type, title, c, names, sure)
  IN /\ id \in TxnId
     /\ DOMAIN C \subseteq CategoryId /\ DOMAIN it.table \subseteq TagId
     /\ categories' = C /\ tags' = it.table
     /\ txns' = Put(txns, id, [type |-> type, category |-> it.category, title |-> title,
                               tags |-> it.tags, posted |-> FALSE, auto |-> Marked(it),
                               dismissed |-> Null])
     /\ seen' = [seen EXCEPT !.merged = @ \ Live(C), !.forgotten = @ \ names,
                             !.picked = Put(@, id, it.picked),
                             !.guessed = IF it.guessed THEN @ \cup {id} ELSE @]

Create(type, title, c, names, sure) ==
  /\ Edit
  /\ c # Null => categories[c].type = type
  /\ Store(Prepared(categories, type, c), tags, type, title, c, names, sure)
  /\ UNCHANGED <<rules, templates, standing, model>>

\* IngestService.ingest_expense: a category in use by name, or one that is nearly so,
\* a new one, or an archived one restored; and the tags of the day.  Both commit before
\* the transaction is created.
InUse(name) == Named(categories, Expense, name) \cap Live(categories)
AlmostNamed(name) == UNION {InUse(n) : n \in {n \in CatName : <<name, n>> \in Near}}

Resolved(name) ==
  IF InUse(name) \cup AlmostNamed(name) # {} THEN categories
  ELSE IF Named(categories, Expense, name) # {}
  THEN [categories EXCEPT ![Min(Named(categories, Expense, name))].archived = FALSE]
  ELSE Put(categories, NewId(categories), [name |-> name, type |-> Expense, archived |-> FALSE])
ResolvedTo(name, C) ==
  IF InUse(name) = {} /\ AlmostNamed(name) # {} THEN AlmostNamed(name)
  ELSE Named(C, Expense, name) \cap Live(C)

Ingest(name, title, day, sure) ==
  /\ Edit
  /\ LET C == IF name = Null THEN Prepared(categories, Expense, Null) ELSE Resolved(name)
         days == NamesOf(tags, Attached(tags, day))
     IN IF name = Null THEN Store(C, tags, Expense, title, Null, days, sure)
        ELSE /\ Cardinality(ResolvedTo(name, C)) = 1
             /\ Store(C, tags, Expense, title, Min(ResolvedTo(name, C)), days, sure)
  /\ UNCHANGED <<rules, templates, standing, model>>

\* TransactionService.update.  names is Null when the request leaves the tags alone.
\* A guess stays marked while its category stays.
StillMarked(txn, c) == txn.auto /\ c = txn.category

Update(id, type, title, c, names) ==
  LET txn == txns[id]
      C == Prepared(categories, type, c)
      given == Given(C, type, c)
      ruled == ByRules(C, type, title, given)
      typed == IF names = Null THEN {} ELSE names
      table == WithTags(tags, typed \cup TagsByRules(tags, type, title))
      kept == IF names = Null THEN txn.tags ELSE IdsOf(table, names)
  IN /\ Edit
     /\ c # Null => categories[c].type = type
     /\ DOMAIN C \subseteq CategoryId /\ DOMAIN table \subseteq TagId
     /\ categories' = C /\ tags' = table
     /\ txns' = [txns EXCEPT ![id] =
          [txn EXCEPT !.type = type, !.title = title, !.category = ruled,
                      !.tags = kept \cup IdsOf(table, TagsByRules(tags, type, title)),
                      !.auto = StillMarked(txn, given)]]
     /\ seen' = [seen EXCEPT !.merged = @ \ Live(C), !.forgotten = @ \ typed,
                             !.picked[id] = IF given = txn.category THEN @ ELSE Pick(C, c),
                             !.guessed = IF given = txn.category THEN @ ELSE @ \ {id}]
     /\ UNCHANGED <<rules, templates, standing, model>>

\* api_transactions_bulk_apply: a category, or tags to add, remove or replace.
BulkCategory(ids, c) ==
  /\ Edit
  /\ \A id \in ids : txns[id].type = categories[c].type
  /\ txns' = [id \in DOMAIN txns |->
       IF id \in ids THEN [txns[id] EXCEPT !.category = c, !.auto = StillMarked(txns[id], c)]
       ELSE txns[id]]
  /\ LET moved == {id \in ids : txns[id].category # c}
     IN seen' = [seen EXCEPT !.guessed = @ \ moved,
                             !.picked = [id \in DOMAIN txns |->
                                           IF id \in moved THEN Pick(categories, c) ELSE @[id]]]
  /\ UNCHANGED <<categories, tags, rules, templates, standing, model>>

BulkTags(ids, mode, names) ==
  LET table == IF mode = "remove" THEN tags ELSE WithTags(tags, names)
      patched(old) == CASE mode = "add" -> old \cup IdsOf(table, names)
                        [] mode = "remove" -> old \ IdsOf(table, names)
                        [] mode = "replace" -> IdsOf(table, names)
  IN /\ Edit
     /\ DOMAIN table \subseteq TagId
     /\ tags' = table
     /\ txns' = [id \in DOMAIN txns |->
          IF id \in ids THEN [txns[id] EXCEPT !.tags = patched(@)] ELSE txns[id]]
     /\ IF mode = "remove" THEN UNCHANGED seen ELSE Typed(names)
     /\ UNCHANGED <<categories, rules, templates, standing, model>>

\* A recurring rule posts to its category, as it is.
PostRecurring(c, title) ==
  /\ Edit /\ NewId(txns) \in TxnId
  /\ txns' = Put(txns, NewId(txns),
                 [type |-> categories[c].type, category |-> c, title |-> title, tags |-> {},
                  posted |-> TRUE, auto |-> FALSE, dismissed |-> Null])
  /\ seen' = [seen EXCEPT !.picked = Put(@, NewId(txns), Null)]
  /\ UNCHANGED <<categories, tags, rules, templates, standing, model>>

\* api_dismiss_category_suggestion, on a suggestion that is shown.
Dismiss(id) ==
  /\ Edit
  /\ \E c \in Suggested(id) :
       /\ txns' = [txns EXCEPT ![id].dismissed = c]
       /\ seen' = [seen EXCEPT !.rejected = {r \in @ : r[1] # id} \cup {<<id, c>>}]
  /\ UNCHANGED <<categories, tags, rules, templates, standing, model>>

\* train_user, on training_rows: the expenses whose category somebody chose.
TrainingRows ==
  {id \in DOMAIN txns : LET c == categories[txns[id].category]
                        IN /\ txns[id].type = Expense /\ ~txns[id].posted /\ ~txns[id].auto
                           /\ ~c.archived /\ c.name # Uncategorized}
Train ==
  /\ Edit
  /\ model' \in [Title -> {txns[id].category : id \in TrainingRows} \cup {Null}]
  /\ UNCHANGED <<categories, tags, rules, templates, standing, txns, seen>>

-----------------------------------------------------------------------------
Init ==
  /\ categories = FirstCategories /\ tags = FirstTags
  /\ rules \in FirstRules /\ templates = <<>>
  /\ standing = FirstStanding
  /\ txns = FirstTxns
  /\ model \in [Title -> {txns[id].category : id \in TrainingRows} \cup {Null}]
  /\ seen = [merged |-> {}, forgotten |-> {}, guessed |-> {}, rejected |-> {},
             picked |-> [id \in DOMAIN txns |-> Pick(categories, txns[id].category)]]
  /\ edits = 0

CategoryNext ==
  \/ \E type \in Type, name \in CatName : CreateCategory(type, name)
  \/ \E c \in DOMAIN categories :
       \/ \E name \in CatName : UpdateCategory(c, name)
       \/ ArchiveCategory(c) \/ RestoreCategory(c)
       \/ \E t \in DOMAIN categories : MergeCategories(c, t)
       \/ \E name \in TemplateName : SaveTemplate(name, c)
  \/ \E name \in DOMAIN templates : DeleteTemplate(name)

TagNext ==
  \/ \E name \in TagName, period \in SUBSET Day : CreateTag(name, period)
  \/ \E t \in DOMAIN tags :
       \/ \E name \in TagName, period \in SUBSET Day : UpdateTag(t, name, period)
       \/ \E archived \in BOOLEAN : ArchiveTag(t, archived)
       \/ DeleteTag(t)
       \/ \E s \in DOMAIN tags : MergeTags(s, t)

RuleNext ==
  \/ \E r \in RuleId, row \in RuleInput : SaveRule(r, row)
  \/ \E r \in DOMAIN rules : ToggleRule(r) \/ DeleteRule(r)

TxnNext ==
  \/ \E type \in Type, title \in Title, names \in TagInput :
       \/ \E c \in DOMAIN categories \cup {Null}, sure \in BOOLEAN :
            Create(type, title, c, names, sure)
       \/ \E id \in DOMAIN txns, c \in DOMAIN categories \cup {Null} :
            Update(id, type, title, c, names) \/ Update(id, type, title, c, Null)
  \/ \E ids \in (SUBSET DOMAIN txns) \ {{}} :
       \/ \E c \in DOMAIN categories : BulkCategory(ids, c)
       \/ \E mode \in {"add", "remove", "replace"}, names \in TagInput :
            BulkTags(ids, mode, names)
  \/ \E name \in CatName \cup {Null}, title \in Title, day \in Day, sure \in BOOLEAN :
       Ingest(name, title, day, sure)
  \/ \E c \in standing, title \in Title : PostRecurring(c, title)
  \/ \E id \in DOMAIN txns : Dismiss(id)
  \/ Train

Next == CategoryNext \/ TagNext \/ RuleNext \/ TxnNext

Spec == Init /\ [][Next]_vars

-----------------------------------------------------------------------------
(* Properties                                                              *)

\* Lookups by name find one row, archived ones included, although four requests create or
\* restore them.
NamesAreUnique == UniqueNames(categories, tags)

\* A category is never under a transaction or template of another type, whatever rules
\* without a type, merges, guesses and edits that change the type did.
TypesAgree ==
  /\ \A id \in DOMAIN txns : categories[txns[id].category].type = txns[id].type
  /\ \A name \in DOMAIN templates : categories[templates[name].category].type = templates[name].type

\* A category merged into another stays out of use: neither rules, recurring rules nor
\* the model put a transaction in it, until a user or a client names it again.
MergedAwayStaysEmpty ==
  [][\A c \in seen.merged \cap seen'.merged, id \in DOMAIN txns' :
       /\ txns'[id].category = c /\ seen'.picked[id] # c
       /\ categories[c].name # Uncategorized
       => id \in DOMAIN txns /\ txns[id].category = c]_vars

\* A category that a user picked stays until another is picked, or it is merged: no rule,
\* guess or training replaces it.
ChoiceIsKept == \A id \in DOMAIN txns : seen.picked[id] \in {txns[id].category, Null}

\* The model does not learn from its own guesses.
LearnsFromPeople == TrainingRows \cap seen.guessed = {}

\* A category that was rejected for a transaction is not suggested for it again, trained
\* anew or merged: "A suggestion rejected for the source stays rejected for the target".
RejectedStaysRejected ==
  \A r \in seen.rejected : r[1] \in DOMAIN txns => r[2] \notin Suggested(r[1])

\* After two tags are merged, transactions, and the rules for new ones, have the target
\* wherever they had either, and no other tag changes hands; a day that gave a new
\* transaction either tag gives it the target.
WouldAdd(row) == IdsOf(tags, AddsNames(row, tags))
MergeMovesTags ==
  [][tags' # tags => \A s, t \in DOMAIN tags : MergeTags(s, t) =>
       LET moved(ids) == {Into(x, s, t) : x \in ids}
       IN /\ \A id \in DOMAIN txns : txns'[id].tags = moved(txns[id].tags)
          /\ \A r \in DOMAIN rules : WouldAdd(rules[r])' = moved(WouldAdd(rules[r]))
          /\ \A day \in Day : moved(Attached(tags, day)) \subseteq Attached(tags', day)]_vars

\* A deleted tag does not come back by itself: rules that added it do not create it again.
DeletedStaysGone == IdsOf(tags, seen.forgotten) = {}

-----------------------------------------------------------------------------
(* What the runs check: the properties above, by what they are about.      *)

\* A name finds one category or tag, and a category's type is its transactions', through
\* every order of creating, renaming, restoring, merging, posting and ingesting.
WellFormed == TypeOK /\ NamesAreUnique /\ TypesAgree

\* What a user decided stands: a category picked, a suggestion rejected, a tag deleted;
\* and the model learns from people only.
DecisionsStand == ChoiceIsKept /\ LearnsFromPeople /\ RejectedStaysRejected /\ DeletedStaysGone

\* A merge moves everything that would use the source to the target, and nothing brings
\* the source back by itself.
MergesStick == MergedAwayStaysEmpty /\ MergeMovesTags
=============================================================================
