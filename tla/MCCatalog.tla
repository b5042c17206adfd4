----------------------------- MODULE MCCatalog ------------------------------
(* Uncategorized, two expense categories and an income category of the     *)
(* same name, a name almost like theirs, two tags and one title; a sorted  *)
(* and an unsorted expense, with and without a rule and a trained model.   *)
(* Or the receipts of a transaction with room for one, two requests under  *)
(* way and three uploads: an id is given away again, the limit is passed.  *)
EXTENDS Catalog, TLC
CONSTANTS income, expense, food, fun, foot, trip, work, t1,
          Client, Txn, MaxAttachments, MaxKey
VARIABLES owners, rows, files, thumbs, uploads, requests, lock, asked, slips, part
R == INSTANCE Receipts WITH txns <- owners
ASSUME ReceiptsConstants == R!ReceiptsAssumption
receipts == <<owners, rows, files, thumbs, uploads, requests, lock, asked, slips>>

PartInit ==
  /\ Init /\ R!Init /\ part \in {"catalog", "receipts"}
  /\ part = "receipts" => rules = <<>> /\ Range(model) = {Null}
PartNext ==
  /\ \/ part = "catalog" /\ edits < MaxEdits /\ Next /\ UNCHANGED receipts
     \/ part = "receipts" /\ R!Next /\ UNCHANGED vars
  /\ UNCHANGED part
PartSpec == PartInit /\ [][PartNext]_<<vars, receipts, part>>
Symmetry == Permutations(Client)

MCType == {expense, income}
MCCatName == {Uncategorized, food, fun, foot}
MCNear == {<<food, foot>>, <<foot, food>>}
MCFirstCategories ==
  <<[name |-> Uncategorized, type |-> expense, archived |-> FALSE],
    [name |-> food, type |-> expense, archived |-> FALSE],
    [name |-> fun, type |-> expense, archived |-> FALSE],
    [name |-> food, type |-> income, archived |-> FALSE]>>
MCFirstTags ==
  <<[name |-> trip, archived |-> FALSE, period |-> {1}],
    [name |-> work, archived |-> FALSE, period |-> {}]>>
\* Rules for expenses and for either type, that set a category of either or add tags
\* by name and by id.
MCRuleInput ==
  {[type |-> ty, title |-> t1, sets |-> c, adds |-> {}, excludes |-> Null, enabled |-> TRUE] :
     ty \in {expense, Null}, c \in {2, 4}}
  \cup
  {[type |-> Null, title |-> t1, sets |-> Null, adds |-> a, excludes |-> x, enabled |-> TRUE] :
     a \in {{trip, work}}, x \in {1, Null}}
MCFirstRules ==
  {<<>>} \cup
  {<<row>> : row \in {r \in MCRuleInput : r.type = Null /\ r.sets = 2}}
MCRow(c, ids) == [type |-> expense, category |-> c, title |-> t1, tags |-> ids,
                  posted |-> FALSE, auto |-> FALSE, dismissed |-> Null]
MCFirstTxns == <<MCRow(2, {1}), MCRow(1, {})>>

\* A listed receipt has its file and its own thumbnail, no file is left behind, and the
\* limit is passed by overlapping uploads only, but for the accidents that Receipts names
\* (Receipts.RowsHaveFiles, NoOrphans, ThumbnailsMatch, LimitHolds).
ReceiptsHold == R!TypeOK /\ R!RowsHaveFiles /\ R!NoOrphans /\ R!ThumbnailsMatch /\ R!LimitHolds
=============================================================================
