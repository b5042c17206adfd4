--------------------------- MODULE CatalogProofs ----------------------------
(***************************************************************************)
(* Proofs about Catalog for any names, any number of categories, tags,     *)
(* rules and transactions, and any first tables that are well formed; and  *)
(* about Receipts, which MCCatalog instantiates as R, for any number of    *)
(* requests under way, transactions, receipts allowed and uploads.         *)
(*                                                                         *)
(* The inductive invariant of Catalog adds to WellFormed what makes        *)
(* decisions last: a category somebody picked is not the one that rules    *)
(* replace, a guess is marked, a rejection is kept with the transaction,   *)
(* no rule adds a forgotten tag, and what is merged away is archived and   *)
(* has no rule left.  Every request writes the categories and tags through *)
(* the same few operators, whose facts come first.  The receipts and their *)
(* invariant follow at the end.                                            *)
(***************************************************************************)
EXTENDS MCCatalog, DataLemmas

\* Category and tag tables by themselves.
CategoriesOK(C) ==
  /\ DOMAIN C \subseteq Nat \ {0} /\ C \in [DOMAIN C -> Category]
  /\ \A c, d \in DOMAIN C : C[c].type = C[d].type /\ C[c].name = C[d].name => c = d
TagsOK(T) ==
  /\ DOMAIN T \subseteq Nat \ {0} /\ T \in [DOMAIN T -> Tag]
  /\ \A t, u \in DOMAIN T : T[t].name = T[u].name => t = u

\* C is D with categories restored and added, and U is T with tags of these names added.
Grows(D, C) ==
  /\ CategoriesOK(C) /\ DOMAIN D \subseteq DOMAIN C
  /\ \A c \in DOMAIN D : C[c].name = D[c].name /\ C[c].type = D[c].type
Tagged(T, U, names) ==
  /\ TagsOK(U) /\ DOMAIN T \subseteq DOMAIN U
  /\ \A t \in DOMAIN T : U[t] = T[t]
  /\ \A t \in DOMAIN U \ DOMAIN T : U[t].name \in names

-----------------------------------------------------------------------------
(* The tables                                                              *)

\* An id that is given away is a new one.
LEMMA NewIdIsNew ==
  ASSUME NEW n \in Nat, NEW table, DOMAIN table \subseteq 1..n
  PROVE  /\ NewId(table) \in Nat \ {0}
         /\ \A k \in DOMAIN table : k < NewId(table)
<1>1. CASE DOMAIN table = {}
  BY <1>1 DEF NewId
<1>2. CASE DOMAIN table # {}
  <2>1. IsFiniteSet(DOMAIN table)
    <3>1. IsFiniteSet(1..n)
      BY FS_Interval
    <3> QED BY <3>1, FS_Subset
  <2>2. Max(DOMAIN table) \in DOMAIN table /\ \A y \in DOMAIN table : Max(DOMAIN table) >= y
    BY <1>2, <2>1, MaxInSet
  <2>3. NewId(table) = Max(DOMAIN table) + 1
    BY <1>2 DEF NewId
  <2> DEFINE m == Max(DOMAIN table)
  <2> HIDE DEF m
  <2>4. m \in Nat /\ NewId(table) = m + 1 /\ \A k \in DOMAIN table : k \in Nat /\ k <= m
    BY <2>2, <2>3 DEF m
  <2> QED BY <2>4
<1> QED BY <1>1, <1>2

LEMMA ArchivingGrows ==
  ASSUME NEW D, CategoriesOK(D), NEW k \in DOMAIN D, NEW archived \in BOOLEAN,
         NEW C, C = [D EXCEPT ![k].archived = archived]
  PROVE  Grows(D, C) /\ DOMAIN C = DOMAIN D /\ C[k].archived = archived
<1>1. DOMAIN C = DOMAIN D /\ C = [c \in DOMAIN D |-> C[c]]
  OBVIOUS
<1>2. ASSUME NEW c \in DOMAIN D
      PROVE  C[c] \in Category /\ C[c].name = D[c].name /\ C[c].type = D[c].type
  BY <1>2 DEF CategoriesOK, Category
<1>3. C[k].archived = archived
  BY DEF CategoriesOK, Category
<1>4. C \in [DOMAIN C -> Category]
  BY <1>1, <1>2
<1>5. Grows(D, C)
  BY <1>1, <1>2, <1>4 DEF Grows, CategoriesOK
<1> QED BY <1>1, <1>3, <1>5

LEMMA AddedGrows ==
  ASSUME NEW D, DOMAIN D \subseteq CategoryId, CategoriesOK(D),
         NEW type \in Type, NEW name \in CatName, Named(D, type, name) = {},
         NEW row, row = [name |-> name, type |-> type, archived |-> FALSE]
  PROVE  /\ Grows(D, Put(D, NewId(D), row))
         /\ NewId(D) \in DOMAIN Put(D, NewId(D), row) \ DOMAIN D
         /\ Put(D, NewId(D), row)[NewId(D)] = row
<1> DEFINE k == NewId(D)
<1>1. k \in Nat \ {0} /\ k \notin DOMAIN D
  <2>1. \A c \in DOMAIN D : c < NewId(D) /\ c \in Nat
    BY NewIdIsNew, CatalogAssumption DEF CategoryId, CategoriesOK
  <2> QED BY <2>1, NewIdIsNew, CatalogAssumption DEF CategoryId
<1> HIDE DEF k
<1>2. \A c \in DOMAIN D : ~(D[c].type = type /\ D[c].name = name)
  BY DEF Named
<1> QED BY <1>1, <1>2 DEF Grows, CategoriesOK, Category, Put, k

LEMMA Same ==
  ASSUME NEW D, CategoriesOK(D)
  PROVE  Grows(D, D)
  BY DEF Grows

\* The category a transaction is prepared with: a given one, or Uncategorized in use.
LEMMA PreparedFacts ==
  ASSUME NEW D, DOMAIN D \subseteq CategoryId, CategoriesOK(D), NEW type \in Type,
         NEW c \in DOMAIN D \cup {Null}, c # Null => D[c].type = type
  PROVE  LET C == Prepared(D, type, c)
         IN /\ Grows(D, C)
            /\ Given(C, type, c) \in DOMAIN C /\ C[Given(C, type, c)].type = type
            /\ IF c = Null THEN C[Given(C, type, c)].name = Uncategorized
               ELSE Given(C, type, c) = c /\ C = D
<1>1. CASE c # Null
  BY <1>1, Same DEF Prepared, Given
<1>2. CASE c = Null
  <2> DEFINE C == Prepared(D, type, c)
             there == Named(D, type, Uncategorized)
             first == Put(D, NewId(D), [name |-> Uncategorized, type |-> type,
                                        archived |-> FALSE])
  <2>1. C = WithUncategorized(D, type) /\ Uncategorized \in CatName
    BY <1>2, CatalogAssumption DEF Prepared
  <2>2. Grows(D, C) /\ Named(C, type, Uncategorized) \cap Live(C) # {}
    <3>1. CASE there \cap Live(D) # {}
      BY <2>1, <3>1, Same DEF WithUncategorized
    <3>2. CASE there \cap Live(D) = {} /\ there # {}
      <4>1. C = [D EXCEPT ![Min(there)].archived = FALSE]
        BY <2>1, <3>2 DEF WithUncategorized
      <4>2. Min(there) \in there /\ there \subseteq DOMAIN D
        BY <3>2, MinOfNaturals DEF Named, CategoriesOK
      <4>3. Grows(D, C)
        BY <2>1, <4>1, <4>2, ArchivingGrows
      <4>4. Min(there) \in Named(C, type, Uncategorized) \cap Live(C)
        <5> HIDE DEF there
        <5>1. Min(there) \in DOMAIN D /\ D[Min(there)].type = type
              /\ D[Min(there)].name = Uncategorized
          BY <4>2 DEF Named, there
        <5>2. ~C[Min(there)].archived
          BY <4>1, <5>1, ArchivingGrows
        <5> HIDE DEF C
        <5> QED BY <4>3, <5>1, <5>2 DEF Named, Live, Grows
      <4> QED BY <4>3, <4>4
    <3>3. CASE there = {}
      <4>1. C = first
        BY <2>1, <3>3 DEF WithUncategorized
      <4>2. Grows(D, first) /\ NewId(D) \in DOMAIN first
            /\ first[NewId(D)] = [name |-> Uncategorized, type |-> type, archived |-> FALSE]
        <5> HIDE DEF C
        <5> QED BY <2>1, <3>3, AddedGrows
      <4>3. NewId(D) \in Named(first, type, Uncategorized) \cap Live(first)
        <5> HIDE DEF first
        <5>1. first[NewId(D)].type = type /\ first[NewId(D)].name = Uncategorized
              /\ ~first[NewId(D)].archived
          BY <4>2
        <5> QED BY <4>2, <5>1 DEF Named, Live
      <4> QED BY <4>1, <4>2, <4>3
    <3> QED BY <3>1, <3>2, <3>3
  <2> HIDE DEF C
  <2>3. Named(C, type, Uncategorized) \cap Live(C) \subseteq Nat
    BY <2>2 DEF Named, Grows, CategoriesOK
  <2>4. Given(C, type, c) \in Named(C, type, Uncategorized)
    BY <1>2, <2>2, <2>3, MinOfNaturals DEF Given
  <2> QED BY <1>2, <2>2, <2>4 DEF Named, C
<1> QED BY <1>1, <1>2

\* The category that ingest finds, restores or creates.
LEMMA ResolvedFacts ==
  ASSUME DOMAIN categories \subseteq CategoryId, CategoriesOK(categories),
         NEW name \in CatName, Cardinality(ResolvedTo(name, Resolved(name))) = 1
  PROVE  LET C == Resolved(name)
             c == Min(ResolvedTo(name, C))
         IN Grows(categories, C) /\ c \in DOMAIN C /\ C[c].type = Expense
<1> DEFINE C == Resolved(name)
           found == Named(categories, Expense, name)
           row == [name |-> name, type |-> Expense, archived |-> FALSE]
<1>1. Grows(categories, C)
  <2>1. CASE InUse(name) \cup AlmostNamed(name) # {}
    BY <2>1, Same DEF Resolved
  <2>2. CASE InUse(name) \cup AlmostNamed(name) = {} /\ found # {}
    <3>1. C = [categories EXCEPT ![Min(found)].archived = FALSE]
      BY <2>2 DEF Resolved
    <3>2. Min(found) \in DOMAIN categories
      <4>1. found \subseteq DOMAIN categories /\ found \subseteq Nat
        BY DEF Named, CategoriesOK
      <4> HIDE DEF found
      <4> QED BY <2>2, <4>1, MinOfNaturals
    <3>3. PICK k \in DOMAIN categories : k = Min(found)
      BY <3>2
    <3>4. C = [categories EXCEPT ![k].archived = FALSE] /\ FALSE \in BOOLEAN
      BY <3>1, <3>3
    <3> HIDE DEF C, found
    <3> QED BY <3>4, ArchivingGrows
  <2>3. CASE InUse(name) \cup AlmostNamed(name) = {} /\ found = {}
    <3>1. C = Put(categories, NewId(categories), row)
      BY <2>3 DEF Resolved
    <3>2. Expense \in Type /\ found = {}
      BY <2>3, CatalogAssumption
    <3> HIDE DEF C
    <3> QED BY <3>1, <3>2, AddedGrows
  <2> QED BY <2>1, <2>2, <2>3
<1>2. \A c \in ResolvedTo(name, C) : c \in DOMAIN C /\ C[c].type = Expense
  <2>1. CASE InUse(name) = {} /\ AlmostNamed(name) # {}
    <3>1. C = categories /\ ResolvedTo(name, C) = AlmostNamed(name)
      BY <2>1 DEF Resolved, ResolvedTo
    <3> HIDE DEF C
    <3> QED BY <3>1 DEF AlmostNamed, InUse, Named
  <2>2. CASE ~(InUse(name) = {} /\ AlmostNamed(name) # {})
    <3> HIDE DEF C
    <3> QED BY <2>2 DEF ResolvedTo, Named
  <2> QED BY <2>1, <2>2
<1> HIDE DEF C
<1>3. ResolvedTo(name, C) # {} /\ ResolvedTo(name, C) \subseteq Nat
  <2>1. Cardinality(ResolvedTo(name, C)) = 1
    BY DEF C
  <2>2. DOMAIN C \subseteq Nat
    BY <1>1 DEF Grows, CategoriesOK
  <2> QED BY <1>2, <2>1, <2>2, FS_EmptySet
<1>4. Min(ResolvedTo(name, C)) \in ResolvedTo(name, C)
  BY <1>3, MinOfNaturals
<1> QED BY <1>1, <1>2, <1>4 DEF C

\* The elements of a finite set in some order, each once.
LEMMA SetToSeqFacts ==
  ASSUME NEW S, IsFiniteSet(S)
  PROVE  /\ SetToSeq(S) \in Seq(S)
         /\ Len(SetToSeq(S)) \in Nat
         /\ \A i, j \in 1..Len(SetToSeq(S)) : SetToSeq(S)[i] = SetToSeq(S)[j] => i = j
<1>1. Cardinality(S) \in Nat /\ ExistsBijection(1..Cardinality(S), S)
  BY FS_CardinalityType
<1>2. \E f \in [1..Cardinality(S) -> S] : IsInjective(f)
  BY <1>1 DEF ExistsBijection, Bijection, Injection
<1>3. SetToSeq(S) \in [1..Cardinality(S) -> S] /\ IsInjective(SetToSeq(S))
  BY <1>2 DEF SetToSeq
<1> HIDE DEF SetToSeq
<1>4. SetToSeq(S) \in Seq(S) /\ Len(SetToSeq(S)) = Cardinality(S)
  BY <1>1, <1>3
<1>5. \A i, j \in 1..Cardinality(S) : SetToSeq(S)[i] = SetToSeq(S)[j] => i = j
  BY <1>3 DEF IsInjective
<1> QED BY <1>1, <1>4, <1>5

LEMMA WithTagsFacts ==
  ASSUME NEW T, DOMAIN T \subseteq TagId, TagsOK(T), NEW names \in SUBSET TagName
  PROVE  /\ Tagged(T, WithTags(T, names), names)
         /\ names \subseteq NamesOf(T, DOMAIN T) => WithTags(T, names) = T
<1> DEFINE left == names \ NamesOf(T, DOMAIN T)
           new == SetToSeq(left)
           first == NewId(T)
           ids == first..(first + Len(new) - 1)
           U == WithTags(T, names)
<1>1. IsFiniteSet(left)
  <2>1. IsFiniteSet(TagName)
    BY CatalogAssumption
  <2> QED BY <2>1, FS_Subset
<1>2. /\ new \in Seq(left) /\ Len(new) \in Nat
      /\ \A i, j \in 1..Len(new) : new[i] = new[j] => i = j
  <2> HIDE DEF left
  <2> QED BY <1>1, SetToSeqFacts
<1>3. first \in Nat \ {0} /\ \A t \in DOMAIN T : t \in Nat /\ t < first
  BY NewIdIsNew, CatalogAssumption DEF TagId, TagsOK
<1>4. U = [t \in DOMAIN T \cup ids |->
             IF t \in DOMAIN T THEN T[t]
             ELSE [name |-> new[t - first + 1], archived |-> FALSE, period |-> {}]]
  BY DEF WithTags
<1> HIDE DEF new, first, U
<1>5. ASSUME NEW t \in ids
      PROVE  t \in Nat \ {0} /\ t \notin DOMAIN T /\ t - first + 1 \in 1..Len(new)
  BY <1>2, <1>3
<1>6. ASSUME NEW t \in ids
      PROVE  U[t].name = new[t - first + 1] /\ U[t].name \in left /\ U[t] \in Tag
  <2>1. t \notin DOMAIN T /\ t - first + 1 \in 1..Len(new)
    BY <1>5
  <2>2. left \subseteq TagName
    OBVIOUS
  <2> HIDE DEF left, ids
  <2>3. U[t] = [name |-> new[t - first + 1], archived |-> FALSE, period |-> {}]
    BY <1>4, <1>6, <2>1
  <2>4. new[t - first + 1] \in left
    BY <1>2, <2>1
  <2> QED BY <2>2, <2>3, <2>4 DEF Tag
<1>7. \A t \in DOMAIN T : U[t] = T[t]
  BY <1>4
<1>8. DOMAIN U = DOMAIN T \cup ids
  BY <1>4
<1>9. U \in [DOMAIN U -> Tag] /\ DOMAIN U \subseteq Nat \ {0}
  <2>1. \A t \in DOMAIN U : U[t] \in Tag
    <3>1. \A t \in ids : U[t] \in Tag
      <4> HIDE DEF ids
      <4> QED BY <1>6
    <3>2. \A t \in DOMAIN T : T[t] \in Tag
      BY DEF TagsOK
    <3> HIDE DEF ids
    <3> QED BY <1>7, <1>8, <3>1, <3>2
  <2>2. U = [t \in DOMAIN U |-> U[t]]
    BY <1>4
  <2>3. DOMAIN U \subseteq Nat \ {0}
    <3>1. ids \subseteq Nat \ {0}
      BY <1>5
    <3> HIDE DEF ids
    <3> QED BY <1>8, <3>1 DEF TagsOK
  <2> QED BY <2>1, <2>2, <2>3
<1>10. ASSUME NEW t \in DOMAIN U, NEW u \in DOMAIN U, U[t].name = U[u].name
       PROVE  t = u
  <2>1. CASE t \in DOMAIN T /\ u \in DOMAIN T
    BY <1>7, <1>10, <2>1 DEF TagsOK
  <2>2. CASE t \in ids /\ u \in ids
    <3>1. t - first + 1 = u - first + 1
      <4>1. new[t - first + 1] = new[u - first + 1]
        <5>1. U[t].name = new[t - first + 1] /\ U[u].name = new[u - first + 1]
          <6> HIDE DEF ids
          <6> QED BY <1>6, <2>2
        <5> QED BY <1>10, <5>1
      <4>2. t - first + 1 \in 1..Len(new) /\ u - first + 1 \in 1..Len(new)
        BY <1>5, <2>2
      <4> QED BY <1>2, <4>1, <4>2
    <3>2. t \in Nat /\ u \in Nat
      BY <1>5, <2>2
    <3> QED BY <1>3, <3>1, <3>2
  <2>3. \A a \in DOMAIN T, b \in ids : U[a].name # U[b].name
    <3>1. \A a \in DOMAIN T : U[a].name \in NamesOf(T, DOMAIN T)
      BY <1>7 DEF NamesOf
    <3>2. \A b \in ids : U[b].name \notin NamesOf(T, DOMAIN T)
      <4>1. \A b \in ids : U[b].name \in left
        <5> HIDE DEF ids, left
        <5> QED BY <1>6
      <4> HIDE DEF ids
      <4> QED BY <4>1
    <3> HIDE DEF ids
    <3> QED BY <3>1, <3>2
  <2> HIDE DEF ids
  <2> QED BY <1>8, <1>10, <2>1, <2>2, <2>3
<1>11. \A t \in DOMAIN U \ DOMAIN T : U[t].name \in names
  <2> HIDE DEF ids
  <2> QED BY <1>6, <1>8
<1>12. Tagged(T, U, names)
  <2> HIDE DEF ids, left
  <2> QED BY <1>7, <1>8, <1>9, <1>10, <1>11 DEF Tagged, TagsOK
<1>13. ASSUME names \subseteq NamesOf(T, DOMAIN T) PROVE U = T
  <2>1. ids = {}
    <3>1. left = {}
      BY <1>13
    <3>2. ids \subseteq {}
      <4> HIDE DEF left, ids
      <4> QED BY <1>6, <3>1
    <3> QED BY <3>2
  <2>2. DOMAIN U = DOMAIN T /\ U = [t \in DOMAIN U |-> U[t]]
    <3> HIDE DEF ids
    <3> QED BY <1>4, <2>1
  <2>3. T = [t \in DOMAIN T |-> T[t]]
    BY DEF TagsOK
  <2> QED BY <1>7, <2>2, <2>3
<1> QED BY <1>12, <1>13 DEF U

-----------------------------------------------------------------------------
(* The inductive invariant                                                 *)

\* Templates and recurring rules post to categories there are.
PostsOK ==
  /\ \A name \in DOMAIN templates : templates[name].category \in DOMAIN categories
  /\ standing \subseteq DOMAIN categories

SeenOK ==
  seen \in [merged : SUBSET CategoryId, forgotten : SUBSET TagName, guessed : SUBSET TxnId,
            rejected : SUBSET (TxnId \X CategoryId),
            picked : [DOMAIN txns -> CategoryId \cup {Null}]]

\* A picked category is not one that rules replace, a guess is marked, and the last
\* rejection is the one the transaction remembers.
ChoicesOK ==
  /\ \A id \in DOMAIN txns :
       seen.picked[id] # Null => /\ seen.picked[id] = txns[id].category
                                 /\ categories[seen.picked[id]].name # Uncategorized
  /\ \A id \in seen.guessed : id \in DOMAIN txns /\ txns[id].auto
  /\ \A r \in seen.rejected : r[1] \in DOMAIN txns /\ txns[r[1]].dismissed = r[2]

\* No tag and no rule has a forgotten name.
ForgottenOK ==
  /\ \A t \in DOMAIN tags : tags[t].name \notin seen.forgotten
  /\ \A r \in DOMAIN rules : rules[r].adds \cap seen.forgotten = {}

\* What is merged away is archived, and nothing posts to it by itself.
MergedOK ==
  /\ \A c \in seen.merged : c \in DOMAIN categories /\ categories[c].archived
  /\ \A c \in seen.merged : c \notin standing /\ \A r \in DOMAIN rules : rules[r].sets # c

\* What MergedAwayStaysEmpty says of a step.
StaysEmpty ==
  \A c \in seen.merged \cap seen'.merged, id \in DOMAIN txns' :
    /\ txns'[id].category = c /\ seen'.picked[id] # c
    /\ categories[c].name # Uncategorized
    => id \in DOMAIN txns /\ txns[id].category = c

CatalogInv == WellFormed /\ PostsOK /\ SeenOK /\ ChoicesOK /\ ForgottenOK /\ MergedOK

LEMMA TablesAre ==
  ASSUME WellFormed
  PROVE  /\ CategoriesOK(categories) /\ DOMAIN categories \subseteq CategoryId
         /\ TagsOK(tags) /\ DOMAIN tags \subseteq TagId
         /\ DOMAIN rules \subseteq RuleId /\ \A r \in DOMAIN rules : rules[r] \in Rule
         /\ \A r \in DOMAIN rules : /\ rules[r].sets \in DOMAIN categories \cup {Null}
                                    /\ rules[r].excludes \in DOMAIN tags \cup {Null}
         /\ DOMAIN txns \subseteq TxnId /\ txns \in [DOMAIN txns -> Transaction]
         /\ \A id \in DOMAIN txns : /\ txns[id].category \in DOMAIN categories
                                    /\ txns[id].tags \subseteq DOMAIN tags
                                    /\ categories[txns[id].category].type = txns[id].type
  BY DEF WellFormed, TypeOK, TablesOK, NamesAreUnique, UniqueNames, TypesAgree, CategoriesOK,
         TagsOK, CategoryId, TagId

(* What requests do to the tables keeps them well formed.                  *)
LEMMA TablesKeep ==
  ASSUME WellFormed, PostsOK, NEW names \in SUBSET TagName,
         Grows(categories, categories'), DOMAIN categories' \subseteq CategoryId,
         Tagged(tags, tags', names), DOMAIN tags' \subseteq TagId,
         UNCHANGED <<rules, templates, standing>>,
         DOMAIN txns' \subseteq TxnId, txns' \in [DOMAIN txns' -> Transaction],
         \A id \in DOMAIN txns' : /\ txns'[id].category \in DOMAIN categories'
                                  /\ categories'[txns'[id].category].type = txns'[id].type
                                  /\ txns'[id].tags \subseteq DOMAIN tags'
  PROVE  WellFormed' /\ PostsOK'
<1>1. CategoriesOK(categories') /\ TagsOK(tags')
  BY DEF Grows, Tagged
<1>2. TypeOK'
  BY <1>1 DEF Grows, Tagged, CategoriesOK, TagsOK, WellFormed, TypeOK, TablesOK
<1>3. NamesAreUnique'
  BY <1>1 DEF CategoriesOK, TagsOK, NamesAreUnique, UniqueNames
<1>4. \A c \in DOMAIN categories : c \in DOMAIN categories'
                                  /\ categories'[c].type = categories[c].type
  BY DEF Grows
<1>5. TypesAgree' /\ PostsOK'
  BY <1>4 DEF TypesAgree, PostsOK, WellFormed
<1> QED BY <1>2, <1>3, <1>5 DEF WellFormed

LEMMA ForgottenKeeps ==
  ASSUME ForgottenOK, NEW names, Tagged(tags, tags', names), UNCHANGED rules,
         seen'.forgotten \subseteq seen.forgotten, names \cap seen'.forgotten = {}
  PROVE  ForgottenOK'
<1>1. \A t \in DOMAIN tags' : tags'[t].name \notin seen'.forgotten
  BY DEF ForgottenOK, Tagged
<1> QED BY <1>1 DEF ForgottenOK

LEMMA MergedKeeps ==
  ASSUME MergedOK, Grows(categories, categories'), UNCHANGED <<rules, standing>>,
         seen'.merged \subseteq seen.merged,
         \A c \in seen'.merged : categories'[c].archived
  PROVE  MergedOK'
  BY DEF MergedOK, Grows

\* Restoring in passing takes a category off the merged ones.
LEMMA RevivedKeeps ==
  ASSUME MergedOK, Grows(categories, categories'), UNCHANGED <<rules, standing>>,
         seen'.merged = seen.merged \ Live(categories')
  PROVE  MergedOK'
<1>1. \A c \in seen'.merged : c \in DOMAIN categories' /\ c \notin Live(categories')
  BY DEF MergedOK, Grows
<1>2. \A c \in seen'.merged : categories'[c].archived
  BY <1>1 DEF Live
<1> QED BY <1>2, MergedKeeps

-----------------------------------------------------------------------------
(* Classification                                                          *)

\* Rules keep the type, and replace Uncategorized only.
LEMMA ByRulesFacts ==
  ASSUME WellFormed, NEW C, Grows(categories, C), NEW type, NEW title,
         NEW c \in DOMAIN C, C[c].type = type
  PROVE  LET ruled == ByRules(C, type, title, c)
         IN /\ ruled \in DOMAIN C /\ C[ruled].type = type
            /\ Setting(C, type, title, c) = {} => ruled = c
            /\ ruled # c => /\ C[c].name = Uncategorized
                            /\ \E r \in DOMAIN rules : rules[r].sets = ruled
<1> DEFINE setting == Setting(C, type, title, c)
           ruled == ByRules(C, type, title, c)
<1>1. CASE setting = {}
  BY <1>1 DEF ByRules
<1>2. CASE setting # {}
  <2>1. setting \subseteq DOMAIN rules /\ DOMAIN rules \subseteq Nat
    BY TablesAre, CatalogAssumption DEF Setting, Matching
  <2>2. Min(setting) \in setting
    <3> HIDE DEF setting
    <3> QED BY <1>2, <2>1, MinOfNaturals
  <2>3. PICK r \in DOMAIN rules : r = Min(setting)
    BY <2>1, <2>2
  <2>4. C[c].name = Uncategorized /\ rules[r].sets # Null /\ C[rules[r].sets].type = type
    BY <2>2, <2>3 DEF Setting
  <2>5. ruled = rules[r].sets
    BY <1>2, <2>3 DEF ByRules
  <2>6. rules[r].sets \in DOMAIN C
    BY <2>4, TablesAre DEF Grows
  <2> HIDE DEF ruled, setting
  <2> QED BY <1>2, <2>4, <2>5, <2>6 DEF ruled, setting
<1> QED BY <1>1, <1>2

LEMMA TagsByRulesFacts ==
  ASSUME WellFormed, NEW type, NEW title
  PROVE  /\ TagsByRules(tags, type, title) \subseteq TagName
         /\ ForgottenOK => TagsByRules(tags, type, title) \cap seen.forgotten = {}
<1>1. ASSUME NEW r \in Matching(type, title)
      PROVE  /\ AddsNames(rules[r], tags) \subseteq TagName
             /\ ForgottenOK => AddsNames(rules[r], tags) \cap seen.forgotten = {}
  <2>1. r \in DOMAIN rules
    BY <1>1 DEF Matching
  <2>2. rules[r].adds \subseteq TagName
    BY <2>1, TablesAre DEF Rule
  <2>3. rules[r].excludes # Null => /\ rules[r].excludes \in DOMAIN tags
                                    /\ tags[rules[r].excludes].name \in TagName
    BY <2>1, TablesAre DEF TagsOK, Tag
  <2> QED BY <2>1, <2>2, <2>3 DEF AddsNames, ForgottenOK
<1> QED BY <1>1 DEF TagsByRules

\* What a new transaction is given: a category of its type, a guess only in the place of
\* Uncategorized, and tags that are in the table then.
LEMMA ClassifyFacts ==
  ASSUME WellFormed, NEW C, Grows(categories, C), NEW type \in Type, NEW title \in Title,
         NEW c \in DOMAIN C \cup {Null}, Given(C, type, c) \in DOMAIN C,
         C[Given(C, type, c)].type = type,
         IF c = Null THEN C[Given(C, type, c)].name = Uncategorized ELSE Given(C, type, c) = c,
         NEW names \in SUBSET TagName, NEW sure \in BOOLEAN
  PROVE  LET it == Classify(C, tags, type, title, c, names, sure)
             added == names \cup TagsByRules(tags, type, title)
         IN /\ it.category \in DOMAIN C /\ C[it.category].type = type
            /\ it.guessed \in BOOLEAN /\ it.picked = Pick(C, c)
            /\ it.picked # Null => /\ it.picked = it.category /\ it.picked = c
                                   /\ C[it.picked].name # Uncategorized /\ ~it.guessed
            /\ it.table = WithTags(tags, added) /\ Tagged(tags, it.table, added)
            /\ it.tags \subseteq DOMAIN it.table
            /\ \/ it.category = c \/ C[it.category].name = Uncategorized
               \/ it.category \in Live(C)
               \/ \E r \in DOMAIN rules : rules[r].sets = it.category
<1> DEFINE it == Classify(C, tags, type, title, c, names, sure)
           added == names \cup TagsByRules(tags, type, title)
           given == Given(C, type, c)
           ruled == ByRules(C, type, title, given)
           guess == IF sure /\ Setting(C, type, title, given) = {} /\ C[ruled].name = Uncategorized
                    THEN Eligible(C, type, title) ELSE {}
<1>1. it = [category |-> IF guess = {} THEN ruled ELSE Min(guess),
            guessed |-> guess # {}, picked |-> Pick(C, c),
            table |-> WithTags(tags, added), tags |-> IdsOf(WithTags(tags, added), added)]
  BY DEF Classify
<1>2. /\ ruled \in DOMAIN C /\ C[ruled].type = type
      /\ ruled # given => /\ C[given].name = Uncategorized
                          /\ \E r \in DOMAIN rules : rules[r].sets = ruled
  BY ByRulesFacts
<1>3. guess # {} => Min(guess) \in DOMAIN C /\ C[Min(guess)].type = type
                    /\ Min(guess) \in Live(C) /\ C[ruled].name = Uncategorized
  <2>1. guess \subseteq Eligible(C, type, title) /\ Eligible(C, type, title) \subseteq DOMAIN C
    BY DEF Eligible, Live
  <2>2. DOMAIN C \subseteq Nat
    BY DEF Grows, CategoriesOK
  <2>3. guess # {} => Min(guess) \in guess
    <3> HIDE DEF guess
    <3> QED BY <2>1, <2>2, MinOfNaturals
  <2>4. guess # {} => C[ruled].name = Uncategorized
    OBVIOUS
  <2> HIDE DEF guess
  <2> QED BY <2>1, <2>3, <2>4 DEF Eligible
<1>4. added \subseteq TagName
  BY TagsByRulesFacts
<1>5. Tagged(tags, WithTags(tags, added), added)
  <2> HIDE DEF added
  <2> QED BY <1>4, TablesAre, WithTagsFacts
<1>6. IdsOf(WithTags(tags, added), added) \subseteq DOMAIN WithTags(tags, added)
  BY DEF IdsOf
<1>7. Pick(C, c) # Null => Pick(C, c) = c /\ c # Null /\ C[c].name # Uncategorized
  BY DEF Pick
<1>8. c # Null => given = c
  OBVIOUS
<1>9. c = Null => C[given].name = Uncategorized
  OBVIOUS
<1> HIDE DEF it, added, given, ruled, guess
<1>10. it.picked # Null => ruled = c /\ guess = {} /\ it.picked = c /\ C[c].name # Uncategorized
  <2>1. it.picked # Null => it.picked = c /\ given = c /\ C[c].name # Uncategorized
    BY <1>1, <1>7, <1>8
  <2>2. it.picked # Null => ruled = c
    BY <1>2, <2>1
  <2> QED BY <1>3, <2>1, <2>2
<1>11. \/ it.category = c \/ C[it.category].name = Uncategorized \/ it.category \in Live(C)
       \/ \E r \in DOMAIN rules : rules[r].sets = it.category
  BY <1>1, <1>2, <1>3, <1>8, <1>9
<1>12. /\ it.category \in DOMAIN C /\ C[it.category].type = type /\ it.guessed \in BOOLEAN
       /\ it.picked # Null => /\ it.picked = it.category /\ it.picked = c
                              /\ C[it.picked].name # Uncategorized /\ ~it.guessed
  BY <1>1, <1>2, <1>3, <1>10
<1>13. /\ it.picked = Pick(C, c)
       /\ it.table = WithTags(tags, added) /\ Tagged(tags, it.table, added)
       /\ it.tags \subseteq DOMAIN it.table
  BY <1>1, <1>5, <1>6
<1> QED BY <1>11, <1>12, <1>13 DEF it, added

\* A new transaction.
LEMMA StoreKeeps ==
  ASSUME CatalogInv, NEW C, Grows(categories, C), NEW type \in Type, NEW title \in Title,
         NEW c \in DOMAIN C \cup {Null}, Given(C, type, c) \in DOMAIN C,
         C[Given(C, type, c)].type = type,
         IF c = Null THEN C[Given(C, type, c)].name = Uncategorized ELSE Given(C, type, c) = c,
         NEW names \in SUBSET TagName, NEW sure \in BOOLEAN,
         Store(C, tags, type, title, c, names, sure),
         UNCHANGED <<rules, templates, standing>>
  PROVE  CatalogInv' /\ StaysEmpty
<1> DEFINE it == Classify(C, tags, type, title, c, names, sure)
           added == names \cup TagsByRules(tags, type, title)
           id == NewId(txns)
           row == [type |-> type, category |-> it.category, title |-> title,
                   tags |-> it.tags, posted |-> FALSE, auto |-> it.guessed, dismissed |-> Null]
<1>1. /\ id \in TxnId /\ DOMAIN C \subseteq CategoryId /\ DOMAIN it.table \subseteq TagId
      /\ categories' = C /\ tags' = it.table /\ txns' = Put(txns, id, row)
      /\ seen' = [seen EXCEPT !.merged = @ \ Live(C), !.forgotten = @ \ names,
                              !.picked = Put(@, id, it.picked),
                              !.guessed = IF it.guessed THEN @ \cup {id} ELSE @]
  BY DEF Store, Marked
<1>2. /\ it.category \in DOMAIN C /\ C[it.category].type = type
      /\ it.guessed \in BOOLEAN
      /\ it.picked # Null => /\ it.picked = it.category /\ it.picked = c
                             /\ C[it.picked].name # Uncategorized /\ ~it.guessed
      /\ it.table = WithTags(tags, added) /\ Tagged(tags, it.table, added)
      /\ it.tags \subseteq DOMAIN it.table
      /\ it.picked = Pick(C, c)
      /\ \/ it.category = c \/ C[it.category].name = Uncategorized
         \/ it.category \in Live(C)
         \/ \E r \in DOMAIN rules : rules[r].sets = it.category
  BY ClassifyFacts DEF CatalogInv
<1>3. added \subseteq TagName /\ TagsByRules(tags, type, title) \cap seen.forgotten = {}
  BY TagsByRulesFacts DEF CatalogInv
<1>4. id \notin DOMAIN txns
  <2>1. \A k \in DOMAIN txns : k < id /\ k \in Nat
    BY NewIdIsNew, CatalogAssumption, TablesAre DEF TxnId, CatalogInv
  <2>2. id \in Nat
    BY <1>1, CatalogAssumption DEF TxnId
  <2> HIDE DEF id
  <2> QED BY <2>1, <2>2
<1> HIDE DEF it, added, id
<1>5. /\ DOMAIN txns' = DOMAIN txns \cup {id}
      /\ txns'[id] = row /\ \A k \in DOMAIN txns : txns'[k] = txns[k]
  BY <1>1, <1>4 DEF Put
<1>6. row \in Transaction
  <2>1. it.category \in CategoryId /\ it.tags \subseteq TagId
    BY <1>1, <1>2
  <2> QED BY <1>2, <2>1 DEF Transaction
<1>7. /\ seen'.merged = seen.merged \ Live(C) /\ seen'.forgotten = seen.forgotten \ names
      /\ seen'.picked = Put(seen.picked, id, it.picked)
      /\ seen'.guessed = (IF it.guessed THEN seen.guessed \cup {id} ELSE seen.guessed)
      /\ seen'.rejected = seen.rejected
      /\ seen' = [merged |-> seen'.merged, forgotten |-> seen'.forgotten,
                  guessed |-> seen'.guessed, rejected |-> seen'.rejected,
                  picked |-> seen'.picked]
  BY <1>1 DEF CatalogInv, SeenOK
<1>8. WellFormed' /\ PostsOK'
  <2>1. txns' \in [DOMAIN txns' -> Transaction] /\ DOMAIN txns' \subseteq TxnId
    <3>1. txns' = [k \in DOMAIN txns' |-> txns'[k]]
      BY <1>1 DEF Put
    <3>2. \A k \in DOMAIN txns' : txns'[k] \in Transaction
      BY <1>5, <1>6, TablesAre DEF CatalogInv
    <3> QED BY <1>1, <1>5, <3>1, <3>2, TablesAre DEF CatalogInv
  <2>2. ASSUME NEW k \in DOMAIN txns'
        PROVE  /\ txns'[k].category \in DOMAIN categories'
               /\ categories'[txns'[k].category].type = txns'[k].type
               /\ txns'[k].tags \subseteq DOMAIN tags'
    <3>1. CASE k = id
      <4>1. txns'[k].category = it.category /\ txns'[k].type = type /\ txns'[k].tags = it.tags
        BY <1>5, <3>1
      <4> QED BY <1>1, <1>2, <4>1
    <3>2. CASE k \in DOMAIN txns
      <4>1. /\ txns[k].category \in DOMAIN categories /\ txns[k].tags \subseteq DOMAIN tags
            /\ categories[txns[k].category].type = txns[k].type
        BY <3>2, TablesAre DEF CatalogInv
      <4> QED BY <1>1, <1>2, <1>5, <3>2, <4>1 DEF Grows, Tagged
    <3> QED BY <1>5, <3>1, <3>2
  <2> QED BY <1>1, <1>2, <1>3, <2>1, <2>2, TablesKeep DEF CatalogInv
<1>9. SeenOK'
  <2>1. Put(seen.picked, id, it.picked) \in [DOMAIN txns' -> CategoryId \cup {Null}]
    <3>1. it.picked \in CategoryId \cup {Null}
      BY <1>1, <1>2
    <3> QED BY <1>5, <3>1 DEF Put, CatalogInv, SeenOK
  <2> QED BY <1>1, <1>7, <2>1 DEF CatalogInv, SeenOK
<1>10. ChoicesOK'
  <2>1. \A k \in DOMAIN txns : seen'.picked[k] = seen.picked[k]
    BY <1>4, <1>7 DEF Put, CatalogInv, SeenOK
  <2>2. seen'.picked[id] = it.picked
    BY <1>7 DEF Put
  <2>3. ASSUME NEW k \in DOMAIN txns', seen'.picked[k] # Null
        PROVE  /\ seen'.picked[k] = txns'[k].category
               /\ categories'[seen'.picked[k]].name # Uncategorized
    <3>1. CASE k = id
      BY <1>1, <1>2, <1>5, <2>2, <2>3, <3>1
    <3>2. CASE k \in DOMAIN txns
      <4>1. /\ seen.picked[k] = txns[k].category /\ txns[k].category \in DOMAIN categories
            /\ categories[seen.picked[k]].name # Uncategorized
        BY <2>1, <2>3, <3>2, TablesAre DEF CatalogInv, ChoicesOK
      <4> QED BY <1>1, <1>5, <2>1, <3>2, <4>1 DEF Grows
    <3> QED BY <1>5, <3>1, <3>2
  <2>4. \A k \in seen'.guessed : k \in DOMAIN txns' /\ txns'[k].auto
    BY <1>5, <1>7 DEF CatalogInv, ChoicesOK
  <2>5. \A r \in seen'.rejected : r[1] \in DOMAIN txns' /\ txns'[r[1]].dismissed = r[2]
    BY <1>5, <1>7 DEF CatalogInv, ChoicesOK
  <2> QED BY <2>3, <2>4, <2>5 DEF ChoicesOK
<1>11. ForgottenOK'
  <2>1. added \cap seen'.forgotten = {} /\ seen'.forgotten \subseteq seen.forgotten
    BY <1>3, <1>7 DEF added
  <2> QED BY <1>1, <1>2, <2>1, ForgottenKeeps DEF CatalogInv
<1>12. MergedOK'
  BY <1>1, <1>7, RevivedKeeps DEF CatalogInv
<1>13. StaysEmpty
  <2> SUFFICES ASSUME NEW m \in seen.merged \cap seen'.merged, NEW k \in DOMAIN txns',
                      txns'[k].category = m, seen'.picked[k] # m,
                      categories[m].name # Uncategorized
               PROVE  k \in DOMAIN txns /\ txns[k].category = m
    BY DEF StaysEmpty
  <2>1. CASE k = id
    <3>1. it.category = m /\ it.picked # m
      BY <1>5, <1>7, <2>1 DEF Put
    <3>2. m \in DOMAIN categories /\ m \notin Live(C) /\ C[m].name # Uncategorized
          /\ \A r \in DOMAIN rules : rules[r].sets # m
      BY <1>7 DEF CatalogInv, MergedOK, Grows
    <3>3. m # Null
      BY <3>2, TablesAre, CatalogAssumption DEF CatalogInv, CategoriesOK
    <3>4. c # m
      BY <1>2, <3>1, <3>2, <3>3 DEF Pick
    <3> QED BY <1>2, <3>1, <3>2, <3>4
  <2>2. CASE k \in DOMAIN txns
    BY <1>5, <2>2
  <2> QED BY <1>5, <2>1, <2>2
<1> QED BY <1>8, <1>9, <1>10, <1>11, <1>12, <1>13 DEF CatalogInv

\* An edited transaction.
LEMMA UpdateKeeps ==
  ASSUME CatalogInv, NEW id \in DOMAIN txns, NEW type \in Type, NEW title \in Title,
         NEW c \in DOMAIN categories \cup {Null}, NEW names, names = Null \/ names \in SUBSET TagName,
         Update(id, type, title, c, names)
  PROVE  CatalogInv' /\ StaysEmpty
<1> DEFINE txn == txns[id]
           C == Prepared(categories, type, c)
           given == Given(C, type, c)
           ruled == ByRules(C, type, title, given)
           typed == IF names = Null THEN {} ELSE names
           byRules == TagsByRules(tags, type, title)
           added == typed \cup byRules
           table == WithTags(tags, added)
           kept == IF names = Null THEN txn.tags ELSE IdsOf(table, names)
           row == [txn EXCEPT !.type = type, !.title = title, !.category = ruled,
                              !.tags = kept \cup IdsOf(table, byRules),
                              !.auto = StillMarked(txn, given)]
<1>1. /\ c # Null => categories[c].type = type
      /\ DOMAIN C \subseteq CategoryId /\ DOMAIN table \subseteq TagId
      /\ categories' = C /\ tags' = table
      /\ txns' = [txns EXCEPT ![id] = row]
      /\ seen' = [seen EXCEPT !.merged = @ \ Live(C), !.forgotten = @ \ typed,
                              !.picked[id] = IF given = txn.category THEN @ ELSE Pick(C, c),
                              !.guessed = IF given = txn.category THEN @ ELSE @ \ {id}]
      /\ UNCHANGED <<rules, templates, standing>>
  BY DEF Update
<1>2. /\ Grows(categories, C) /\ given \in DOMAIN C /\ C[given].type = type
      /\ IF c = Null THEN C[given].name = Uncategorized ELSE given = c /\ C = categories
  BY <1>1, PreparedFacts, TablesAre DEF CatalogInv
<1>3. /\ ruled \in DOMAIN C /\ C[ruled].type = type
      /\ ruled # given => /\ C[given].name = Uncategorized
                          /\ \E r \in DOMAIN rules : rules[r].sets = ruled
  <2> HIDE DEF C, given
  <2> QED BY <1>2, ByRulesFacts DEF CatalogInv
<1>4. typed \in SUBSET TagName /\ added \in SUBSET TagName /\ byRules \cap seen.forgotten = {}
  BY TagsByRulesFacts DEF CatalogInv
<1>5. Tagged(tags, table, added)
  <2> HIDE DEF added
  <2> QED BY <1>4, TablesAre, WithTagsFacts DEF CatalogInv
<1>6. txn \in Transaction /\ txn.tags \subseteq DOMAIN tags /\ txn.category \in DOMAIN categories
  BY TablesAre DEF CatalogInv
<1>7. kept \cup IdsOf(table, byRules) \subseteq DOMAIN table
  <2> HIDE DEF table, byRules
  <2> QED BY <1>5, <1>6 DEF IdsOf, Tagged
<1>8. Pick(C, c) # Null => Pick(C, c) = c /\ c # Null /\ C[c].name # Uncategorized
  BY DEF Pick
<1>9. /\ row \in Transaction /\ row.category = ruled /\ row.type = type
      /\ row.tags = kept \cup IdsOf(table, byRules) /\ row.dismissed = txn.dismissed
      /\ row.auto = (txn.auto /\ given = txn.category)
  <2>1. ruled \in CategoryId /\ kept \cup IdsOf(table, byRules) \subseteq TagId
    BY <1>1, <1>3, <1>7
  <2>2. StillMarked(txn, given) = (txn.auto /\ given = txn.category)
    BY DEF StillMarked
  <2> HIDE DEF ruled, kept, table, byRules, given, txn
  <2> QED BY <1>6, <2>1, <2>2 DEF Transaction
<1> HIDE DEF txn, C, given, ruled, byRules, table, kept, row
<1>10. /\ DOMAIN txns' = DOMAIN txns /\ txns'[id] = row
       /\ \A k \in DOMAIN txns : k # id => txns'[k] = txns[k]
  BY <1>1, TablesAre DEF CatalogInv
<1>11. /\ seen'.merged = seen.merged \ Live(C) /\ seen'.forgotten = seen.forgotten \ typed
       /\ seen'.picked = [seen.picked EXCEPT ![id] = IF given = txn.category THEN @ ELSE Pick(C, c)]
       /\ seen'.guessed = (IF given = txn.category THEN seen.guessed ELSE seen.guessed \ {id})
       /\ seen'.rejected = seen.rejected
       /\ seen' = [merged |-> seen'.merged, forgotten |-> seen'.forgotten,
                   guessed |-> seen'.guessed, rejected |-> seen'.rejected,
                   picked |-> seen'.picked]
  <2> HIDE DEF typed
  <2> QED BY <1>1 DEF CatalogInv, SeenOK
<1>12. WellFormed' /\ PostsOK'
  <2>1. txns' \in [DOMAIN txns' -> Transaction] /\ DOMAIN txns' \subseteq TxnId
    BY <1>1, <1>9, <1>10, TablesAre DEF CatalogInv
  <2>2. ASSUME NEW k \in DOMAIN txns'
        PROVE  /\ txns'[k].category \in DOMAIN categories'
               /\ categories'[txns'[k].category].type = txns'[k].type
               /\ txns'[k].tags \subseteq DOMAIN tags'
    <3>1. CASE k = id
      BY <1>1, <1>3, <1>7, <1>9, <1>10, <3>1
    <3>2. CASE k # id
      <4>1. /\ txns[k].category \in DOMAIN categories /\ txns[k].tags \subseteq DOMAIN tags
            /\ categories[txns[k].category].type = txns[k].type
        BY <1>10, <2>2, TablesAre DEF CatalogInv
      <4> QED BY <1>1, <1>2, <1>5, <1>10, <2>2, <3>2, <4>1 DEF Grows, Tagged
    <3> QED BY <3>1, <3>2
  <2> HIDE DEF added
  <2> QED BY <1>1, <1>2, <1>4, <1>5, <2>1, <2>2, TablesKeep DEF CatalogInv
<1>13. SeenOK'
  <2>1. Pick(C, c) \in CategoryId \cup {Null}
    BY <1>1, <1>2, <1>8 DEF Grows
  <2>2. seen'.picked \in [DOMAIN txns' -> CategoryId \cup {Null}]
    BY <1>10, <1>11, <2>1 DEF CatalogInv, SeenOK
  <2> HIDE DEF typed
  <2> QED BY <1>11, <2>2 DEF CatalogInv, SeenOK
<1>14. ChoicesOK'
  <2>1. \A k \in DOMAIN txns : k # id => seen'.picked[k] = seen.picked[k]
    BY <1>11 DEF CatalogInv, SeenOK
  <2>2. seen'.picked[id] = IF given = txn.category THEN seen.picked[id] ELSE Pick(C, c)
    BY <1>11 DEF CatalogInv, SeenOK
  <2>3. ASSUME NEW k \in DOMAIN txns', seen'.picked[k] # Null
        PROVE  /\ seen'.picked[k] = txns'[k].category
               /\ categories'[seen'.picked[k]].name # Uncategorized
    <3>1. CASE k = id /\ given = txn.category
      <4>1. seen.picked[id] = txn.category /\ categories[txn.category].name # Uncategorized
        BY <2>2, <2>3, <3>1 DEF CatalogInv, ChoicesOK, txn
      <4>2. C[given].name # Uncategorized
        BY <1>2, <1>6, <3>1, <4>1 DEF Grows
      <4> QED BY <1>1, <1>3, <1>9, <1>10, <2>2, <3>1, <4>1, <4>2
    <3>2. CASE k = id /\ given # txn.category
      BY <1>1, <1>2, <1>3, <1>8, <1>9, <1>10, <2>2, <2>3, <3>2
    <3>3. CASE k # id
      <4>1. /\ seen.picked[k] = txns[k].category /\ txns[k].category \in DOMAIN categories
            /\ categories[seen.picked[k]].name # Uncategorized
        BY <1>10, <2>1, <2>3, <3>3, TablesAre DEF CatalogInv, ChoicesOK
      <4> QED BY <1>1, <1>2, <1>10, <2>1, <2>3, <3>3, <4>1 DEF Grows
    <3> QED BY <3>1, <3>2, <3>3
  <2>4. \A k \in seen'.guessed : k \in DOMAIN txns' /\ txns'[k].auto
    <3> SUFFICES ASSUME NEW k \in seen'.guessed PROVE k \in DOMAIN txns' /\ txns'[k].auto
      OBVIOUS
    <3>1. k \in DOMAIN txns /\ txns[k].auto /\ (k = id => given = txn.category)
      BY <1>11 DEF CatalogInv, ChoicesOK
    <3>2. k = id => row.auto
      BY <1>9, <3>1 DEF txn
    <3> QED BY <1>10, <3>1, <3>2
  <2>5. \A r \in seen'.rejected : r[1] \in DOMAIN txns' /\ txns'[r[1]].dismissed = r[2]
    BY <1>9, <1>10, <1>11 DEF CatalogInv, ChoicesOK, txn
  <2> QED BY <2>3, <2>4, <2>5 DEF ChoicesOK
<1>15. ForgottenOK'
  <2>1. added \cap seen'.forgotten = {} /\ seen'.forgotten \subseteq seen.forgotten
    BY <1>4, <1>11
  <2> HIDE DEF added
  <2> QED BY <1>1, <1>5, <2>1, ForgottenKeeps DEF CatalogInv
<1>16. MergedOK'
  BY <1>1, <1>2, <1>11, RevivedKeeps DEF CatalogInv
<1>17. StaysEmpty
  <2> SUFFICES ASSUME NEW m \in seen.merged \cap seen'.merged, NEW k \in DOMAIN txns',
                      txns'[k].category = m, seen'.picked[k] # m,
                      categories[m].name # Uncategorized
               PROVE  k \in DOMAIN txns /\ txns[k].category = m
    BY DEF StaysEmpty
  <2>1. CASE k = id /\ given # txn.category
    <3>1. ruled = m /\ Pick(C, c) # m
      BY <1>9, <1>10, <1>11, <2>1 DEF CatalogInv, SeenOK
    <3>2. m \in DOMAIN categories /\ C[m].name # Uncategorized
          /\ \A r \in DOMAIN rules : rules[r].sets # m
      BY <1>2 DEF CatalogInv, MergedOK, Grows
    <3>3. given = m
      BY <1>3, <3>1, <3>2
    <3>4. c # Null /\ c = m
      BY <1>2, <3>2, <3>3
    <3> QED BY <3>1, <3>2, <3>4 DEF Pick
  <2>2. CASE k = id /\ given = txn.category
    <3>1. ruled = m /\ \A r \in DOMAIN rules : rules[r].sets # m
      BY <1>9, <1>10, <2>2 DEF CatalogInv, MergedOK
    <3> QED BY <1>3, <2>2, <3>1 DEF txn
  <2>3. CASE k # id
    BY <1>10, <2>3
  <2> QED BY <2>1, <2>2, <2>3
<1> QED BY <1>12, <1>13, <1>14, <1>15, <1>16, <1>17 DEF CatalogInv

LEMMA CreateKeeps ==
  ASSUME CatalogInv, NEW type \in Type, NEW title \in Title,
         NEW c \in DOMAIN categories \cup {Null}, NEW names \in SUBSET TagName,
         NEW sure \in BOOLEAN, Create(type, title, c, names, sure)
  PROVE  CatalogInv' /\ StaysEmpty
<1> DEFINE C == Prepared(categories, type, c)
<1>1. /\ c # Null => categories[c].type = type
      /\ Store(C, tags, type, title, c, names, sure) /\ UNCHANGED <<rules, templates, standing>>
  BY DEF Create
<1>2. /\ Grows(categories, C) /\ Given(C, type, c) \in DOMAIN C
      /\ C[Given(C, type, c)].type = type
      /\ IF c = Null THEN C[Given(C, type, c)].name = Uncategorized ELSE Given(C, type, c) = c
  BY <1>1, PreparedFacts, TablesAre DEF CatalogInv
<1> HIDE DEF C
<1>3. c \in DOMAIN C \cup {Null}
  BY <1>2 DEF Grows
<1> QED BY <1>1, <1>2, <1>3, StoreKeeps

LEMMA IngestKeeps ==
  ASSUME CatalogInv, NEW name \in CatName \cup {Null}, NEW title \in Title, NEW day,
         NEW sure \in BOOLEAN, Ingest(name, title, day, sure)
  PROVE  CatalogInv' /\ StaysEmpty
<1> DEFINE days == NamesOf(tags, Attached(tags, day))
<1>1. days \in SUBSET TagName /\ Expense \in Type /\ UNCHANGED <<rules, templates, standing>>
  <2>1. \A t \in Attached(tags, day) : tags[t].name \in TagName
    BY TablesAre DEF CatalogInv, Attached, Live, TagsOK, Tag
  <2> QED BY <2>1, CatalogAssumption DEF NamesOf, Ingest
<1>2. CASE name = Null
  <2> DEFINE C == Prepared(categories, Expense, Null)
  <2>1. Store(C, tags, Expense, title, Null, days, sure)
    BY <1>2 DEF Ingest
  <2>2. /\ Grows(categories, C) /\ Given(C, Expense, Null) \in DOMAIN C
        /\ C[Given(C, Expense, Null)].type = Expense
        /\ C[Given(C, Expense, Null)].name = Uncategorized
    BY <1>1, PreparedFacts, TablesAre DEF CatalogInv
  <2> HIDE DEF C, days
  <2> QED BY <1>1, <2>1, <2>2, StoreKeeps
<1>3. CASE name # Null
  <2> DEFINE C == Resolved(name)
             c == Min(ResolvedTo(name, C))
  <2>1. Cardinality(ResolvedTo(name, C)) = 1 /\ Store(C, tags, Expense, title, c, days, sure)
    BY <1>3 DEF Ingest
  <2>2. Grows(categories, C) /\ c \in DOMAIN C /\ C[c].type = Expense
    BY <1>3, <2>1, ResolvedFacts, TablesAre DEF CatalogInv
  <2> HIDE DEF C, c, days
  <2>3. c # Null /\ Given(C, Expense, c) = c
    BY <2>2, CatalogAssumption DEF Given, Grows, CategoriesOK
  <2> QED BY <1>1, <2>1, <2>2, <2>3, StoreKeeps
<1> QED BY <1>2, <1>3

-----------------------------------------------------------------------------
(* Categories                                                              *)

\* Requests that only restore, archive or add categories.
LEMMA CategoriesKeep ==
  ASSUME CatalogInv, Grows(categories, categories'), DOMAIN categories' \subseteq CategoryId,
         UNCHANGED <<tags, rules, templates, standing, txns>>,
         NEW S \in SUBSET CategoryId, seen' = [seen EXCEPT !.merged = @ \ S],
         \A c \in seen.merged \ S : categories'[c].archived
  PROVE  CatalogInv'
<1>1. /\ seen'.merged = seen.merged \ S /\ seen'.forgotten = seen.forgotten
      /\ seen'.picked = seen.picked /\ seen'.guessed = seen.guessed
      /\ seen'.rejected = seen.rejected /\ SeenOK'
  BY DEF CatalogInv, SeenOK
<1>2. Tagged(tags, tags', {})
  BY TablesAre DEF CatalogInv, Tagged
<1>3. WellFormed' /\ PostsOK'
  <2>1. \A id \in DOMAIN txns' : /\ txns'[id].category \in DOMAIN categories'
                                 /\ categories'[txns'[id].category].type = txns'[id].type
                                 /\ txns'[id].tags \subseteq DOMAIN tags'
    BY TablesAre DEF CatalogInv, Grows
  <2> QED BY <1>2, <2>1, TablesAre, TablesKeep DEF CatalogInv
<1>4. ChoicesOK'
  <2>1. \A id \in DOMAIN txns : seen.picked[id] # Null =>
          /\ seen.picked[id] = txns[id].category /\ txns[id].category \in DOMAIN categories
          /\ categories[seen.picked[id]].name # Uncategorized
    BY TablesAre DEF CatalogInv, ChoicesOK
  <2>2. \A id \in DOMAIN txns : seen.picked[id] # Null =>
          categories'[seen.picked[id]].name # Uncategorized
    BY <2>1 DEF Grows
  <2> QED BY <1>1, <2>2 DEF CatalogInv, ChoicesOK
<1>5. ForgottenOK' /\ MergedOK'
  BY <1>1, <1>2, ForgottenKeeps, MergedKeeps DEF CatalogInv
<1> QED BY <1>1, <1>3, <1>4, <1>5 DEF CatalogInv

LEMMA CreateCategoryKeeps ==
  ASSUME CatalogInv, NEW type \in Type, NEW name \in CatName, CreateCategory(type, name)
  PROVE  CatalogInv'
<1> DEFINE row == [name |-> name, type |-> type, archived |-> FALSE]
<1>1. /\ NewId(categories) \in CategoryId /\ Named(categories, type, name) = {}
      /\ categories' = Put(categories, NewId(categories), row)
      /\ UNCHANGED <<tags, rules, templates, standing, txns, seen>>
  BY DEF CreateCategory, Free
<1>2. /\ Grows(categories, categories')
      /\ NewId(categories) \in DOMAIN categories' \ DOMAIN categories
  <2> HIDE DEF row
  <2>1. row = [name |-> name, type |-> type, archived |-> FALSE]
    BY DEF row
  <2> QED BY <1>1, <2>1, AddedGrows, TablesAre DEF CatalogInv
<1>3. DOMAIN categories' \subseteq CategoryId
  BY <1>1, TablesAre DEF CatalogInv, Put
<1>4. \A c \in seen.merged : categories'[c].archived
  BY <1>1, <1>2 DEF CatalogInv, MergedOK, Put
<1>5. seen' = [seen EXCEPT !.merged = @ \ {}]
  BY <1>1 DEF CatalogInv, SeenOK
<1> QED BY <1>1, <1>2, <1>3, <1>4, <1>5, CategoriesKeep

LEMMA ArchivingKeeps ==
  ASSUME CatalogInv, NEW c \in DOMAIN categories, ArchiveCategory(c) \/ RestoreCategory(c)
  PROVE  CatalogInv'
<1>1. CASE ArchiveCategory(c)
  <2>1. /\ categories' = [categories EXCEPT ![c].archived = TRUE]
        /\ UNCHANGED <<tags, rules, templates, standing, txns, seen>>
    BY <1>1 DEF ArchiveCategory
  <2>2. Grows(categories, categories') /\ DOMAIN categories' = DOMAIN categories
        /\ categories'[c].archived = TRUE
    <3>1. CategoriesOK(categories) /\ TRUE \in BOOLEAN
      BY TablesAre DEF CatalogInv
    <3> QED BY <2>1, <3>1, ArchivingGrows
  <2>3. {} \in SUBSET CategoryId /\ \A d \in seen.merged \ {} : categories'[d].archived
    BY <2>1, <2>2 DEF CatalogInv, MergedOK
  <2>4. seen' = [seen EXCEPT !.merged = @ \ {}]
    BY <2>1 DEF CatalogInv, SeenOK
  <2> QED BY <2>1, <2>2, <2>3, <2>4, CategoriesKeep, TablesAre DEF CatalogInv
<1>2. CASE RestoreCategory(c)
  <2>1. /\ categories' = [categories EXCEPT ![c].archived = FALSE]
        /\ seen' = [seen EXCEPT !.merged = @ \ {c}]
        /\ UNCHANGED <<tags, rules, templates, standing, txns>>
    BY <1>2 DEF RestoreCategory
  <2>2. Grows(categories, categories') /\ DOMAIN categories' = DOMAIN categories
    <3>1. CategoriesOK(categories) /\ FALSE \in BOOLEAN
      BY TablesAre DEF CatalogInv
    <3> QED BY <2>1, <3>1, ArchivingGrows
  <2>3. \A d \in seen.merged \ {c} : categories'[d].archived
    BY <2>1, <2>2 DEF CatalogInv, MergedOK
  <2>4. {c} \in SUBSET CategoryId
    BY TablesAre DEF CatalogInv
  <2> QED BY <2>1, <2>2, <2>3, <2>4, CategoriesKeep, TablesAre DEF CatalogInv
<1> QED BY <1>1, <1>2

\* A renamed category may become one that rules replace: it is no longer a choice then.
LEMMA UpdateCategoryKeeps ==
  ASSUME CatalogInv, NEW c \in DOMAIN categories, NEW name \in CatName, UpdateCategory(c, name)
  PROVE  CatalogInv'
<1>1. /\ Named(categories, categories[c].type, name) \subseteq {c}
      /\ categories' = [categories EXCEPT ![c].name = name]
      /\ seen' = [seen EXCEPT !.picked = [id \in DOMAIN txns |-> Pick(categories', @[id])]]
      /\ UNCHANGED <<tags, rules, templates, standing, txns>>
  BY DEF UpdateCategory, Free
<1>2. /\ DOMAIN categories' = DOMAIN categories /\ categories' \in [DOMAIN categories -> Category]
      /\ \A d \in DOMAIN categories : /\ categories'[d].type = categories[d].type
                                      /\ categories'[d].archived = categories[d].archived
                                      /\ d # c => categories'[d].name = categories[d].name
      /\ categories'[c].name = name
  BY <1>1, TablesAre DEF CatalogInv, CategoriesOK, Category
<1>3. WellFormed' /\ PostsOK'
  <2>1. TypeOK'
    BY <1>1, <1>2 DEF CatalogInv, WellFormed, TypeOK, TablesOK
  <2>2. ASSUME NEW d \in DOMAIN categories', NEW e \in DOMAIN categories',
               categories'[d].type = categories'[e].type, categories'[d].name = categories'[e].name
        PROVE  d = e
    <3>1. CASE d # c /\ e # c
      BY <1>2, <2>2, <3>1, TablesAre DEF CatalogInv, CategoriesOK
    <3>2. \A x \in DOMAIN categories :
            x # c => ~(categories[x].type = categories[c].type /\ categories[x].name = name)
      BY <1>1 DEF Named
    <3> QED BY <1>2, <2>2, <3>1, <3>2
  <2>3. NamesAreUnique'
    BY <1>1, <2>2 DEF CatalogInv, WellFormed, NamesAreUnique, UniqueNames
  <2>4. TypesAgree' /\ PostsOK'
    BY <1>1, <1>2, TablesAre DEF CatalogInv, WellFormed, TypesAgree, PostsOK
  <2> QED BY <2>1, <2>3, <2>4 DEF WellFormed
<1>4. /\ seen'.merged = seen.merged /\ seen'.forgotten = seen.forgotten
      /\ seen'.picked = [id \in DOMAIN txns |-> Pick(categories', seen.picked[id])]
      /\ seen'.guessed = seen.guessed /\ seen'.rejected = seen.rejected
  BY <1>1 DEF CatalogInv, SeenOK
<1>5. \A d : Pick(categories', d) # Null => /\ Pick(categories', d) = d
                                            /\ categories'[d].name # Uncategorized
  BY DEF Pick
<1>6. SeenOK'
  <2>1. \A id \in DOMAIN txns : Pick(categories', seen.picked[id]) \in CategoryId \cup {Null}
    BY <1>5 DEF CatalogInv, SeenOK
  <2>2. seen'.picked \in [DOMAIN txns' -> CategoryId \cup {Null}]
    <3> DEFINE picked == [id \in DOMAIN txns |-> Pick(categories', seen.picked[id])]
    <3>1. picked \in [DOMAIN txns -> CategoryId \cup {Null}]
      BY ONLY <2>1
    <3>2. seen'.picked = picked
      BY ONLY <1>4
    <3>3. txns' = txns
      BY ONLY <1>1
    <3> HIDE DEF picked
    <3> QED BY ONLY <3>1, <3>2, <3>3
  <2> QED BY <1>1, <2>2 DEF CatalogInv, SeenOK
<1>7. ChoicesOK'
  <2>1. ASSUME NEW id \in DOMAIN txns', seen'.picked[id] # Null
        PROVE  /\ seen'.picked[id] = txns'[id].category
               /\ categories'[seen'.picked[id]].name # Uncategorized
    <3>1. id \in DOMAIN txns /\ seen'.picked[id] = Pick(categories', seen.picked[id])
      BY <1>1, <1>4
    <3>2. seen'.picked[id] = seen.picked[id]
      BY <1>5, <2>1, <3>1
    <3> QED BY <1>1, <1>5, <2>1, <3>1, <3>2 DEF CatalogInv, ChoicesOK
  <2> QED BY <1>1, <1>4, <2>1 DEF CatalogInv, ChoicesOK
<1>8. ForgottenOK' /\ MergedOK'
  BY <1>1, <1>2, <1>4 DEF CatalogInv, ForgottenOK, MergedOK
<1> QED BY <1>3, <1>6, <1>7, <1>8 DEF CatalogInv

\* Everything that was of the source is of the target: nothing names the source any more.
LEMMA MergeCategoriesKeeps ==
  ASSUME CatalogInv, NEW s \in DOMAIN categories, NEW t \in DOMAIN categories,
         MergeCategories(s, t)
  PROVE  CatalogInv' /\ StaysEmpty
<1>1. /\ s # t /\ categories[s].type = categories[t].type /\ ~categories[t].archived
      /\ txns' = MergedTxns(s, t) /\ rules' = MergedRules(s, t)
      /\ standing' = {Into(c, s, t) : c \in standing}
      /\ categories' = [categories EXCEPT ![s].archived = TRUE]
      /\ seen' = [seen EXCEPT !.merged = @ \cup {s},
                              !.rejected = {<<r[1], Into(r[2], s, t)>> : r \in @},
                              !.picked = [id \in DOMAIN txns |->
                                            Pick(categories, Into(@[id], s, t))]]
      /\ UNCHANGED <<tags, templates>>
  BY DEF MergeCategories, CategoriesMayMerge
<1>2. Grows(categories, categories') /\ DOMAIN categories' = DOMAIN categories
      /\ categories'[s].archived
      /\ \A c \in DOMAIN categories : c # s => categories'[c] = categories[c]
  <2>1. CategoriesOK(categories) /\ TRUE \in BOOLEAN
    BY TablesAre DEF CatalogInv
  <2>2. Grows(categories, categories') /\ DOMAIN categories' = DOMAIN categories
        /\ categories'[s].archived = TRUE
    <3>1. categories' = [categories EXCEPT ![s].archived = TRUE]
      BY <1>1
    <3>2. \A C : C = [categories EXCEPT ![s].archived = TRUE] =>
            Grows(categories, C) /\ DOMAIN C = DOMAIN categories /\ C[s].archived = TRUE
      BY <2>1, ArchivingGrows
    <3> QED BY <3>1, <3>2
  <2> QED BY <1>1, <2>2
<1>3. s \in CategoryId /\ t \in CategoryId /\ s # Null /\ t # Null
  BY TablesAre, CatalogAssumption DEF CatalogInv, CategoryId
<1>4. /\ DOMAIN txns' = DOMAIN txns /\ txns' \in [DOMAIN txns -> Transaction]
      /\ \A id \in DOMAIN txns : /\ txns'[id].category = Into(txns[id].category, s, t)
                                 /\ txns'[id].dismissed = Into(txns[id].dismissed, s, t)
                                 /\ txns'[id].type = txns[id].type
                                 /\ txns'[id].tags = txns[id].tags
                                 /\ txns'[id].auto = txns[id].auto
  <2>1. DOMAIN txns' = DOMAIN txns /\ txns' = [id \in DOMAIN txns |-> txns'[id]]
    BY <1>1 DEF MergedTxns
  <2>2. ASSUME NEW id \in DOMAIN txns
        PROVE  /\ txns'[id] \in Transaction
               /\ txns'[id].category = Into(txns[id].category, s, t)
               /\ txns'[id].dismissed = Into(txns[id].dismissed, s, t)
               /\ txns'[id].type = txns[id].type /\ txns'[id].tags = txns[id].tags
               /\ txns'[id].auto = txns[id].auto
    <3>1. txns[id] \in Transaction
      BY TablesAre DEF CatalogInv
    <3>2. txns'[id] = [txns[id] EXCEPT !.category = Into(@, s, t), !.dismissed = Into(@, s, t)]
      BY <1>1 DEF MergedTxns
    <3>3. /\ Into(txns[id].category, s, t) \in CategoryId
          /\ Into(txns[id].dismissed, s, t) \in CategoryId \cup {Null}
      BY <1>3, <3>1 DEF Transaction, Into
    <3> QED BY <3>1, <3>2, <3>3 DEF Transaction
  <2> QED BY <2>1, <2>2
<1>5. /\ DOMAIN rules' = DOMAIN rules /\ rules' \in [DOMAIN rules -> Rule]
      /\ \A r \in DOMAIN rules : /\ rules'[r].sets = Into(rules[r].sets, s, t)
                                 /\ rules'[r].excludes = rules[r].excludes
                                 /\ rules'[r].adds = rules[r].adds
  BY <1>1, <1>3, TablesAre DEF CatalogInv, MergedRules, Rule, Into
<1>6. WellFormed' /\ PostsOK'
  <2>1. \A id \in DOMAIN txns : /\ txns'[id].category \in DOMAIN categories
                                /\ categories[txns'[id].category].type = txns'[id].type
    BY <1>1, <1>4, TablesAre DEF CatalogInv, Into
  <2>2. \A r \in DOMAIN rules : rules'[r].sets \in DOMAIN categories \cup {Null}
    BY <1>5, TablesAre DEF CatalogInv, Into
  <2>3. TypeOK'
    <3>1. categories' \in [DOMAIN categories -> Category]
      BY <1>2 DEF Grows, CategoriesOK
    <3> QED BY <1>1, <1>2, <1>4, <1>5, <2>1, <2>2, <3>1 DEF CatalogInv, WellFormed, TypeOK, TablesOK
  <2>4. NamesAreUnique'
    BY <1>1, <1>2, TablesAre DEF CatalogInv, NamesAreUnique, UniqueNames, Grows, CategoriesOK, TagsOK
  <2>5. TypesAgree'
    BY <1>1, <1>2, <1>4, <2>1 DEF CatalogInv, WellFormed, TypesAgree, PostsOK, Grows
  <2>6. PostsOK'
    BY <1>1, <1>2 DEF CatalogInv, PostsOK, Into
  <2> QED BY <2>3, <2>4, <2>5, <2>6 DEF WellFormed
<1>7. /\ seen'.merged = seen.merged \cup {s} /\ seen'.forgotten = seen.forgotten
      /\ seen'.picked = [id \in DOMAIN txns |-> Pick(categories, Into(seen.picked[id], s, t))]
      /\ seen'.guessed = seen.guessed
      /\ seen'.rejected = {<<r[1], Into(r[2], s, t)>> : r \in seen.rejected}
      /\ seen' = [merged |-> seen'.merged, forgotten |-> seen'.forgotten,
                  guessed |-> seen'.guessed, rejected |-> seen'.rejected,
                  picked |-> seen'.picked]
  BY <1>1 DEF CatalogInv, SeenOK
<1>8. \A c : Pick(categories, c) # Null => /\ Pick(categories, c) = c /\ c # Null
                                           /\ categories[c].name # Uncategorized
  BY DEF Pick
<1>9. SeenOK'
  <2>1. \A id \in DOMAIN txns :
          Pick(categories, Into(seen.picked[id], s, t)) \in CategoryId \cup {Null}
    BY <1>3, <1>8 DEF CatalogInv, SeenOK, Into
  <2>2. seen'.picked \in [DOMAIN txns' -> CategoryId \cup {Null}]
    BY <1>4, <1>7, <2>1
  <2>3. seen'.rejected \subseteq TxnId \X CategoryId
    BY <1>3, <1>7 DEF CatalogInv, SeenOK, Into
  <2>4. seen'.merged \subseteq CategoryId /\ seen'.forgotten \subseteq TagName
        /\ seen'.guessed \subseteq TxnId
    BY <1>3, <1>7 DEF CatalogInv, SeenOK
  <2> QED BY <1>7, <2>2, <2>3, <2>4 DEF SeenOK
<1>10. ChoicesOK'
  <2>1. ASSUME NEW id \in DOMAIN txns', seen'.picked[id] # Null
        PROVE  /\ seen'.picked[id] = txns'[id].category
               /\ categories'[seen'.picked[id]].name # Uncategorized
    <3> DEFINE into == Into(seen.picked[id], s, t)
    <3>1. id \in DOMAIN txns /\ seen'.picked[id] = Pick(categories, into)
      BY <1>4, <1>7, <2>1
    <3>2. seen'.picked[id] = into /\ into # Null /\ categories[into].name # Uncategorized
      <4> HIDE DEF into
      <4> QED BY <1>8, <2>1, <3>1
    <3>3. seen.picked[id] # Null
      BY <1>3, <3>2 DEF Into
    <3>4. seen.picked[id] = txns[id].category /\ txns[id].category \in DOMAIN categories
      BY <3>1, <3>3, TablesAre DEF CatalogInv, ChoicesOK
    <3>5. into = txns'[id].category /\ into \in DOMAIN categories
      BY <1>4, <3>1, <3>4 DEF Into
    <3> QED BY <1>2, <3>2, <3>5 DEF Grows
  <2>2. \A id \in seen'.guessed : id \in DOMAIN txns' /\ txns'[id].auto
    BY <1>4, <1>7 DEF CatalogInv, ChoicesOK
  <2>3. \A r \in seen'.rejected : r[1] \in DOMAIN txns' /\ txns'[r[1]].dismissed = r[2]
    BY <1>4, <1>7 DEF CatalogInv, ChoicesOK
  <2> QED BY <2>1, <2>2, <2>3 DEF ChoicesOK
<1>11. ForgottenOK'
  BY <1>1, <1>5, <1>7 DEF CatalogInv, ForgottenOK
<1>12. MergedOK'
  <2>1. t \notin seen'.merged
    BY <1>1, <1>7 DEF CatalogInv, MergedOK
  <2>2. \A c \in seen'.merged : c \in DOMAIN categories' /\ categories'[c].archived
    BY <1>2, <1>7 DEF CatalogInv, MergedOK
  <2>3. \A c \in seen'.merged : c \notin standing'
    BY <1>1, <1>7, <2>1 DEF CatalogInv, MergedOK, Into
  <2>4. \A c \in seen'.merged : \A r \in DOMAIN rules' : rules'[r].sets # c
    BY <1>5, <1>7, <2>1 DEF CatalogInv, MergedOK, Into
  <2> QED BY <2>2, <2>3, <2>4 DEF MergedOK
<1>13. StaysEmpty
  <2>1. t \notin seen.merged
    BY <1>1 DEF CatalogInv, MergedOK
  <2> QED BY <1>4, <2>1 DEF StaysEmpty, Into
<1> QED BY <1>6, <1>9, <1>10, <1>11, <1>12, <1>13 DEF CatalogInv

LEMMA TemplatesKeep ==
  ASSUME CatalogInv, NEW name,
         (\E c \in DOMAIN categories : SaveTemplate(name, c)) \/ DeleteTemplate(name)
  PROVE  CatalogInv'
<1>1. UNCHANGED <<categories, tags, rules, standing, txns, seen>>
  BY DEF SaveTemplate, DeleteTemplate
<1>2. \A n \in DOMAIN templates' : /\ templates'[n].category \in DOMAIN categories
                                    /\ categories[templates'[n].category].type = templates'[n].type
  <2>1. \A n \in DOMAIN templates : /\ templates[n].category \in DOMAIN categories
                                    /\ categories[templates[n].category].type = templates[n].type
    BY DEF CatalogInv, PostsOK, WellFormed, TypesAgree
  <2>2. ASSUME NEW c \in DOMAIN categories, SaveTemplate(name, c)
        PROVE  \A n \in DOMAIN templates' :
                 /\ templates'[n].category \in DOMAIN categories
                 /\ categories[templates'[n].category].type = templates'[n].type
    BY <2>1, <2>2 DEF SaveTemplate, Put
  <2>3. CASE DeleteTemplate(name)
    BY <2>1, <2>3 DEF DeleteTemplate, Without, Restrict
  <2> QED BY <2>2, <2>3
<1>3. WellFormed' /\ PostsOK'
  BY <1>1, <1>2 DEF CatalogInv, WellFormed, TypeOK, NamesAreUnique, TypesAgree, PostsOK
<1> QED BY <1>1, <1>3 DEF CatalogInv, SeenOK, ChoicesOK, ForgottenOK, MergedOK

-----------------------------------------------------------------------------
(* Tags and rules                                                          *)

\* Requests that change tags, and what of rules and transactions names them.
LEMMA TagsKeep ==
  ASSUME CatalogInv, TagsOK(tags'), DOMAIN tags' \subseteq TagId,
         UNCHANGED <<categories, templates, standing>>,
         DOMAIN txns' = DOMAIN txns, txns' \in [DOMAIN txns -> Transaction],
         \A id \in DOMAIN txns : /\ txns'[id].category = txns[id].category
                                /\ txns'[id].type = txns[id].type
                                /\ txns'[id].auto = txns[id].auto
                                /\ txns'[id].dismissed = txns[id].dismissed
                                /\ txns'[id].tags \subseteq DOMAIN tags',
         DOMAIN rules' = DOMAIN rules, rules' \in [DOMAIN rules -> Rule],
         \A r \in DOMAIN rules : /\ rules'[r].sets = rules[r].sets
                                /\ rules'[r].excludes \in DOMAIN tags' \cup {Null},
         NEW F \in SUBSET TagName, seen' = [seen EXCEPT !.forgotten = F],
         \A t \in DOMAIN tags' : tags'[t].name \notin F,
         \A r \in DOMAIN rules : rules'[r].adds \cap F = {}
  PROVE  CatalogInv'
<1>1. /\ seen'.merged = seen.merged /\ seen'.forgotten = F
      /\ seen'.picked = seen.picked /\ seen'.guessed = seen.guessed
      /\ seen'.rejected = seen.rejected /\ SeenOK'
  BY DEF CatalogInv, SeenOK
<1>2. WellFormed' /\ PostsOK'
  <2>1. TypeOK'
    BY DEF TagsOK, CatalogInv, WellFormed, TypeOK, TablesOK
  <2>2. NamesAreUnique'
    BY DEF TagsOK, CatalogInv, WellFormed, NamesAreUnique, UniqueNames
  <2>3. TypesAgree' /\ PostsOK'
    BY DEF CatalogInv, WellFormed, TypesAgree, PostsOK
  <2> QED BY <2>1, <2>2, <2>3 DEF WellFormed
<1>3. ChoicesOK'
  BY <1>1 DEF CatalogInv, ChoicesOK
<1>4. ForgottenOK' /\ MergedOK'
  BY <1>1 DEF CatalogInv, ForgottenOK, MergedOK
<1> QED BY <1>1, <1>2, <1>3, <1>4 DEF CatalogInv

\* Transactions and rules that stay as they are fit a table with all their tags.
LEMMA TagTableKeeps ==
  ASSUME CatalogInv, TagsOK(tags'), DOMAIN tags' \subseteq TagId, DOMAIN tags \subseteq DOMAIN tags',
         UNCHANGED <<categories, templates, standing, txns, rules>>,
         NEW F \in SUBSET TagName, seen' = [seen EXCEPT !.forgotten = F], F \subseteq seen.forgotten,
         \A t \in DOMAIN tags' : tags'[t].name \notin F
  PROVE  CatalogInv'
<1>1. \A id \in DOMAIN txns : txns[id].tags \subseteq DOMAIN tags'
  BY TablesAre DEF CatalogInv
<1>2. \A r \in DOMAIN rules : /\ rules[r].excludes \in DOMAIN tags' \cup {Null}
                             /\ rules[r].adds \cap F = {}
  BY TablesAre DEF CatalogInv, ForgottenOK
<1>3. txns' \in [DOMAIN txns -> Transaction] /\ rules' \in [DOMAIN rules -> Rule]
  BY DEF CatalogInv, WellFormed, TypeOK, TablesOK
<1> QED BY <1>1, <1>2, <1>3, TagsKeep

LEMMA CreateTagKeeps ==
  ASSUME CatalogInv, NEW name \in TagName, NEW period \in SUBSET Day, CreateTag(name, period)
  PROVE  CatalogInv'
<1> DEFINE k == NewId(tags)
           F == seen.forgotten \ {name}
<1>1. /\ k \in TagId /\ IdsOf(tags, {name}) = {}
      /\ tags' = [Added(tags, name) EXCEPT ![k].period = period]
      /\ seen' = [seen EXCEPT !.forgotten = F]
      /\ UNCHANGED <<categories, rules, templates, standing, txns>>
  BY DEF CreateTag, Typed
<1>2. k \notin DOMAIN tags
  <2>1. \A t \in DOMAIN tags : t < k /\ t \in Nat
    BY NewIdIsNew, CatalogAssumption, TablesAre DEF TagId, CatalogInv
  <2>2. k \in Nat
    BY <1>1, CatalogAssumption DEF TagId
  <2> HIDE DEF k
  <2> QED BY <2>1, <2>2
<1> HIDE DEF k
<1>3. tags' = [t \in DOMAIN tags \cup {k} |->
                 IF t = k THEN [name |-> name, archived |-> FALSE, period |-> period] ELSE tags[t]]
  <2> DEFINE row == [name |-> name, archived |-> FALSE, period |-> {}]
             table == [t \in DOMAIN tags \cup {k} |-> IF t = k THEN row ELSE tags[t]]
  <2>1. Added(tags, name) = table
    BY DEF Added, Put, k
  <2>2. tags' = [table EXCEPT ![k].period = period]
    BY <1>1, <2>1
  <2>3. DOMAIN tags' = DOMAIN tags \cup {k} /\ tags' = [t \in DOMAIN tags' |-> tags'[t]]
    BY <2>2
  <2>4. tags'[k] = [row EXCEPT !.period = period]
    BY <2>2
  <2>5. \A t \in DOMAIN tags : tags'[t] = tags[t]
    BY <1>2, <2>2
  <2> QED BY <1>2, <2>3, <2>4, <2>5
<1>4. \A t \in DOMAIN tags : tags[t].name # name
  BY <1>1 DEF IdsOf
<1>5. TagsOK(tags')
  <2>1. k \in Nat \ {0}
    BY <1>1, CatalogAssumption DEF TagId
  <2>2. tags' \in [DOMAIN tags' -> Tag]
    BY <1>3, TablesAre DEF CatalogInv, TagsOK, Tag
  <2> QED BY <1>2, <1>3, <1>4, <2>1, <2>2, TablesAre DEF CatalogInv, TagsOK
<1>6. F \in SUBSET TagName /\ \A t \in DOMAIN tags' : tags'[t].name \notin F
  BY <1>3 DEF CatalogInv, SeenOK, ForgottenOK
<1>7. DOMAIN tags' \subseteq TagId /\ DOMAIN tags \subseteq DOMAIN tags'
  BY <1>1, <1>3, TablesAre DEF CatalogInv
<1> HIDE DEF F
<1>8. F \subseteq seen.forgotten
  BY DEF F
<1> QED BY <1>1, <1>5, <1>6, <1>7, <1>8, TagTableKeeps

LEMMA EditTagKeeps ==
  ASSUME CatalogInv, NEW t \in DOMAIN tags,
         \/ \E name \in TagName, period \in SUBSET Day : UpdateTag(t, name, period)
         \/ \E archived \in BOOLEAN : ArchiveTag(t, archived)
  PROVE  CatalogInv'
<1>1. ASSUME NEW name \in TagName, NEW period \in SUBSET Day, UpdateTag(t, name, period)
      PROVE  CatalogInv'
  <2> DEFINE F == seen.forgotten \ {name}
  <2>1. /\ IdsOf(tags, {name}) \subseteq {t}
        /\ tags' = [tags EXCEPT ![t].name = name, ![t].period = period]
        /\ seen' = [seen EXCEPT !.forgotten = F]
        /\ UNCHANGED <<categories, rules, templates, standing, txns>>
    BY <1>1 DEF UpdateTag, Typed
  <2>2. /\ DOMAIN tags' = DOMAIN tags /\ tags' \in [DOMAIN tags -> Tag] /\ tags'[t].name = name
        /\ \A u \in DOMAIN tags : u # t => tags'[u] = tags[u]
    BY <2>1, TablesAre DEF CatalogInv, TagsOK, Tag
  <2>3. \A u \in DOMAIN tags : u # t => tags[u].name # name
    BY <2>1 DEF IdsOf
  <2>4. TagsOK(tags')
    BY <2>2, <2>3, TablesAre DEF CatalogInv, TagsOK
  <2>5. F \in SUBSET TagName /\ \A u \in DOMAIN tags' : tags'[u].name \notin F
    BY <2>2 DEF CatalogInv, SeenOK, ForgottenOK
  <2>6. F \subseteq seen.forgotten
    OBVIOUS
  <2> HIDE DEF F
  <2> QED BY <2>1, <2>2, <2>4, <2>5, <2>6, TablesAre, TagTableKeeps DEF CatalogInv
<1>2. ASSUME NEW archived \in BOOLEAN, ArchiveTag(t, archived)
      PROVE  CatalogInv'
  <2>1. /\ tags' = [tags EXCEPT ![t].archived = archived]
        /\ UNCHANGED <<categories, rules, templates, standing, txns, seen>>
    BY <1>2 DEF ArchiveTag
  <2>2. /\ DOMAIN tags' = DOMAIN tags /\ tags' \in [DOMAIN tags -> Tag]
        /\ \A u \in DOMAIN tags : tags'[u].name = tags[u].name
    BY <2>1, TablesAre DEF CatalogInv, TagsOK, Tag
  <2>3. TagsOK(tags')
    BY <2>2, TablesAre DEF CatalogInv, TagsOK
  <2>4. seen.forgotten \in SUBSET TagName /\ \A u \in DOMAIN tags' : tags'[u].name \notin seen.forgotten
    BY <2>2 DEF CatalogInv, SeenOK, ForgottenOK
  <2>5. seen' = [seen EXCEPT !.forgotten = seen.forgotten]
    BY <2>1 DEF CatalogInv, SeenOK
  <2> QED BY <2>1, <2>2, <2>3, <2>4, <2>5, TablesAre, TagTableKeeps DEF CatalogInv
<1> QED BY <1>1, <1>2

LEMMA DeleteTagKeeps ==
  ASSUME CatalogInv, NEW t \in DOMAIN tags, DeleteTag(t)
  PROVE  CatalogInv'
<1> DEFINE F == seen.forgotten \cup {tags[t].name}
<1>1. /\ txns' = Untagged(t) /\ rules' = RulesWithout(t) /\ tags' = Without(tags, {t})
      /\ seen' = [seen EXCEPT !.forgotten = F]
      /\ UNCHANGED <<categories, templates, standing>>
  BY DEF DeleteTag
<1>2. /\ DOMAIN tags' = DOMAIN tags \ {t} /\ \A u \in DOMAIN tags' : tags'[u] = tags[u]
      /\ tags' \in [DOMAIN tags' -> Tag]
  <2>1. tags' = [u \in DOMAIN tags \ {t} |-> tags[u]]
    BY <1>1 DEF Without, Restrict
  <2>2. \A u \in DOMAIN tags : tags[u] \in Tag
    BY TablesAre DEF CatalogInv, TagsOK
  <2> QED BY <2>1, <2>2
<1>3. TagsOK(tags') /\ DOMAIN tags' \subseteq TagId
  BY <1>2, TablesAre DEF CatalogInv, TagsOK
<1>4. ASSUME NEW id \in DOMAIN txns
      PROVE  /\ txns'[id] \in Transaction /\ txns'[id].tags = txns[id].tags \ {t}
             /\ txns'[id].category = txns[id].category /\ txns'[id].type = txns[id].type
             /\ txns'[id].auto = txns[id].auto /\ txns'[id].dismissed = txns[id].dismissed
  <2>1. txns[id] \in Transaction /\ txns'[id] = [txns[id] EXCEPT !.tags = @ \ {t}]
    BY <1>1, TablesAre DEF CatalogInv, Untagged
  <2> QED BY <2>1 DEF Transaction
<1>5. ASSUME NEW r \in DOMAIN rules
      PROVE  /\ rules'[r] \in Rule /\ rules'[r].adds = rules[r].adds \ {tags[t].name}
             /\ rules'[r].sets = rules[r].sets
             /\ rules'[r].excludes = IF rules[r].excludes = t THEN Null ELSE rules[r].excludes
  <2>1. /\ rules[r] \in Rule
        /\ rules'[r] = [rules[r] EXCEPT !.excludes = IF @ = t THEN Null ELSE @,
                                        !.adds = @ \ {tags[t].name}]
    BY <1>1, TablesAre DEF CatalogInv, RulesWithout
  <2> QED BY <2>1 DEF Rule
<1>6. /\ DOMAIN txns' = DOMAIN txns /\ txns' \in [DOMAIN txns -> Transaction]
      /\ DOMAIN rules' = DOMAIN rules /\ rules' \in [DOMAIN rules -> Rule]
  BY <1>1, <1>4, <1>5 DEF Untagged, RulesWithout
<1>7. \A id \in DOMAIN txns : txns'[id].tags \subseteq DOMAIN tags'
  BY <1>2, <1>4, TablesAre DEF CatalogInv
<1>8. \A r \in DOMAIN rules : rules'[r].excludes \in DOMAIN tags' \cup {Null}
  BY <1>2, <1>5, TablesAre DEF CatalogInv
<1>9. F \in SUBSET TagName /\ \A u \in DOMAIN tags' : tags'[u].name \notin F
  BY <1>2, TablesAre DEF CatalogInv, SeenOK, ForgottenOK, TagsOK, Tag
<1>10. \A r \in DOMAIN rules : rules'[r].adds \cap F = {}
  BY <1>5 DEF CatalogInv, ForgottenOK
<1> HIDE DEF F
<1> QED BY <1>1, <1>3, <1>4, <1>5, <1>6, <1>7, <1>8, <1>9, <1>10, TagsKeep

LEMMA MergeTagsKeeps ==
  ASSUME CatalogInv, NEW s \in DOMAIN tags, NEW t \in DOMAIN tags, MergeTags(s, t)
  PROVE  CatalogInv'
<1> DEFINE period == IF tags[t].period = {} THEN tags[s].period ELSE tags[t].period
<1>1. /\ s # t
      /\ txns' = [id \in DOMAIN txns |-> [txns[id] EXCEPT !.tags = {Into(x, s, t) : x \in @}]]
      /\ rules' = TagRules(s, t)
      /\ tags' = [tags EXCEPT ![t].period = period, ![s].period = {}, ![s].archived = TRUE]
      /\ UNCHANGED <<categories, templates, standing, seen>>
  BY DEF MergeTags, TagsMayMerge
<1>2. s # Null /\ t # Null /\ s \in TagId /\ t \in TagId
  BY TablesAre, CatalogAssumption DEF CatalogInv, TagId
<1>3. /\ DOMAIN tags' = DOMAIN tags /\ tags' \in [DOMAIN tags -> Tag]
      /\ \A u \in DOMAIN tags : tags'[u].name = tags[u].name
  <2>1. period \in SUBSET Day
    BY TablesAre DEF CatalogInv, TagsOK, Tag
  <2> HIDE DEF period
  <2> QED BY <1>1, <2>1, TablesAre DEF CatalogInv, TagsOK, Tag
<1>4. TagsOK(tags')
  BY <1>3, TablesAre DEF CatalogInv, TagsOK
<1>5. ASSUME NEW id \in DOMAIN txns
      PROVE  /\ txns'[id] \in Transaction /\ txns'[id].tags \subseteq DOMAIN tags'
             /\ txns'[id].category = txns[id].category /\ txns'[id].type = txns[id].type
             /\ txns'[id].auto = txns[id].auto /\ txns'[id].dismissed = txns[id].dismissed
  <2>1. /\ txns[id] \in Transaction /\ txns[id].tags \subseteq DOMAIN tags
        /\ txns'[id] = [txns[id] EXCEPT !.tags = {Into(x, s, t) : x \in @}]
    BY <1>1, TablesAre DEF CatalogInv
  <2>2. {Into(x, s, t) : x \in txns[id].tags} \subseteq DOMAIN tags
    BY <2>1 DEF Into
  <2> QED BY <1>3, <2>1, <2>2, TablesAre DEF CatalogInv, Transaction
<1>6. ASSUME NEW r \in DOMAIN rules
      PROVE  /\ rules'[r] \in Rule /\ rules'[r].sets = rules[r].sets
             /\ rules'[r].adds = {Into(n, tags[s].name, tags[t].name) : n \in rules[r].adds}
             /\ rules'[r].excludes = Into(rules[r].excludes, s, t)
  <2> DEFINE adds == {Into(n, tags[s].name, tags[t].name) : n \in rules[r].adds}
  <2>1. rules[r] \in Rule /\ tags[t].name \in TagName
    BY TablesAre DEF CatalogInv, TagsOK, Tag
  <2>2. adds \in SUBSET TagName /\ Into(rules[r].excludes, s, t) \in TagId \cup {Null}
    BY <1>2, <2>1 DEF Rule, Into
  <2>3. rules'[r] = [rules[r] EXCEPT !.excludes = Into(@, s, t), !.adds = adds]
    BY <1>1, <2>1 DEF TagRules, Rule
  <2> HIDE DEF adds
  <2>4. rules'[r] \in Rule /\ rules'[r].sets = rules[r].sets /\ rules'[r].adds = adds
        /\ rules'[r].excludes = Into(rules[r].excludes, s, t)
    BY <2>1, <2>2, <2>3 DEF Rule
  <2> QED BY <2>4 DEF adds
<1>7. /\ DOMAIN txns' = DOMAIN txns /\ txns' \in [DOMAIN txns -> Transaction]
      /\ DOMAIN rules' = DOMAIN rules /\ rules' \in [DOMAIN rules -> Rule]
  BY <1>1, <1>5, <1>6 DEF TagRules
<1>8. \A r \in DOMAIN rules : rules'[r].excludes \in DOMAIN tags' \cup {Null}
  BY <1>3, <1>6, TablesAre DEF CatalogInv, Into
<1>9. /\ seen.forgotten \in SUBSET TagName /\ seen' = [seen EXCEPT !.forgotten = seen.forgotten]
      /\ \A u \in DOMAIN tags' : tags'[u].name \notin seen.forgotten
  BY <1>1, <1>3 DEF CatalogInv, SeenOK, ForgottenOK
<1>10. \A r \in DOMAIN rules : rules'[r].adds \cap seen.forgotten = {}
  BY <1>6 DEF CatalogInv, ForgottenOK, Into
<1> QED BY <1>1, <1>3, <1>4, <1>5, <1>6, <1>7, <1>8, <1>9, <1>10, TablesAre, TagsKeep DEF CatalogInv

LEMMA BulkTagsKeeps ==
  ASSUME CatalogInv, NEW ids \in SUBSET DOMAIN txns, NEW mode \in {"add", "remove", "replace"},
         NEW names \in SUBSET TagName, BulkTags(ids, mode, names)
  PROVE  CatalogInv'
<1> DEFINE table == IF mode = "remove" THEN tags ELSE WithTags(tags, names)
           named == IdsOf(table, names)
           patched(old) == CASE mode = "add" -> old \cup named
                             [] mode = "remove" -> old \ named
                             [] mode = "replace" -> named
           F == IF mode = "remove" THEN seen.forgotten ELSE seen.forgotten \ names
<1>1. /\ DOMAIN table \subseteq TagId /\ tags' = table
      /\ txns' = [id \in DOMAIN txns |->
           IF id \in ids THEN [txns[id] EXCEPT !.tags = patched(@)] ELSE txns[id]]
      /\ UNCHANGED <<categories, rules, templates, standing>>
  BY DEF BulkTags
<1>2. seen' = [seen EXCEPT !.forgotten = F]
  <2>1. CASE mode = "remove"
    BY <2>1 DEF BulkTags, CatalogInv, SeenOK
  <2>2. CASE mode # "remove"
    BY <2>2 DEF BulkTags, Typed
  <2> QED BY <2>1, <2>2
<1>3. /\ TagsOK(table) /\ DOMAIN tags \subseteq DOMAIN table
      /\ \A t \in DOMAIN tags : table[t] = tags[t]
      /\ \A t \in DOMAIN table \ DOMAIN tags : mode # "remove" /\ table[t].name \in names
  BY WithTagsFacts, TablesAre DEF CatalogInv, Tagged
<1>4. named \subseteq DOMAIN table
  BY DEF IdsOf
<1>5. F \in SUBSET TagName /\ F \subseteq seen.forgotten
  BY DEF CatalogInv, SeenOK
<1>6. mode # "remove" => F \cap names = {}
  OBVIOUS
<1> HIDE DEF table, named, F
<1>7. ASSUME NEW id \in DOMAIN txns
      PROVE  /\ txns'[id] \in Transaction /\ txns'[id].tags \subseteq DOMAIN tags'
             /\ txns'[id].category = txns[id].category /\ txns'[id].type = txns[id].type
             /\ txns'[id].auto = txns[id].auto /\ txns'[id].dismissed = txns[id].dismissed
  <2>1. txns[id] \in Transaction /\ txns[id].tags \subseteq DOMAIN table
    BY <1>3, TablesAre DEF CatalogInv
  <2>2. patched(txns[id].tags) \subseteq DOMAIN table
    BY <1>4, <2>1
  <2>3. txns'[id] = IF id \in ids THEN [txns[id] EXCEPT !.tags = patched(txns[id].tags)] ELSE txns[id]
    BY <1>1, <2>1 DEF Transaction
  <2> HIDE DEF patched
  <2> QED BY <1>1, <2>1, <2>2, <2>3 DEF Transaction
<1>8. DOMAIN txns' = DOMAIN txns /\ txns' \in [DOMAIN txns -> Transaction]
  <2> HIDE DEF patched
  <2>1. DOMAIN txns' = DOMAIN txns /\ txns' = [id \in DOMAIN txns |-> txns'[id]]
    BY <1>1
  <2> QED BY <1>7, <2>1
<1>9. /\ DOMAIN rules' = DOMAIN rules /\ rules' \in [DOMAIN rules -> Rule]
      /\ \A r \in DOMAIN rules : /\ rules'[r].sets = rules[r].sets
                                 /\ rules'[r].excludes \in DOMAIN tags' \cup {Null}
                                 /\ rules'[r].adds \cap F = {}
  <2>1. rules' = rules /\ rules \in [DOMAIN rules -> Rule]
    BY <1>1 DEF CatalogInv, WellFormed, TypeOK, TablesOK
  <2> QED BY <1>1, <1>3, <1>5, <2>1, TablesAre DEF CatalogInv, ForgottenOK
<1>10. \A t \in DOMAIN tags' : tags'[t].name \notin F
  BY <1>1, <1>3, <1>5, <1>6 DEF CatalogInv, ForgottenOK
<1> QED BY <1>1, <1>2, <1>3, <1>5, <1>7, <1>8, <1>9, <1>10, TagsKeep

\* Rules that name rows there are, and neither forgotten tags nor merged categories.
LEMMA RulesKeep ==
  ASSUME CatalogInv, UNCHANGED <<categories, tags, templates, standing, txns>>,
         DOMAIN rules' \subseteq RuleId, rules' \in [DOMAIN rules' -> Rule],
         \A r \in DOMAIN rules' : /\ rules'[r].sets \in DOMAIN categories \cup {Null}
                                 /\ rules'[r].excludes \in DOMAIN tags \cup {Null},
         NEW F \in SUBSET seen.forgotten, NEW G \in SUBSET seen.merged,
         seen' = [seen EXCEPT !.forgotten = F, !.merged = G],
         \A r \in DOMAIN rules' : rules'[r].adds \cap F = {} /\ rules'[r].sets \notin G
  PROVE  CatalogInv'
<1>1. /\ seen'.merged = G /\ seen'.forgotten = F
      /\ seen'.picked = seen.picked /\ seen'.guessed = seen.guessed
      /\ seen'.rejected = seen.rejected /\ SeenOK'
  BY DEF CatalogInv, SeenOK
<1>2. TypeOK'
  BY DEF CatalogInv, WellFormed, TypeOK, TablesOK
<1>3. NamesAreUnique' /\ TypesAgree' /\ PostsOK'
  BY DEF CatalogInv, WellFormed, NamesAreUnique, UniqueNames, TypesAgree, PostsOK
<1>4. ChoicesOK' /\ ForgottenOK' /\ MergedOK'
  BY <1>1 DEF CatalogInv, ChoicesOK, ForgottenOK, MergedOK
<1> QED BY <1>1, <1>2, <1>3, <1>4 DEF CatalogInv, WellFormed

LEMMA SaveRuleKeeps ==
  ASSUME CatalogInv, NEW r \in RuleId, NEW row \in RuleInput, SaveRule(r, row)
  PROVE  CatalogInv'
<1> DEFINE F == seen.forgotten \ row.adds
           G == seen.merged \ {row.sets}
<1>1. /\ row.sets # Null => row.sets \in DOMAIN categories
      /\ row.excludes # Null => row.excludes \in DOMAIN tags
      /\ rules' = Put(rules, r, row) /\ seen' = [seen EXCEPT !.forgotten = F, !.merged = G]
      /\ UNCHANGED <<categories, tags, templates, standing, txns>>
  BY DEF SaveRule
<1>2. row \in Rule
  BY SetUpAssumption
<1>3. /\ DOMAIN rules' = DOMAIN rules \cup {r} /\ rules'[r] = row
      /\ \A q \in DOMAIN rules : q # r => rules'[q] = rules[q]
      /\ rules' = [q \in DOMAIN rules' |-> rules'[q]]
  BY <1>1 DEF Put
<1>4. rules' \in [DOMAIN rules' -> Rule] /\ DOMAIN rules' \subseteq RuleId
  BY <1>2, <1>3, TablesAre DEF CatalogInv
<1>5. F \in SUBSET seen.forgotten /\ G \in SUBSET seen.merged
  OBVIOUS
<1>6. \A q \in DOMAIN rules' : /\ rules'[q].sets \in DOMAIN categories \cup {Null}
                              /\ rules'[q].excludes \in DOMAIN tags \cup {Null}
                              /\ rules'[q].adds \cap F = {} /\ rules'[q].sets \notin G
  BY <1>1, <1>3, TablesAre DEF CatalogInv, ForgottenOK, MergedOK
<1> HIDE DEF F, G
<1> QED BY <1>1, <1>4, <1>5, <1>6, RulesKeep

LEMMA EditRuleKeeps ==
  ASSUME CatalogInv, NEW r \in DOMAIN rules, ToggleRule(r) \/ DeleteRule(r)
  PROVE  CatalogInv'
<1>1. /\ UNCHANGED <<categories, tags, templates, standing, txns, seen>>
      /\ DOMAIN rules' \subseteq DOMAIN rules /\ rules' \in [DOMAIN rules' -> Rule]
      /\ \A q \in DOMAIN rules' : /\ rules'[q].sets = rules[q].sets
                                  /\ rules'[q].excludes = rules[q].excludes
                                  /\ rules'[q].adds = rules[q].adds
  <2>1. CASE ToggleRule(r)
    <3>1. rules \in [DOMAIN rules -> Rule]
      BY DEF CatalogInv, WellFormed, TypeOK, TablesOK
    <3>2. rules' = [rules EXCEPT ![r].enabled = ~@] /\ rules[r].enabled \in BOOLEAN
      BY <2>1, <3>1 DEF ToggleRule, Rule
    <3>3. \A q \in DOMAIN rules : rules'[q] = IF q = r THEN [rules[r] EXCEPT !.enabled = ~@] ELSE rules[q]
      BY <3>1, <3>2
    <3>4. ASSUME NEW q \in DOMAIN rules
          PROVE  /\ rules'[q] \in Rule /\ rules'[q].sets = rules[q].sets
                 /\ rules'[q].excludes = rules[q].excludes /\ rules'[q].adds = rules[q].adds
      <4>1. rules[q] \in Rule /\ rules[r] \in Rule
        BY <3>1
      <4>2. [rules[r] EXCEPT !.enabled = ~@] \in Rule
        BY <3>2, <4>1 DEF Rule
      <4> QED BY <3>3, <4>1, <4>2 DEF Rule
    <3>5. DOMAIN rules' = DOMAIN rules /\ rules' = [q \in DOMAIN rules |-> rules'[q]]
      BY <3>1, <3>2
    <3> QED BY <2>1, <3>4, <3>5 DEF ToggleRule
  <2>2. CASE DeleteRule(r)
    BY <2>2, TablesAre DEF CatalogInv, DeleteRule, Without, Restrict
  <2> QED BY <2>1, <2>2
<1>2. seen' = [seen EXCEPT !.forgotten = seen.forgotten, !.merged = seen.merged]
  BY <1>1 DEF CatalogInv, SeenOK
<1>3. \A q \in DOMAIN rules' : /\ rules'[q].sets \in DOMAIN categories \cup {Null}
                              /\ rules'[q].excludes \in DOMAIN tags \cup {Null}
                              /\ rules'[q].adds \cap seen.forgotten = {}
                              /\ rules'[q].sets \notin seen.merged
  BY <1>1, TablesAre DEF CatalogInv, ForgottenOK, MergedOK
<1>4. DOMAIN rules' \subseteq RuleId
  BY <1>1, TablesAre DEF CatalogInv
<1>5. seen.forgotten \in SUBSET seen.forgotten /\ seen.merged \in SUBSET seen.merged
  OBVIOUS
<1> QED BY <1>1, <1>2, <1>3, <1>4, <1>5, RulesKeep

-----------------------------------------------------------------------------
(* Transactions by themselves                                              *)

\* Rows that fit the other tables.
LEMMA TxnsKeep ==
  ASSUME CatalogInv, UNCHANGED <<categories, tags, rules, templates, standing>>,
         DOMAIN txns' \subseteq TxnId, txns' \in [DOMAIN txns' -> Transaction],
         \A id \in DOMAIN txns' : /\ txns'[id].category \in DOMAIN categories
                                  /\ categories[txns'[id].category].type = txns'[id].type
                                  /\ txns'[id].tags \subseteq DOMAIN tags,
         seen'.merged = seen.merged, seen'.forgotten = seen.forgotten, SeenOK', ChoicesOK'
  PROVE  CatalogInv'
<1>1. TypeOK'
  BY DEF CatalogInv, WellFormed, TypeOK, TablesOK
<1>2. NamesAreUnique' /\ TypesAgree' /\ PostsOK'
  BY DEF CatalogInv, WellFormed, NamesAreUnique, UniqueNames, TypesAgree, PostsOK
<1>3. ForgottenOK' /\ MergedOK'
  BY DEF CatalogInv, ForgottenOK, MergedOK
<1> QED BY <1>1, <1>2, <1>3 DEF CatalogInv, WellFormed

LEMMA BulkCategoryKeeps ==
  ASSUME CatalogInv, NEW ids \in SUBSET DOMAIN txns, NEW c \in DOMAIN categories,
         BulkCategory(ids, c)
  PROVE  CatalogInv' /\ StaysEmpty
<1> DEFINE moved == {id \in ids : txns[id].category # c}
<1>1. /\ \A id \in ids : txns[id].type = categories[c].type
      /\ txns' = [id \in DOMAIN txns |->
           IF id \in ids THEN [txns[id] EXCEPT !.category = c, !.auto = StillMarked(txns[id], c)]
           ELSE txns[id]]
      /\ seen' = [seen EXCEPT !.guessed = @ \ moved,
                              !.picked = [id \in DOMAIN txns |->
                                            IF id \in moved THEN Pick(categories, c) ELSE @[id]]]
      /\ UNCHANGED <<categories, tags, rules, templates, standing>>
  BY DEF BulkCategory
<1>2. ASSUME NEW id \in DOMAIN txns
      PROVE  /\ txns'[id] \in Transaction
             /\ txns'[id].category = (IF id \in ids THEN c ELSE txns[id].category)
             /\ txns'[id].auto = (txns[id].auto /\ id \notin moved)
             /\ txns'[id].type = txns[id].type /\ txns'[id].tags = txns[id].tags
             /\ txns'[id].dismissed = txns[id].dismissed
  <2>1. txns[id] \in Transaction /\ c \in CategoryId
    BY TablesAre DEF CatalogInv
  <2>2. CASE id \notin ids
    BY <1>1, <2>1, <2>2 DEF Transaction
  <2>3. CASE id \in ids
    <3>1. /\ StillMarked(txns[id], c) \in BOOLEAN
          /\ StillMarked(txns[id], c) = (txns[id].auto /\ id \notin moved)
      BY <2>1, <2>3 DEF StillMarked, Transaction
    <3>2. txns'[id] = [txns[id] EXCEPT !.category = c, !.auto = StillMarked(txns[id], c)]
      BY <1>1, <2>3
    <3>3. /\ txns'[id] \in Transaction /\ txns'[id].category = c
          /\ txns'[id].auto = StillMarked(txns[id], c)
          /\ txns'[id].type = txns[id].type /\ txns'[id].tags = txns[id].tags
          /\ txns'[id].dismissed = txns[id].dismissed
      BY <2>1, <3>1, <3>2 DEF Transaction
    <3> QED BY <2>3, <3>1, <3>3
  <2> QED BY <2>2, <2>3
<1>3. DOMAIN txns' = DOMAIN txns /\ txns' = [id \in DOMAIN txns |-> txns'[id]]
  BY <1>1
<1>4. /\ txns' \in [DOMAIN txns' -> Transaction] /\ DOMAIN txns' \subseteq TxnId
      /\ \A id \in DOMAIN txns' : /\ txns'[id].category \in DOMAIN categories
                                  /\ categories[txns'[id].category].type = txns'[id].type
                                  /\ txns'[id].tags \subseteq DOMAIN tags
  <2>1. /\ DOMAIN txns \subseteq TxnId
        /\ \A id \in DOMAIN txns : /\ txns[id].category \in DOMAIN categories
                                   /\ categories[txns[id].category].type = txns[id].type
                                   /\ txns[id].tags \subseteq DOMAIN tags
    BY TablesAre DEF CatalogInv
  <2>2. \A id \in DOMAIN txns' : txns'[id] \in Transaction
    BY <1>2, <1>3
  <2>3. txns' \in [DOMAIN txns' -> Transaction]
    BY <1>3, <2>2
  <2>4. ASSUME NEW id \in DOMAIN txns'
        PROVE  /\ txns'[id].category \in DOMAIN categories
               /\ categories[txns'[id].category].type = txns'[id].type
               /\ txns'[id].tags \subseteq DOMAIN tags
    <3>1. id \in DOMAIN txns
      BY <1>3
    <3>2. CASE id \in ids
      <4>1. txns[id].type = categories[c].type
        BY <1>1, <3>2
      <4> QED BY <1>2, <2>1, <3>1, <3>2, <4>1
    <3>3. CASE id \notin ids
      BY <1>2, <2>1, <3>1, <3>3
    <3> QED BY <3>2, <3>3
  <2> QED BY <1>3, <2>1, <2>3, <2>4
<1>5. /\ seen'.merged = seen.merged /\ seen'.forgotten = seen.forgotten
      /\ seen'.guessed = seen.guessed \ moved /\ seen'.rejected = seen.rejected
      /\ \A id \in DOMAIN txns :
           seen'.picked[id] = IF id \in moved THEN Pick(categories, c) ELSE seen.picked[id]
  <2> HIDE DEF moved
  <2> QED BY <1>1 DEF CatalogInv, SeenOK
<1>6. \/ Pick(categories, c) = c /\ categories[c].name # Uncategorized
      \/ Pick(categories, c) = Null
  BY DEF Pick
<1>7. SeenOK'
  <2>1. c \in CategoryId
    BY TablesAre DEF CatalogInv
  <2> HIDE DEF moved
  <2>2. [id \in DOMAIN txns |-> IF id \in moved THEN Pick(categories, c) ELSE seen.picked[id]]
          \in [DOMAIN txns' -> CategoryId \cup {Null}]
    BY <1>3, <1>6, <2>1 DEF CatalogInv, SeenOK
  <2> QED BY <1>1, <2>2 DEF CatalogInv, SeenOK
<1>8. ChoicesOK'
  <2>1. ASSUME NEW id \in DOMAIN txns', seen'.picked[id] # Null
        PROVE  /\ seen'.picked[id] = txns'[id].category
               /\ categories'[seen'.picked[id]].name # Uncategorized
    <3>1. CASE id \in moved
      BY <1>1, <1>2, <1>3, <1>5, <1>6, <2>1, <3>1
    <3>2. CASE id \notin moved
      <4>1. txns'[id].category = txns[id].category /\ seen'.picked[id] = seen.picked[id]
        BY <1>2, <1>3, <1>5, <2>1, <3>2
      <4> QED BY <1>1, <1>3, <2>1, <4>1 DEF CatalogInv, ChoicesOK
    <3> QED BY <3>1, <3>2
  <2>2. \A id \in seen'.guessed : id \in DOMAIN txns' /\ txns'[id].auto
    <3> HIDE DEF moved
    <3> QED BY <1>2, <1>3, <1>5 DEF CatalogInv, ChoicesOK
  <2>3. \A r \in seen'.rejected : r[1] \in DOMAIN txns' /\ txns'[r[1]].dismissed = r[2]
    BY <1>2, <1>3, <1>5 DEF CatalogInv, ChoicesOK
  <2> QED BY <2>1, <2>2, <2>3 DEF ChoicesOK
<1>9. StaysEmpty
  <2> SUFFICES ASSUME NEW m \in seen.merged \cap seen'.merged, NEW k \in DOMAIN txns',
                      txns'[k].category = m, seen'.picked[k] # m,
                      categories[m].name # Uncategorized
               PROVE  k \in DOMAIN txns /\ txns[k].category = m
    BY DEF StaysEmpty
  <2>1. CASE k \in moved
    <3>1. txns'[k].category = c /\ seen'.picked[k] = Pick(categories, c)
      BY <1>2, <1>3, <1>5, <2>1
    <3>2. c # Null
      BY TablesAre, CatalogAssumption DEF CatalogInv, CategoriesOK
    <3> QED BY <3>1, <3>2 DEF Pick
  <2>2. CASE k \notin moved
    BY <1>2, <1>3, <2>2
  <2> QED BY <2>1, <2>2
<1> QED BY <1>1, <1>4, <1>5, <1>7, <1>8, <1>9, TxnsKeep

LEMMA PostRecurringKeeps ==
  ASSUME CatalogInv, NEW c \in standing, NEW title \in Title, PostRecurring(c, title)
  PROVE  CatalogInv' /\ StaysEmpty
<1> DEFINE id == NewId(txns)
           row == [type |-> categories[c].type, category |-> c, title |-> title, tags |-> {},
                   posted |-> TRUE, auto |-> FALSE, dismissed |-> Null]
<1>1. /\ id \in TxnId /\ txns' = Put(txns, id, row)
      /\ seen' = [seen EXCEPT !.picked = Put(@, id, Null)]
      /\ UNCHANGED <<categories, tags, rules, templates, standing>>
  BY DEF PostRecurring
<1>2. id \notin DOMAIN txns
  <2>1. \A k \in DOMAIN txns : k < id /\ k \in Nat
    BY NewIdIsNew, CatalogAssumption, TablesAre DEF TxnId, CatalogInv
  <2>2. id \in Nat
    BY <1>1, CatalogAssumption DEF TxnId
  <2> HIDE DEF id
  <2> QED BY <2>1, <2>2
<1> HIDE DEF id
<1>3. c \in DOMAIN categories /\ row \in Transaction
  <2>1. c \in DOMAIN categories
    BY DEF CatalogInv, PostsOK
  <2>2. c \in CategoryId /\ categories[c].type \in Type
    BY <2>1, TablesAre DEF CatalogInv, CategoriesOK, Category
  <2> QED BY <2>1, <2>2 DEF Transaction
<1>4. /\ DOMAIN txns' = DOMAIN txns \cup {id} /\ txns'[id] = row
      /\ \A k \in DOMAIN txns : txns'[k] = txns[k]
      /\ txns' = [k \in DOMAIN txns' |-> txns'[k]]
  BY <1>1, <1>2 DEF Put
<1>5. txns'[id].category = c /\ txns'[id].type = categories[c].type /\ txns'[id].tags = {}
  BY <1>4
<1> HIDE DEF row
<1>6. /\ txns' \in [DOMAIN txns' -> Transaction] /\ DOMAIN txns' \subseteq TxnId
      /\ \A k \in DOMAIN txns' : /\ txns'[k].category \in DOMAIN categories
                                 /\ categories[txns'[k].category].type = txns'[k].type
                                 /\ txns'[k].tags \subseteq DOMAIN tags
  BY <1>1, <1>3, <1>4, <1>5, TablesAre DEF CatalogInv
<1>7. /\ seen'.merged = seen.merged /\ seen'.forgotten = seen.forgotten
      /\ seen'.guessed = seen.guessed /\ seen'.rejected = seen.rejected
      /\ seen'.picked = Put(seen.picked, id, Null)
  BY <1>1 DEF CatalogInv, SeenOK
<1>8. SeenOK'
  <2>1. Put(seen.picked, id, Null) \in [DOMAIN txns' -> CategoryId \cup {Null}]
    BY <1>4 DEF Put, CatalogInv, SeenOK
  <2> QED BY <1>1, <2>1 DEF CatalogInv, SeenOK
<1>9. /\ seen'.picked[id] = Null /\ \A k \in DOMAIN txns : seen'.picked[k] = seen.picked[k]
  BY <1>2, <1>7 DEF Put, CatalogInv, SeenOK
<1>10. ChoicesOK'
  BY <1>1, <1>4, <1>7, <1>9 DEF CatalogInv, ChoicesOK
<1>11. StaysEmpty
  BY <1>4, <1>5 DEF StaysEmpty, CatalogInv, MergedOK
<1> QED BY <1>1, <1>6, <1>7, <1>8, <1>10, <1>11, TxnsKeep

LEMMA DismissKeeps ==
  ASSUME CatalogInv, NEW id \in DOMAIN txns, Dismiss(id)
  PROVE  CatalogInv' /\ StaysEmpty
<1>1. PICK c \in Suggested(id) :
         /\ txns' = [txns EXCEPT ![id].dismissed = c]
         /\ seen' = [seen EXCEPT !.rejected = {r \in @ : r[1] # id} \cup {<<id, c>>}]
  BY DEF Dismiss
<1>2. UNCHANGED <<categories, tags, rules, templates, standing>>
  BY DEF Dismiss
<1>3. c \in CategoryId
  <2>1. Suggested(id) \subseteq DOMAIN categories
    BY DEF Suggested, Eligible, Live
  <2> QED BY <2>1, TablesAre DEF CatalogInv
<1>4. /\ DOMAIN txns' = DOMAIN txns /\ txns' \in [DOMAIN txns' -> Transaction]
      /\ \A k \in DOMAIN txns : k # id => txns'[k] = txns[k]
      /\ txns'[id].dismissed = c /\ txns'[id].category = txns[id].category
      /\ txns'[id].type = txns[id].type /\ txns'[id].tags = txns[id].tags
      /\ txns'[id].auto = txns[id].auto
  <2>1. txns \in [DOMAIN txns -> Transaction] /\ txns[id] \in Transaction
    BY TablesAre DEF CatalogInv
  <2>2. /\ DOMAIN txns' = DOMAIN txns /\ txns'[id] = [txns[id] EXCEPT !.dismissed = c]
        /\ txns' = [k \in DOMAIN txns |-> txns'[k]]
        /\ \A k \in DOMAIN txns : k # id => txns'[k] = txns[k]
    BY <1>1, <2>1
  <2>3. /\ txns'[id] \in Transaction /\ txns'[id].dismissed = c
        /\ txns'[id].category = txns[id].category /\ txns'[id].type = txns[id].type
        /\ txns'[id].tags = txns[id].tags /\ txns'[id].auto = txns[id].auto
    BY <1>3, <2>1, <2>2 DEF Transaction
  <2>4. \A k \in DOMAIN txns : txns'[k] \in Transaction
    BY <2>1, <2>2, <2>3
  <2> QED BY <2>2, <2>3, <2>4
<1>5. /\ DOMAIN txns' \subseteq TxnId
      /\ \A k \in DOMAIN txns' : /\ txns'[k].category \in DOMAIN categories
                                 /\ categories[txns'[k].category].type = txns'[k].type
                                 /\ txns'[k].tags \subseteq DOMAIN tags
  BY <1>4, TablesAre DEF CatalogInv
<1>6. /\ seen'.merged = seen.merged /\ seen'.forgotten = seen.forgotten
      /\ seen'.guessed = seen.guessed /\ seen'.picked = seen.picked
      /\ seen'.rejected = {r \in seen.rejected : r[1] # id} \cup {<<id, c>>}
  BY <1>1 DEF CatalogInv, SeenOK
<1>7. SeenOK'
  <2>1. {r \in seen.rejected : r[1] # id} \cup {<<id, c>>} \in SUBSET (TxnId \X CategoryId)
    BY <1>3, TablesAre DEF CatalogInv, SeenOK
  <2> QED BY <1>1, <1>4, <2>1 DEF CatalogInv, SeenOK
<1>8. ChoicesOK'
  BY <1>2, <1>4, <1>6 DEF CatalogInv, ChoicesOK
<1>9. StaysEmpty
  BY <1>4 DEF StaysEmpty
<1> QED BY <1>2, <1>4, <1>5, <1>6, <1>7, <1>8, <1>9, TxnsKeep

-----------------------------------------------------------------------------
(* Every request                                                           *)

LEMMA InitCatalog == Init => CatalogInv
<1> SUFFICES ASSUME Init PROVE CatalogInv
  OBVIOUS
<1>1. /\ categories = FirstCategories /\ tags = FirstTags /\ rules \in FirstRules
      /\ templates = <<>> /\ standing = FirstStanding /\ txns = FirstTxns
      /\ seen = [merged |-> {}, forgotten |-> {}, guessed |-> {}, rejected |-> {},
                 picked |-> [id \in DOMAIN txns |-> Pick(categories, txns[id].category)]]
  BY DEF Init
<1>2. WellFormed /\ PostsOK
  BY <1>1, SetUpAssumption
     DEF WellFormed, TypeOK, NamesAreUnique, TypesAgree, PostsOK
<1>3. \A c : Pick(categories, c) # Null => /\ Pick(categories, c) = c
                                           /\ categories[c].name # Uncategorized
  BY DEF Pick
<1>4. SeenOK
  <2>1. \A id \in DOMAIN txns : Pick(categories, txns[id].category) \in CategoryId \cup {Null}
    BY <1>2, <1>3, TablesAre
  <2> QED BY <1>1, <2>1 DEF SeenOK
<1>5. ChoicesOK
  BY <1>1, <1>3 DEF ChoicesOK
<1>6. ForgottenOK /\ MergedOK
  BY <1>1 DEF ForgottenOK, MergedOK
<1> QED BY <1>2, <1>4, <1>5, <1>6 DEF CatalogInv

\* A request that leaves transactions in their categories puts none in a merged one.
LEMMA SameCategories ==
  ASSUME DOMAIN txns' = DOMAIN txns,
         \A id \in DOMAIN txns : txns'[id].category = txns[id].category
  PROVE  StaysEmpty
  BY DEF StaysEmpty

LEMMA NextCatalog == CatalogInv /\ [Next]_vars => CatalogInv' /\ StaysEmpty
<1> SUFFICES ASSUME CatalogInv, [Next]_vars PROVE CatalogInv' /\ StaysEmpty
  OBVIOUS
<1>1. CASE CategoryNext
  <2>1. ASSUME NEW s \in DOMAIN categories, NEW t \in DOMAIN categories, MergeCategories(s, t)
        PROVE  CatalogInv' /\ StaysEmpty
    BY <2>1, MergeCategoriesKeeps
  <2>2. ASSUME NEW type \in Type, NEW name \in CatName, CreateCategory(type, name)
        PROVE  CatalogInv' /\ StaysEmpty
    <3>1. txns' = txns
      BY <2>2 DEF CreateCategory
    <3> QED BY <2>2, <3>1, CreateCategoryKeeps, SameCategories
  <2>3. ASSUME NEW c \in DOMAIN categories, NEW name \in CatName, UpdateCategory(c, name)
        PROVE  CatalogInv' /\ StaysEmpty
    <3>1. txns' = txns
      BY <2>3 DEF UpdateCategory
    <3> QED BY <2>3, <3>1, UpdateCategoryKeeps, SameCategories
  <2>4. ASSUME NEW c \in DOMAIN categories, ArchiveCategory(c) \/ RestoreCategory(c)
        PROVE  CatalogInv' /\ StaysEmpty
    <3>1. txns' = txns
      BY <2>4 DEF ArchiveCategory, RestoreCategory
    <3> QED BY <2>4, <3>1, ArchivingKeeps, SameCategories
  <2>5. ASSUME NEW name, (\E c \in DOMAIN categories : SaveTemplate(name, c)) \/ DeleteTemplate(name)
        PROVE  CatalogInv' /\ StaysEmpty
    <3>1. txns' = txns
      BY <2>5 DEF SaveTemplate, DeleteTemplate
    <3> QED BY <2>5, <3>1, TemplatesKeep, SameCategories
  <2> QED BY <1>1, <2>1, <2>2, <2>3, <2>4, <2>5 DEF CategoryNext
<1>2. CASE TagNext
  <2>1. CatalogInv'
    BY <1>2, CreateTagKeeps, EditTagKeeps, DeleteTagKeeps, MergeTagsKeeps DEF TagNext
  <2>2. /\ DOMAIN txns' = DOMAIN txns
        /\ \A id \in DOMAIN txns : txns'[id].category = txns[id].category
    <3>1. ASSUME NEW t, DeleteTag(t)
          PROVE  /\ DOMAIN txns' = DOMAIN txns
                 /\ \A id \in DOMAIN txns : txns'[id].category = txns[id].category
      BY <3>1, TablesAre DEF CatalogInv, DeleteTag, Untagged, Transaction
    <3>2. ASSUME NEW t, NEW s, MergeTags(s, t)
          PROVE  /\ DOMAIN txns' = DOMAIN txns
                 /\ \A id \in DOMAIN txns : txns'[id].category = txns[id].category
      BY <3>2, TablesAre DEF CatalogInv, MergeTags, Transaction
    <3> QED BY <1>2, <3>1, <3>2 DEF TagNext, CreateTag, UpdateTag, ArchiveTag
  <2> QED BY <2>1, <2>2, SameCategories
<1>3. CASE RuleNext
  <2>1. CatalogInv'
    BY <1>3, SaveRuleKeeps, EditRuleKeeps DEF RuleNext
  <2>2. txns' = txns
    BY <1>3 DEF RuleNext, SaveRule, ToggleRule, DeleteRule
  <2> QED BY <2>1, <2>2, SameCategories
<1>4. CASE TxnNext
  <2>1. ASSUME NEW type \in Type, NEW title \in Title, NEW names \in TagInput,
               NEW c \in DOMAIN categories \cup {Null}, NEW sure \in BOOLEAN,
               Create(type, title, c, names, sure)
        PROVE  CatalogInv' /\ StaysEmpty
    BY <2>1, CreateKeeps, CatalogAssumption
  <2>2. ASSUME NEW type \in Type, NEW title \in Title, NEW names \in TagInput,
               NEW id \in DOMAIN txns, NEW c \in DOMAIN categories \cup {Null},
               Update(id, type, title, c, names) \/ Update(id, type, title, c, Null)
        PROVE  CatalogInv' /\ StaysEmpty
    BY <2>2, UpdateKeeps, CatalogAssumption
  <2>3. ASSUME NEW ids \in SUBSET DOMAIN txns, NEW c \in DOMAIN categories, BulkCategory(ids, c)
        PROVE  CatalogInv' /\ StaysEmpty
    BY <2>3, BulkCategoryKeeps
  <2>4. ASSUME NEW ids \in SUBSET DOMAIN txns, NEW mode \in {"add", "remove", "replace"},
               NEW names \in TagInput, BulkTags(ids, mode, names)
        PROVE  CatalogInv' /\ StaysEmpty
    <3> names \in SUBSET TagName
      BY CatalogAssumption
    <3>1. CatalogInv'
      BY <2>4, BulkTagsKeeps
    <3>2. DOMAIN txns' = DOMAIN txns
      BY <2>4 DEF BulkTags
    <3>3. \A id \in DOMAIN txns : txns'[id].category = txns[id].category
      <4> DEFINE named == IdsOf(IF mode = "remove" THEN tags ELSE WithTags(tags, names), names)
                 patched(old) == CASE mode = "add" -> old \cup named
                                   [] mode = "remove" -> old \ named
                                   [] mode = "replace" -> named
      <4>1. txns' = [id \in DOMAIN txns |->
              IF id \in ids THEN [txns[id] EXCEPT !.tags = patched(@)] ELSE txns[id]]
        BY <2>4 DEF BulkTags
      <4>2. \A id \in DOMAIN txns : txns[id] \in Transaction
        BY TablesAre DEF CatalogInv
      <4> HIDE DEF patched
      <4> QED BY <4>1, <4>2 DEF Transaction
    <3> QED BY <3>1, <3>2, <3>3, SameCategories
  <2>5. ASSUME NEW name \in CatName \cup {Null}, NEW title \in Title, NEW day \in Day,
               NEW sure \in BOOLEAN, Ingest(name, title, day, sure)
        PROVE  CatalogInv' /\ StaysEmpty
    BY <2>5, IngestKeeps
  <2>6. ASSUME NEW c \in standing, NEW title \in Title, PostRecurring(c, title)
        PROVE  CatalogInv' /\ StaysEmpty
    BY <2>6, PostRecurringKeeps
  <2>7. ASSUME NEW id \in DOMAIN txns, Dismiss(id)
        PROVE  CatalogInv' /\ StaysEmpty
    BY <2>7, DismissKeeps
  <2>8. CASE Train
    <3>1. UNCHANGED <<categories, tags, rules, templates, standing, txns, seen>>
      BY <2>8 DEF Train
    <3> QED BY <3>1, SameCategories DEF CatalogInv, WellFormed, TypeOK, NamesAreUnique,
              TypesAgree, PostsOK, SeenOK, ChoicesOK, ForgottenOK, MergedOK
  <2> QED BY <1>4, <2>1, <2>2, <2>3, <2>4, <2>5, <2>6, <2>7, <2>8 DEF TxnNext
<1>5. CASE UNCHANGED vars
  BY <1>5, SameCategories DEF vars, CatalogInv, WellFormed, TypeOK, NamesAreUnique, TypesAgree,
     PostsOK, SeenOK, ChoicesOK, ForgottenOK, MergedOK
<1> QED BY <1>1, <1>2, <1>3, <1>4, <1>5 DEF Next

-----------------------------------------------------------------------------
(* What the invariant gives                                                *)

LEMMA DecisionsHold ==
  ASSUME CatalogInv
  PROVE  DecisionsStand
<1>1. ChoiceIsKept
  BY DEF CatalogInv, ChoicesOK, ChoiceIsKept
<1>2. LearnsFromPeople
  BY DEF CatalogInv, ChoicesOK, LearnsFromPeople, TrainingRows
<1>3. RejectedStaysRejected
  <2>1. \A id : txns[id].dismissed \notin Suggested(id)
    BY DEF Suggested
  <2> QED BY <2>1 DEF CatalogInv, ChoicesOK, RejectedStaysRejected
<1>4. DeletedStaysGone
  BY DEF CatalogInv, ForgottenOK, DeletedStaysGone, IdsOf
<1> QED BY <1>1, <1>2, <1>3, <1>4 DEF DecisionsStand

\* A merge of two tags renames neither, and gives the target what the source had.
LEMMA MergeTagsFacts ==
  ASSUME CatalogInv, NEW s \in DOMAIN tags, NEW t \in DOMAIN tags, MergeTags(s, t)
  PROVE  LET moved(ids) == {Into(x, s, t) : x \in ids}
         IN /\ \A id \in DOMAIN txns : txns'[id].tags = moved(txns[id].tags)
            /\ \A r \in DOMAIN rules : WouldAdd(rules[r])' = moved(WouldAdd(rules[r]))
            /\ \A day \in Day : moved(Attached(tags, day)) \subseteq Attached(tags', day)
<1> DEFINE moved(ids) == {Into(x, s, t) : x \in ids}
           period == IF tags[t].period = {} THEN tags[s].period ELSE tags[t].period
<1>1. /\ s # t /\ ~tags[t].archived
      /\ tags[s].period = {} \/ tags[t].period \in {{}, tags[s].period}
      /\ txns' = [id \in DOMAIN txns |-> [txns[id] EXCEPT !.tags = {Into(x, s, t) : x \in @}]]
      /\ rules' = TagRules(s, t)
      /\ tags' = [tags EXCEPT ![t].period = period, ![s].period = {}, ![s].archived = TRUE]
  BY DEF MergeTags, TagsMayMerge
<1>2. /\ \A u \in DOMAIN tags : tags[u] \in Tag /\ u \in TagId
      /\ \A u, v \in DOMAIN tags : tags[u].name = tags[v].name => u = v
      /\ s # Null /\ t # Null
  BY TablesAre, CatalogAssumption DEF CatalogInv, TagsOK, TagId
<1>3. /\ DOMAIN tags' = DOMAIN tags
      /\ \A u \in DOMAIN tags : /\ tags'[u].name = tags[u].name
                                /\ u # s => tags'[u].archived = tags[u].archived
                                /\ u # s /\ u # t => tags'[u] = tags[u]
      /\ tags'[t].period = period
  <2> HIDE DEF period
  <2> QED BY <1>1, <1>2 DEF Tag
<1>4. ASSUME NEW id \in DOMAIN txns
      PROVE  txns'[id].tags = moved(txns[id].tags)
  <2>1. txns[id] \in Transaction
    BY TablesAre DEF CatalogInv
  <2>2. txns'[id] = [txns[id] EXCEPT !.tags = moved(txns[id].tags)]
    BY <1>1
  <2> HIDE DEF moved
  <2> QED BY <2>1, <2>2 DEF Transaction
<1>5. ASSUME NEW r \in DOMAIN rules
      PROVE  WouldAdd(rules[r])' = moved(WouldAdd(rules[r]))
  <2>1. rules[r] \in Rule /\ rules[r].excludes \in DOMAIN tags \cup {Null}
    BY TablesAre DEF CatalogInv
  <2>2. /\ rules'[r].excludes = Into(rules[r].excludes, s, t)
        /\ rules'[r].adds = {Into(n, tags[s].name, tags[t].name) : n \in rules[r].adds}
    <3> DEFINE adds == {Into(n, tags[s].name, tags[t].name) : n \in rules[r].adds}
    <3>1. rules'[r] = [rules[r] EXCEPT !.excludes = Into(@, s, t), !.adds = adds]
      BY <1>1, <2>1 DEF TagRules, Rule
    <3> HIDE DEF adds
    <3>2. rules'[r].excludes = Into(rules[r].excludes, s, t) /\ rules'[r].adds = adds
      BY <2>1, <3>1 DEF Rule
    <3> QED BY <3>2 DEF adds
  <2> DEFINE old == AddsNames(rules[r], tags)
             new == AddsNames(rules'[r], tags')
  <2>3. \A n : n \in new <=> \E m \in old : n = Into(m, tags[s].name, tags[t].name)
    <3>1. \A u \in DOMAIN tags :
            tags'[Into(u, s, t)].name = Into(tags[u].name, tags[s].name, tags[t].name)
      BY <1>2, <1>3 DEF Into
    <3>2. CASE rules[r].excludes = Null
      <4>1. old = rules[r].adds /\ new = rules'[r].adds
        BY <1>2, <2>2, <3>2 DEF AddsNames, Into
      <4> QED BY <2>2, <4>1
    <3>3. CASE rules[r].excludes # Null
      <4>1. rules[r].excludes \in DOMAIN tags /\ rules'[r].excludes # Null
        BY <1>2, <2>1, <2>2, <3>3 DEF Into
      <4>2. /\ old = rules[r].adds \cup {tags[rules[r].excludes].name}
            /\ new = rules'[r].adds \cup {tags'[rules'[r].excludes].name}
        BY <3>3, <4>1 DEF AddsNames
      <4>3. tags'[rules'[r].excludes].name
              = Into(tags[rules[r].excludes].name, tags[s].name, tags[t].name)
        BY <2>2, <3>1, <4>1
      <4> HIDE DEF old, new
      <4> QED BY <2>2, <4>2, <4>3
    <3> QED BY <3>2, <3>3
  <2>4. WouldAdd(rules[r]) = {u \in DOMAIN tags : tags[u].name \in old}
    BY DEF WouldAdd, IdsOf
  <2>5. WouldAdd(rules[r])' = {u \in DOMAIN tags : tags[u].name \in new}
    BY <1>3 DEF WouldAdd, IdsOf
  <2> HIDE DEF old, new
  <2>6. ASSUME NEW u \in DOMAIN tags, tags[u].name \in new
        PROVE  \E x \in DOMAIN tags : tags[x].name \in old /\ u = Into(x, s, t)
    <3>1. PICK m \in old : tags[u].name = Into(m, tags[s].name, tags[t].name)
      BY <2>3, <2>6
    <3>2. CASE m = tags[s].name
      <4>1. u = t
        BY <1>2, <3>1, <3>2 DEF Into
      <4> QED BY <3>1, <3>2, <4>1 DEF Into
    <3>3. CASE m # tags[s].name
      <4>1. tags[u].name = m /\ u # s
        BY <3>1, <3>3 DEF Into
      <4> QED BY <3>1, <4>1 DEF Into
    <3> QED BY <3>2, <3>3
  <2>7. ASSUME NEW x \in DOMAIN tags, tags[x].name \in old
        PROVE  Into(x, s, t) \in DOMAIN tags /\ tags[Into(x, s, t)].name \in new
    <3>1. tags[Into(x, s, t)].name = Into(tags[x].name, tags[s].name, tags[t].name)
      BY <1>2 DEF Into
    <3> QED BY <2>3, <2>7, <3>1 DEF Into
  <2> QED BY <2>4, <2>5, <2>6, <2>7
<1>6. ASSUME NEW day \in Day, NEW u \in Attached(tags, day)
      PROVE  Into(u, s, t) \in Attached(tags', day)
  <2>1. u \in DOMAIN tags /\ ~tags[u].archived /\ day \in tags[u].period
    BY <1>6 DEF Attached, Live
  <2>2. CASE u \in {s, t}
    <3>1. day \in period
      BY <1>1, <2>1, <2>2
    <3>2. t \in DOMAIN tags' /\ ~tags'[t].archived /\ day \in tags'[t].period
      <4> HIDE DEF period
      <4> QED BY <1>1, <1>3, <3>1
    <3> QED BY <2>2, <3>2 DEF Attached, Live, Into
  <2>3. CASE u \notin {s, t}
    BY <1>3, <2>1, <2>3 DEF Attached, Live, Into
  <2> QED BY <2>2, <2>3
<1> QED BY <1>4, <1>5, <1>6

-----------------------------------------------------------------------------
(* Theorems                                                                *)

LEMMA CatalogInvariant == Spec => []CatalogInv
<1>1. Init => CatalogInv
  BY InitCatalog
<1>2. CatalogInv /\ [Next]_vars => CatalogInv'
  BY NextCatalog
<1> QED BY <1>1, <1>2, PTL DEF Spec

\* Rows keep their foreign keys, a name finds at most one category of a type and one tag,
\* and a transaction or template has a category of its own type, whatever is created,
\* renamed, restored, merged, posted, guessed, ingested or edited, in any order
\* (get_or_create, CategoryService, TagService, RuleService.apply_rules, IngestService).
THEOREM CatalogWellFormed == Spec => []WellFormed
<1>1. CatalogInv => WellFormed
  BY DEF CatalogInv
<1> QED BY <1>1, CatalogInvariant, PTL

\* A category somebody picked stays until another is picked or it is merged, the model is
\* not trained on its own guesses, a rejected suggestion is not made again, and a deleted
\* tag is not created again by a rule (TransactionService.create and update,
\* training_rows, suggestions_for, CategoryService.merge, TagService.delete).
THEOREM CatalogDecisionsStand == Spec => []DecisionsStand
<1>1. CatalogInv => DecisionsStand
  BY DecisionsHold
<1> QED BY <1>1, CatalogInvariant, PTL

\* Nothing but a user or a client puts a transaction into a category that was merged away,
\* and a merge of two tags moves transactions, rules and the days that attach the source
\* to the target, and nothing else (CategoryService.merge, TagService.merge).
THEOREM CatalogMergesStick == Spec => MergesStick
<1>1. CatalogInv /\ [Next]_vars => StaysEmpty
  BY NextCatalog
<1>2. ASSUME CatalogInv
      PROVE  tags' # tags => \A s, t \in DOMAIN tags : MergeTags(s, t) =>
               LET moved(ids) == {Into(x, s, t) : x \in ids}
               IN /\ \A id \in DOMAIN txns : txns'[id].tags = moved(txns[id].tags)
                  /\ \A r \in DOMAIN rules : WouldAdd(rules[r])' = moved(WouldAdd(rules[r]))
                  /\ \A day \in Day : moved(Attached(tags, day)) \subseteq Attached(tags', day)
  BY <1>2, MergeTagsFacts
<1>3. Spec => MergedAwayStaysEmpty
  BY <1>1, CatalogInvariant, PTL DEF Spec, StaysEmpty, MergedAwayStaysEmpty
<1>4. Spec => MergeMovesTags
  BY <1>2, CatalogInvariant, PTL DEF Spec, MergeMovesTags
<1> QED BY <1>3, <1>4 DEF MergesStick

-----------------------------------------------------------------------------
(***************************************************************************)
(* Receipts, which MCCatalog calls R.  Requests of several clients change  *)
(* rows and files one after the other, so the invariant says what each of  *)
(* them remembers about the rest: whose key it holds, which rows still     *)
(* have it, what is already unlinked.  A key that was written and has no   *)
(* row yet is held by one request; the others' steps leave it alone.       *)
(***************************************************************************)

\* The storage keys that a request under way answers for.
Uploads(c) == R!Kind(c) \in {"upload", "written"}
Holds(c) == IF Uploads(c) THEN {requests[c].old, requests[c].key}
            ELSE IF R!Unlinks(c) THEN R!Range(requests[c].keys)
            ELSE {}
Made == 1..uploads

RequestsOK == requests \in [Client -> R!Request \cup {Null}] /\ uploads \in 0..MaxKey

\* Keys are given out once: no two rows have the same one.
KeysOK ==
  /\ files \subseteq Made
  /\ \A i, j \in DOMAIN rows : rows[i].key \in Made /\ (rows[i].key = rows[j].key => i = j)

\* What an upload remembers of the receipt it replaces, and the file it has written, which
\* is nobody's yet.
UploadOK(c) ==
  Uploads(c) =>
    /\ (requests[c].replaces = Null) <=> (requests[c].old = Null)
    /\ requests[c].old \in Made \cup {Null}
    /\ \A i \in DOMAIN rows : rows[i].key = requests[c].old => i = requests[c].replaces
WrittenOK(c) ==
  R!Kind(c) = "written" =>
    /\ requests[c].key \in files /\ requests[c].key # requests[c].old
    /\ \A i \in DOMAIN rows : rows[i].key # requests[c].key
Alone ==
  \A c, d \in Client : R!Kind(c) = "written" /\ c # d => requests[c].key \notin Holds(d)

\* What is to be unlinked has been asked for or has no row any more, what has been unlinked
\* is gone, and a purge has its rows to itself.
UnlinkOK(c) ==
  R!Unlinks(c) =>
    /\ DOMAIN requests[c].keys = requests[c].ids /\ R!Range(requests[c].keys) \subseteq Made
    /\ DOMAIN requests[c].files \subseteq requests[c].ids
    /\ requests[c].thumbs \subseteq requests[c].ids
    /\ \A i \in DOMAIN requests[c].files : requests[c].files[i] = requests[c].keys[i]
    /\ \A i \in requests[c].ids \ DOMAIN requests[c].files : requests[c].keys[i] \notin files
    /\ IF R!Kind(c) = "replace"
       THEN \A i \in DOMAIN rows : rows[i].key \notin R!Range(requests[c].keys)
       ELSE R!Range(requests[c].keys) \subseteq asked
PurgeOK(c) ==
  R!Kind(c) = "purge" =>
    /\ lock = c /\ requests[c].ids = R!Attachments(requests[c].txn)
    /\ \A i \in requests[c].ids : rows[i].key = requests[c].keys[i]

Remembers(c) == UploadOK(c) /\ WrittenOK(c) /\ UnlinkOK(c) /\ PurgeOK(c)
Kept == R!TypeOK /\ RequestsOK /\ KeysOK /\ Alone /\ \A c \in Client : Remembers(c)

-----------------------------------------------------------------------------
LEMMA ConstantsHold ==
  /\ MaxAttachments \in Nat \ {0} /\ MaxKey \in Nat /\ IsFiniteSet(Client)
  /\ Null \notin Client /\ Null \notin Nat /\ Null \notin R!Request
BY ReceiptsConstants DEF R!ReceiptsAssumption, R!IsFiniteSet, IsFiniteSet

LEMMA RequestShape ==
  ASSUME RequestsOK, NEW c \in Client
  PROVE  /\ R!Idle(c) <=> requests[c] = Null
         /\ R!Idle(c) => R!Kind(c) = "none"
         /\ ~R!Idle(c) => R!Kind(c) = requests[c].kind /\ requests[c] \in R!Request
         /\ R!Kind(c) = "upload" =>
              requests[c] \in [kind : {"upload"}, txn : Txn, replaces : R!Id \cup {Null},
                               key : {Null}, old : R!Key \cup {Null}]
         /\ R!Kind(c) = "written" =>
              requests[c] \in [kind : {"written"}, txn : Txn, replaces : R!Id \cup {Null},
                               key : R!Key, old : R!Key \cup {Null}]
         /\ R!Unlinks(c) =>
              requests[c] \in [kind : {"replace", "delete", "purge"}, txn : Txn, ids : SUBSET R!Id,
                               keys : R!Keys, files : R!Keys, thumbs : SUBSET R!Id]
         /\ R!Kind(c) = "purging" => requests[c] \in [kind : {"purging"}, txn : Txn]
         /\ R!Kind(c) = "thumbnail" =>
              requests[c] \in [kind : {"thumbnail"}, id : R!Id, key : R!Key]
<1>1. requests[c] \in R!Request \cup {Null}
  BY DEF RequestsOK
<1>2. ASSUME ~R!Idle(c) PROVE R!Kind(c) = requests[c].kind /\ requests[c] \in R!Request
  BY <1>1, <1>2 DEF R!Idle, R!Kind
<1>3. R!Idle(c) => R!Kind(c) = "none"
  BY DEF R!Kind
<1>4. R!Unlinks(c) => ~R!Idle(c)
  BY <1>3 DEF R!Unlinks
<1> QED
  BY <1>2, <1>3, <1>4 DEF R!Idle, R!Request, R!Unlinks

LEMMA KeysShape ==
  ASSUME NEW f \in R!Keys
  PROVE  DOMAIN f \subseteq R!Id /\ f \in [DOMAIN f -> R!Key] /\ R!Range(f) \subseteq R!Key
BY DEF R!Keys, R!Range

\* The requests of the others are as they were.
LEMMA OthersStay ==
  ASSUME RequestsOK, NEW d \in Client, requests'[d] = requests[d]
  PROVE  /\ R!Idle(d)' = R!Idle(d) /\ R!Kind(d)' = R!Kind(d) /\ R!Unlinks(d)' = R!Unlinks(d)
         /\ Uploads(d)' = Uploads(d) /\ Holds(d)' = Holds(d)
BY DEF R!Idle, R!Kind, R!Unlinks, Uploads, Holds

LEMMA Becoming ==
  ASSUME RequestsOK, NEW c \in Client, NEW r \in R!Request \cup {Null}, R!Becomes(c, r),
         uploads' \in 0..MaxKey
  PROVE  /\ RequestsOK' /\ requests'[c] = r
         /\ r # Null => R!Kind(c)' = r.kind
         /\ r = Null => R!Idle(c)' /\ R!Kind(c)' = "none"
         /\ \A d \in Client \ {c} : requests'[d] = requests[d]
<1>1. requests' = [requests EXCEPT ![c] = r]
  BY DEF R!Becomes
<1>2. requests'[c] = r
  BY <1>1 DEF RequestsOK
<1> QED BY <1>1, <1>2 DEF RequestsOK, R!Kind, R!Idle

LEMMA UnlinkingShape ==
  ASSUME NEW kind \in {"replace", "delete", "purge"}, NEW t \in Txn, NEW ids \in SUBSET R!Id,
         NEW keyOf \in [ids -> R!Key]
  PROVE  /\ R!Unlinking(kind, t, ids, keyOf) \in R!Request
         /\ R!Unlinking(kind, t, ids, keyOf) # Null
         /\ R!Unlinking(kind, t, ids, keyOf) =
              [kind |-> kind, txn |-> t, ids |-> ids, keys |-> keyOf, files |-> keyOf,
               thumbs |-> ids]
<1>1. keyOf \in R!Keys
  BY DEF R!Keys
<1>2. R!Unlinking(kind, t, ids, keyOf) =
        [kind |-> kind, txn |-> t, ids |-> ids, keys |-> keyOf, files |-> keyOf, thumbs |-> ids]
  BY DEF R!Unlinking, R!ThumbsOf
<1>3. R!Unlinking(kind, t, ids, keyOf) \in R!Request
  BY <1>1, <1>2 DEF R!Request
<1> QED BY <1>2, <1>3, ConstantsHold

-----------------------------------------------------------------------------
\* What one request does leaves alone what the others remember.
LEMMA OthersRemember ==
  ASSUME Kept, NEW c \in Client, \A d \in Client \ {c} : requests'[d] = requests[d],
         uploads' \in Nat, uploads <= uploads', asked \subseteq asked',
         \A k \in files \ files' : \A d \in Client \ {c} :
            R!Kind(d) = "written" => requests[d].key # k,
         \A k \in files' \ files : k \notin Made,
         \A i \in DOMAIN rows' : \/ i \in DOMAIN rows /\ rows'[i] = rows[i]
                                 \/ \A d \in Client \ {c} : rows'[i].key \notin Holds(d),
         \A d \in Client \ {c} : R!Kind(d) = "purge" => rows' = rows /\ lock' = lock,
         NEW d \in Client \ {c}
  PROVE  Remembers(d)'
<1>1. /\ requests'[d] = requests[d] /\ R!Kind(d)' = R!Kind(d) /\ R!Unlinks(d)' = R!Unlinks(d)
      /\ Uploads(d)' = Uploads(d) /\ Holds(d)' = Holds(d)
  BY OthersStay DEF Kept
<1>2. Made \subseteq Made' /\ uploads \in Nat
  BY DEF Made, Kept, RequestsOK
<1>3. UploadOK(d)'
  <2>1. Uploads(d) => requests[d].old \in Holds(d)
    BY DEF Holds
  <2> QED BY <1>1, <1>2, <2>1 DEF Kept, Remembers, UploadOK
<1>4. WrittenOK(d)'
  <2>1. R!Kind(d) = "written" => requests[d].key \in Holds(d)
    BY DEF Holds, Uploads
  <2> QED BY <1>1, <2>1 DEF Kept, Remembers, WrittenOK
<1>5. UnlinkOK(d)'
  <2> SUFFICES ASSUME R!Unlinks(d) PROVE UnlinkOK(d)'
    BY <1>1 DEF UnlinkOK
  <2> DEFINE r == requests[d]
  <2>1. /\ DOMAIN r.keys = r.ids /\ R!Range(r.keys) \subseteq Made
        /\ DOMAIN r.files \subseteq r.ids
        /\ r.thumbs \subseteq r.ids
        /\ \A i \in DOMAIN r.files : r.files[i] = r.keys[i]
        /\ \A i \in r.ids \ DOMAIN r.files : r.keys[i] \notin files
        /\ IF R!Kind(d) = "replace"
           THEN \A i \in DOMAIN rows : rows[i].key \notin R!Range(r.keys)
           ELSE R!Range(r.keys) \subseteq asked
    BY DEF Kept, Remembers, UnlinkOK
  <2>2. Holds(d) = R!Range(r.keys)
    BY DEF Holds, Uploads, R!Unlinks
  <2>3. \A i \in r.ids : r.keys[i] \in Made
    BY <2>1 DEF R!Range
  <2>4. \A i \in r.ids \ DOMAIN r.files : r.keys[i] \notin files'
    BY <2>1, <2>3
  <2>5. R!Kind(d) = "replace" => \A i \in DOMAIN rows' : rows'[i].key \notin R!Range(r.keys)
    BY <2>1, <2>2
  <2>6. R!Kind(d) # "replace" => R!Range(r.keys) \subseteq asked'
    BY <2>1
  <2>7. r = requests'[d]
    BY <1>1
  <2> HIDE DEF r
  <2> QED BY <1>1, <1>2, <2>1, <2>4, <2>5, <2>6, <2>7 DEF UnlinkOK
<1>6. PurgeOK(d)'
  <2> SUFFICES ASSUME R!Kind(d) = "purge" PROVE PurgeOK(d)'
    BY <1>1 DEF PurgeOK
  <2>1. rows' = rows /\ lock' = lock
    OBVIOUS
  <2>2. PurgeOK(d)
    BY DEF Kept, Remembers
  <2>3. R!Attachments(requests[d].txn)' = R!Attachments(requests[d].txn)
    BY <1>1, <2>1 DEF R!Attachments
  <2> QED BY <1>1, <2>1, <2>2, <2>3 DEF PurgeOK
<1> QED BY <1>3, <1>4, <1>5, <1>6 DEF Remembers

LEMMA StillAlone ==
  ASSUME Kept, NEW c \in Client, \A d \in Client \ {c} : requests'[d] = requests[d],
         R!Kind(c)' = "written" => \A d \in Client \ {c} : requests'[c].key \notin Holds(d),
         \A d \in Client \ {c} : R!Kind(d) = "written" => requests[d].key \notin Holds(c)'
  PROVE  Alone'
<1> SUFFICES ASSUME NEW a \in Client, NEW b \in Client, R!Kind(a)' = "written", a # b
             PROVE  requests'[a].key \notin Holds(b)'
  BY DEF Alone
<1>1. \A d \in Client \ {c} : R!Kind(d)' = R!Kind(d) /\ Holds(d)' = Holds(d)
  BY OthersStay DEF Kept
<1>2. CASE a = c
  BY <1>1, <1>2
<1>3. CASE b = c
  BY <1>1, <1>3
<1>4. CASE a # c /\ b # c
  BY <1>1, <1>4 DEF Kept, Alone
<1> QED BY <1>2, <1>3, <1>4

\* A request that ends, or has nothing to answer for, while rows and files stay.
LEMMA QuietStep ==
  ASSUME Kept, NEW c \in Client, NEW r \in R!Request \cup {Null}, R!Becomes(c, r),
         r = Null \/ r.kind \in {"purging", "thumbnail"},
         UNCHANGED <<owners, rows, files, uploads, lock>>, asked \subseteq asked',
         thumbs' \in [DOMAIN thumbs' -> R!Key]
  PROVE  Kept'
<1>1. /\ RequestsOK' /\ R!Kind(c)' \in {"none", "purging", "thumbnail"}
      /\ \A d \in Client \ {c} : requests'[d] = requests[d]
  BY Becoming DEF Kept, RequestsOK
<1>2. R!TypeOK' /\ KeysOK'
  BY DEF Kept, R!TypeOK, KeysOK, Made
<1>3. Remembers(c)'
  BY <1>1 DEF Remembers, UploadOK, WrittenOK, UnlinkOK, PurgeOK, Uploads, R!Unlinks
<1>4. ASSUME NEW d \in Client \ {c} PROVE Remembers(d)'
  <2>1. uploads' \in Nat /\ uploads <= uploads'
    BY DEF Kept, RequestsOK
  <2> QED BY <1>1, <2>1, OthersRemember
<1>5. Alone'
  <2>1. Holds(c)' = {}
    BY <1>1 DEF Holds, Uploads, R!Unlinks
  <2> QED BY <1>1, <2>1, StillAlone
<1> QED BY <1>1, <1>2, <1>3, <1>4, <1>5 DEF Kept

LEMMA BeginUploadKeeps ==
  ASSUME Kept, NEW c \in Client, NEW t \in Txn, NEW i \in R!Id \cup {Null}, R!BeginUpload(c, t, i)
  PROVE  Kept'
<1> DEFINE k == IF i = Null THEN Null ELSE rows[i].key
           r == [kind |-> "upload", txn |-> t, replaces |-> i, key |-> Null, old |-> k]
<1>1. /\ R!Becomes(c, r) /\ (i # Null => i \in DOMAIN rows)
      /\ UNCHANGED <<owners, rows, files, thumbs, uploads, lock, asked>>
  BY DEF R!BeginUpload, R!database, R!disk, R!history, R!Attachments
<1>2. Null \notin R!Request /\ Null \notin Nat
  BY ConstantsHold
<1>3. i # Null => k \in Made /\ k \in R!Key
  BY <1>1 DEF Kept, KeysOK, R!TypeOK
<1>4. r \in R!Request
  <2>1. k \in R!Key \cup {Null}
    BY <1>3
  <2> HIDE DEF k
  <2> QED BY <2>1 DEF R!Request
<1>5. /\ RequestsOK' /\ requests'[c] = r /\ R!Kind(c)' = "upload"
      /\ \A d \in Client \ {c} : requests'[d] = requests[d]
  <2>1. r.kind = "upload"
    OBVIOUS
  <2> HIDE DEF r
  <2> QED BY <1>1, <1>2, <1>4, <2>1, Becoming DEF Kept, RequestsOK
<1>6. R!TypeOK' /\ KeysOK'
  BY <1>1 DEF Kept, R!TypeOK, KeysOK, Made
<1>7. uploads \in Nat /\ Made' = Made /\ k # 0
  BY <1>1, <1>2, <1>3 DEF Kept, RequestsOK, Made
<1>8. Remembers(c)'
  <2>1. UploadOK(c)'
    <3>1. requests'[c].replaces = i /\ requests'[c].old = k
      BY <1>5
    <3>2. \A j \in DOMAIN rows : rows[j].key \in Made /\ rows[j].key \in Nat
      BY DEF Kept, KeysOK, Made
    <3>3. \A j \in DOMAIN rows : rows[j].key = k => j = i
      BY <1>1, <1>2, <3>2 DEF Kept, KeysOK
    <3>4. (i = Null) <=> (k = Null)
      BY <1>2, <1>3 DEF Made
    <3>5. k \in Made \cup {Null}
      BY <1>3
    <3> HIDE DEF k
    <3> QED BY <1>1, <1>7, <3>1, <3>3, <3>4, <3>5 DEF UploadOK
  <2> QED BY <1>5, <2>1 DEF Remembers, WrittenOK, UnlinkOK, PurgeOK, R!Unlinks
<1>9. ASSUME NEW d \in Client \ {c} PROVE Remembers(d)'
  BY <1>1, <1>5, <1>7, OthersRemember
<1>10. Alone'
  <2>1. Holds(c)' = {k, Null}
    BY <1>5 DEF Holds, Uploads
  <2>2. ASSUME NEW d \in Client \ {c}, R!Kind(d) = "written" PROVE requests[d].key \notin {k, Null}
    <3>1. requests[d].key \in R!Key /\ \A j \in DOMAIN rows : rows[j].key # requests[d].key
      BY <2>2, RequestShape DEF Kept, Remembers, WrittenOK
    <3> QED BY <1>1, <1>2, <3>1 DEF R!Key
  <2> QED BY <1>5, <2>1, <2>2, StillAlone
<1> QED BY <1>5, <1>6, <1>8, <1>9, <1>10 DEF Kept

LEMMA WriteFileKeeps ==
  ASSUME Kept, NEW c \in Client, R!WriteFile(c)
  PROVE  Kept'
<1> DEFINE q == requests[c]
           r == [q EXCEPT !.kind = "written", !.key = uploads + 1]
<1>1. /\ R!Kind(c) = "upload" /\ uploads < MaxKey /\ uploads' = uploads + 1
      /\ files' = files \cup {uploads + 1} /\ R!Becomes(c, r)
      /\ UNCHANGED <<owners, rows, thumbs, lock, asked>>
  BY DEF R!WriteFile, R!database, R!history
<1>2. Null \notin R!Request /\ Null \notin Nat /\ MaxKey \in Nat
  BY ConstantsHold
<1>3. /\ uploads \in Nat /\ uploads' \in 0..MaxKey /\ uploads + 1 \in R!Key
      /\ uploads + 1 \notin Made /\ Made' = Made \cup {uploads + 1}
  BY <1>1, <1>2 DEF Kept, RequestsOK, R!Key, Made
<1>4. q \in [kind : {"upload"}, txn : Txn, replaces : R!Id \cup {Null}, key : {Null},
             old : R!Key \cup {Null}]
  BY <1>1, RequestShape DEF Kept
<1>5. /\ r \in R!Request /\ r.kind = "written" /\ r.key = uploads + 1
      /\ r.replaces = q.replaces /\ r.old = q.old
  <2> HIDE DEF q
  <2> QED BY <1>3, <1>4 DEF R!Request
<1>6. /\ RequestsOK' /\ requests'[c] = r /\ R!Kind(c)' = "written"
      /\ \A d \in Client \ {c} : requests'[d] = requests[d]
  <2> HIDE DEF r
  <2> QED BY <1>1, <1>2, <1>3, <1>5, Becoming DEF Kept
<1>7. R!TypeOK' /\ KeysOK'
  BY <1>1, <1>3 DEF Kept, R!TypeOK, KeysOK
<1>8. Remembers(c)'
  <2>1. UploadOK(c) /\ Uploads(c)
    BY <1>1 DEF Kept, Remembers, Uploads
  <2>2. UploadOK(c)'
    BY <1>1, <1>3, <1>5, <1>6, <2>1 DEF UploadOK
  <2>3. WrittenOK(c)'
    <3>1. q.old \in Made \cup {Null}
      BY <2>1 DEF UploadOK
    <3>2. \A i \in DOMAIN rows : rows[i].key \in Made
      BY DEF Kept, KeysOK
    <3> QED BY <1>1, <1>2, <1>3, <1>5, <1>6, <3>1, <3>2 DEF WrittenOK
  <2> QED BY <1>6, <2>2, <2>3 DEF Remembers, UnlinkOK, PurgeOK, R!Unlinks
<1>9. ASSUME NEW d \in Client \ {c} PROVE Remembers(d)'
  BY <1>1, <1>3, <1>6, OthersRemember DEF Kept, RequestsOK
<1>10. Alone'
  <2>1. ASSUME NEW d \in Client PROVE Holds(d) \subseteq Made \cup {Null}
    <3>1. CASE R!Kind(d) = "upload"
      BY <3>1, RequestShape DEF Holds, Uploads, Kept, Remembers, UploadOK
    <3>2. CASE R!Kind(d) = "written"
      BY <3>2 DEF Holds, Uploads, Kept, Remembers, UploadOK, WrittenOK, KeysOK
    <3>3. CASE R!Unlinks(d)
      BY <3>3 DEF Holds, Uploads, Kept, Remembers, UnlinkOK, R!Unlinks
    <3> QED BY <3>1, <3>2, <3>3 DEF Holds, Uploads
  <2>2. \A d \in Client \ {c} : r.key \notin Holds(d)
    BY <1>2, <1>3, <1>5, <2>1
  <2>3. ASSUME NEW d \in Client \ {c}, R!Kind(d) = "written" PROVE requests[d].key \notin Holds(c)'
    <3>1. requests[d].key \in Made /\ requests[d].key \notin Holds(c)
      BY <2>3 DEF Kept, Alone, Remembers, WrittenOK, KeysOK
    <3>2. Holds(c)' = {q.old, uploads + 1} /\ q.old \in Holds(c)
      BY <1>1, <1>5, <1>6 DEF Holds, Uploads
    <3> QED BY <1>3, <3>1, <3>2
  <2> QED BY <1>6, <2>2, <2>3, StillAlone
<1> QED BY <1>6, <1>7, <1>8, <1>9, <1>10 DEF Kept

\* What becomes of the rows: the new one is there unless it took its target's id, and the
\* target is not.
LEMMA CommitRows ==
  ASSUME NEW c \in Client, NEW id, id \notin DOMAIN rows, NEW row,
         rows' = R!Without(R!Put(rows, id, row), {requests[c].replaces})
  PROVE  /\ DOMAIN rows' = (DOMAIN rows \cup {id}) \ {requests[c].replaces}
         /\ \A i \in DOMAIN rows' : rows'[i] = IF i = id THEN row ELSE rows[i]
<1> DEFINE p == R!Put(rows, id, row)
           gone == {requests[c].replaces}
<1>1. DOMAIN p = DOMAIN rows \cup {id} /\ \A i \in DOMAIN p : p[i] = IF i = id THEN row ELSE rows[i]
  BY DEF R!Put
<1> HIDE DEF p, gone
<1>2. rows' = R!Without(p, gone)
  BY DEF p, gone
<1>3. DOMAIN rows' = DOMAIN p \ gone /\ \A i \in DOMAIN rows' : rows'[i] = p[i]
  BY <1>2 DEF R!Without, R!Restrict
<1> QED BY <1>1, <1>3 DEF gone

LEMMA CommitUploadKeeps ==
  ASSUME Kept, NEW c \in Client, R!CommitUpload(c), R!NewId(rows) \in R!Id \ DOMAIN rows
  PROVE  Kept'
<1> DEFINE q == requests[c]
           id == R!NewId(rows)
           row == [txn |-> q.txn, key |-> q.key]
<1>1. /\ R!Kind(c) = "written" /\ lock = Null
      /\ UNCHANGED <<owners, thumbs, uploads, lock, asked>>
  BY DEF R!CommitUpload
<1>2. q \in [kind : {"written"}, txn : Txn, replaces : R!Id \cup {Null}, key : R!Key,
             old : R!Key \cup {Null}]
  BY <1>1, RequestShape DEF Kept
<1>3. /\ Null \notin R!Request /\ Null \notin Nat /\ Null \notin Client
      /\ uploads \in Nat /\ uploads' \in 0..MaxKey /\ Made' = Made
  BY <1>1, ConstantsHold DEF Kept, RequestsOK, Made
<1>4. UploadOK(c) /\ WrittenOK(c) /\ Uploads(c) /\ q.key \in Made
  BY <1>1 DEF Kept, Remembers, Uploads, WrittenOK, KeysOK
<1>5. /\ (q.replaces = Null) <=> (q.old = Null)
      /\ q.old \in Made \cup {Null}
      /\ \A i \in DOMAIN rows : rows[i].key = q.old => i = q.replaces
      /\ q.key \in files /\ q.key # q.old
      /\ \A i \in DOMAIN rows : rows[i].key # q.key
  BY <1>1, <1>4 DEF UploadOK, WrittenOK
<1>6. Holds(c) = {q.old, q.key}
  BY <1>4 DEF Holds
<1>7. ASSUME NEW d \in Client \ {c}
      PROVE  /\ q.key \notin Holds(d) /\ R!Kind(d) # "purge"
             /\ R!Kind(d) = "written" => requests[d].key \notin Holds(c)
  BY <1>1, <1>3 DEF Kept, Alone, Remembers, PurgeOK
<1>8. CASE ~R!Insertable(q.txn)
  <2>1. /\ files' = files \ {q.key} /\ R!Becomes(c, Null) /\ UNCHANGED rows
    BY <1>8 DEF R!CommitUpload, R!AfterFailure, R!Ends
  <2>2. /\ RequestsOK' /\ R!Kind(c)' = "none" /\ \A d \in Client \ {c} : requests'[d] = requests[d]
    BY <1>3, <2>1, Becoming DEF Kept
  <2>3. R!TypeOK' /\ KeysOK'
    BY <1>1, <1>3, <2>1 DEF Kept, R!TypeOK, KeysOK
  <2>4. Remembers(c)'
    BY <2>2 DEF Remembers, UploadOK, WrittenOK, UnlinkOK, PurgeOK, Uploads, R!Unlinks
  <2>5. ASSUME NEW d \in Client \ {c} PROVE Remembers(d)'
    <3>1. \A b \in Client \ {c} : R!Kind(b) = "written" => requests[b].key # q.key
      BY <1>6, <1>7
    <3> HIDE DEF q
    <3> QED BY <1>1, <1>3, <1>7, <2>1, <2>2, <3>1, OthersRemember
  <2>6. Alone'
    <3>1. Holds(c)' = {}
      BY <2>2 DEF Holds, Uploads, R!Unlinks
    <3> QED BY <2>2, <3>1, StillAlone
  <2> QED BY <2>2, <2>3, <2>4, <2>5, <2>6 DEF Kept
<1>9. CASE R!Insertable(q.txn)
  <2> DEFINE gone == [i \in {q.replaces} |-> q.old]
             r == R!Unlinking("replace", q.txn, {q.replaces}, gone)
  <2>1. /\ rows' = R!Without(R!Put(rows, id, row), {q.replaces}) /\ UNCHANGED files
        /\ IF q.replaces \in {Null, id} THEN R!Becomes(c, Null) ELSE R!Becomes(c, r)
    BY <1>9 DEF R!CommitUpload, R!Ends
  <2>0. files' = files
    BY <2>1
  <2>2. /\ DOMAIN rows' = (DOMAIN rows \cup {id}) \ {q.replaces}
        /\ \A i \in DOMAIN rows' : rows'[i] = IF i = id THEN row ELSE rows[i]
    <3> HIDE DEF row
    <3> QED BY <2>1, CommitRows
  <2>3. R!TypeOK' /\ KeysOK'
    <3>1. row \in [txn : Txn, key : R!Key] /\ owners[q.txn] # "gone" /\ row.key = q.key
      BY <1>2, <1>9 DEF R!Insertable
    <3>2. /\ DOMAIN rows' \subseteq DOMAIN rows \cup {id} /\ DOMAIN rows' \subseteq R!Id
          /\ \A i \in DOMAIN rows' :
               rows'[i] \in [txn : Txn, key : R!Key] /\ owners[rows'[i].txn] # "gone"
      <4> HIDE DEF row, q, id
      <4>1. \A i \in DOMAIN rows : /\ i \in R!Id /\ rows[i] \in [txn : Txn, key : R!Key]
                                   /\ owners[rows[i].txn] # "gone"
        BY DEF Kept, R!TypeOK
      <4>2. row.txn = q.txn
        BY DEF row
      <4>3. id \in R!Id
        BY DEF id
      <4> QED BY <2>2, <3>1, <4>1, <4>2, <4>3
    <3>3. rows' = [i \in DOMAIN rows' |-> rows'[i]]
      BY <2>1 DEF R!Without, R!Restrict
    <3>4. R!TypeOK'
      <4> HIDE DEF row, q, id
      <4> QED BY <1>1, <2>1, <3>2, <3>3 DEF Kept, R!TypeOK
    <3>5. \A i \in DOMAIN rows' : /\ i # id => i \in DOMAIN rows /\ rows'[i].key = rows[i].key
                                  /\ i = id => rows'[i].key = q.key
      BY <2>2, <3>1
    <3>6. KeysOK'
      <4> HIDE DEF row, q, id
      <4>1. /\ files \subseteq Made
            /\ \A i, j \in DOMAIN rows :
                 rows[i].key \in Made /\ (rows[i].key = rows[j].key => i = j)
        BY DEF Kept, KeysOK
      <4>2. \A i \in DOMAIN rows' : rows'[i].key \in Made
        BY <1>4, <3>5, <4>1
      <4>3. ASSUME NEW i \in DOMAIN rows', NEW j \in DOMAIN rows', rows'[i].key = rows'[j].key
            PROVE  i = j
        <5>1. CASE i = id /\ j # id
          BY <1>5, <3>5, <4>3, <5>1
        <5>2. CASE i # id /\ j = id
          BY <1>5, <3>5, <4>3, <5>2
        <5>3. CASE i # id /\ j # id
          BY <3>5, <4>1, <4>3, <5>3
        <5> QED BY <5>1, <5>2, <5>3
      <4> QED BY <1>3, <2>0, <4>1, <4>2, <4>3 DEF KeysOK
    <3> QED BY <3>4, <3>6
  <2>4. \A i \in DOMAIN rows' : \/ i \in DOMAIN rows /\ rows'[i] = rows[i]
                                \/ \A d \in Client \ {c} : rows'[i].key \notin Holds(d)
    <3>1. row.key = q.key
      OBVIOUS
    <3> HIDE DEF row, q, id
    <3> QED BY <1>7, <2>2, <3>1
  <2>5. CASE q.replaces \in {Null, id}
    <3>1. /\ RequestsOK' /\ R!Kind(c)' = "none"
          /\ \A d \in Client \ {c} : requests'[d] = requests[d]
      BY <1>3, <2>1, <2>5, Becoming DEF Kept
    <3>2. Remembers(c)'
      BY <3>1 DEF Remembers, UploadOK, WrittenOK, UnlinkOK, PurgeOK, Uploads, R!Unlinks
    <3>3. ASSUME NEW d \in Client \ {c} PROVE Remembers(d)'
      <4> HIDE DEF q, row, id
      <4> QED BY <1>1, <1>3, <1>7, <2>0, <2>4, <3>1, OthersRemember
    <3>4. Alone'
      <4>1. Holds(c)' = {}
        BY <3>1 DEF Holds, Uploads, R!Unlinks
      <4> QED BY <3>1, <4>1, StillAlone
    <3> QED BY <2>3, <3>1, <3>2, <3>3, <3>4 DEF Kept
  <2>6. CASE q.replaces \notin {Null, id}
    <3>1. q.replaces \in R!Id /\ q.old \in R!Key /\ q.old \in Made
      BY <1>2, <1>5, <2>6
    <3>2. gone \in [{q.replaces} -> R!Key] /\ DOMAIN gone = {q.replaces} /\ R!Range(gone) = {q.old}
      BY <3>1 DEF R!Range
    <3>3. /\ r \in R!Request /\ r # Null
          /\ r = [kind |-> "replace", txn |-> q.txn, ids |-> {q.replaces}, keys |-> gone,
                  files |-> gone, thumbs |-> {q.replaces}]
      <4> HIDE DEF gone, q
      <4>1. q.txn \in Txn
        BY <1>2
      <4> QED BY <3>1, <3>2, <4>1, UnlinkingShape
    <3>4. /\ RequestsOK' /\ R!Kind(c)' = "replace" /\ requests'[c] = r
          /\ \A d \in Client \ {c} : requests'[d] = requests[d]
      <4>1. r.kind = "replace"
        BY <3>3
      <4> HIDE DEF r
      <4> QED BY <1>3, <2>1, <2>6, <3>3, <4>1, Becoming DEF Kept
    <3>5. Remembers(c)'
      <4>1. /\ requests'[c].ids = {q.replaces} /\ requests'[c].thumbs = {q.replaces}
            /\ requests'[c].keys = gone /\ requests'[c].files = gone
        BY <3>3, <3>4
      <4>2. \A i \in DOMAIN rows' : rows'[i].key # q.old
        <5>1. row.key = q.key
          OBVIOUS
        <5> HIDE DEF row, q, id
        <5> QED BY <1>5, <2>2, <5>1
      <4>3. UnlinkOK(c)'
        <5> HIDE DEF gone, q, r, id, row
        <5> QED BY <1>3, <3>1, <3>2, <3>4, <4>1, <4>2 DEF UnlinkOK
      <4> QED BY <3>4, <4>3 DEF Remembers, UploadOK, WrittenOK, PurgeOK, Uploads
    <3>6. ASSUME NEW d \in Client \ {c} PROVE Remembers(d)'
      <4> HIDE DEF q, row, id, r
      <4> QED BY <1>1, <1>3, <1>7, <2>0, <2>4, <3>4, OthersRemember
    <3>7. Alone'
      <4>1. Holds(c)' = {q.old}
        BY <3>2, <3>3, <3>4 DEF Holds, Uploads, R!Unlinks
      <4> HIDE DEF q, r
      <4> QED BY <1>6, <1>7, <3>4, <4>1, StillAlone
    <3> QED BY <2>3, <3>4, <3>5, <3>6, <3>7 DEF Kept
  <2> QED BY <2>5, <2>6
<1> QED BY <1>8, <1>9

LEMMA BeginRemovalKeeps ==
  ASSUME Kept, NEW c \in Client, NEW kind \in {"delete", "purge"}, NEW t \in Txn,
         NEW ids \in SUBSET DOMAIN rows, R!Becomes(c, R!Unlinking(kind, t, ids, R!KeysOf(ids))),
         UNCHANGED <<owners, rows, files, thumbs, uploads>>,
         asked' = asked \cup {rows[id].key : id \in ids},
         lock' \in Client \cup {Null}, lock' = lock \/ lock = Null,
         kind = "purge" => lock' = c /\ ids = R!Attachments(t)
  PROVE  Kept'
<1> DEFINE keyOf == R!KeysOf(ids)
           r == R!Unlinking(kind, t, ids, keyOf)
<1>1. /\ ids \in SUBSET R!Id /\ keyOf \in [ids -> R!Key] /\ DOMAIN keyOf = ids
      /\ \A i \in ids : keyOf[i] = rows[i].key
      /\ R!Range(keyOf) = {rows[i].key : i \in ids}
  BY DEF R!KeysOf, Kept, R!TypeOK, R!Range
<1>2. Null \notin Client /\ uploads \in Nat /\ uploads' \in 0..MaxKey /\ Made' = Made
  BY ConstantsHold DEF Kept, RequestsOK, Made
<1>3. /\ r \in R!Request /\ r # Null
      /\ r = [kind |-> kind, txn |-> t, ids |-> ids, keys |-> keyOf, files |-> keyOf,
              thumbs |-> ids]
  <2> HIDE DEF keyOf
  <2> QED BY <1>1, UnlinkingShape
<1>4. /\ RequestsOK' /\ requests'[c] = r /\ R!Kind(c)' = kind
      /\ \A d \in Client \ {c} : requests'[d] = requests[d]
  <2>1. r.kind = kind /\ R!Becomes(c, r)
    BY <1>3
  <2> HIDE DEF r, keyOf
  <2> QED BY <1>2, <1>3, <2>1, Becoming DEF Kept
<1>5. R!TypeOK' /\ KeysOK'
  BY <1>2 DEF Kept, R!TypeOK, KeysOK
<1>6. Remembers(c)'
  <2>1. /\ requests'[c].ids = ids /\ requests'[c].thumbs = ids /\ requests'[c].txn = t
        /\ requests'[c].keys = keyOf /\ requests'[c].files = keyOf
    BY <1>3, <1>4
  <2>2. R!Range(keyOf) \subseteq Made /\ R!Range(keyOf) \subseteq asked'
    BY <1>1 DEF Kept, KeysOK
  <2>3. UnlinkOK(c)'
    <3> HIDE DEF keyOf, r
    <3> QED BY <1>1, <1>2, <1>4, <2>1, <2>2 DEF UnlinkOK
  <2>4. PurgeOK(c)'
    <3>1. R!Attachments(t)' = R!Attachments(t)
      BY DEF R!Attachments
    <3> HIDE DEF keyOf, r
    <3> QED BY <1>1, <1>4, <2>1, <3>1 DEF PurgeOK
  <2> QED BY <1>4, <2>3, <2>4 DEF Remembers, UploadOK, WrittenOK, Uploads
<1>7. ASSUME NEW d \in Client \ {c} PROVE Remembers(d)'
  <2>1. R!Kind(d) = "purge" => lock = d
    BY DEF Kept, Remembers, PurgeOK
  <2>2. \A b \in Client \ {c} : R!Kind(b) = "purge" => lock = b
    BY DEF Kept, Remembers, PurgeOK
  <2> HIDE DEF r, keyOf
  <2> QED BY <1>2, <1>4, <2>2, OthersRemember
<1>8. Alone'
  <2>1. Holds(c)' = R!Range(keyOf)
    BY <1>3, <1>4 DEF Holds, Uploads, R!Unlinks
  <2>2. ASSUME NEW d \in Client, R!Kind(d) = "written" PROVE requests[d].key \notin R!Range(keyOf)
    BY <1>1, <2>2 DEF Kept, Remembers, WrittenOK
  <2> QED BY <1>4, <2>1, <2>2, StillAlone
<1> QED BY <1>4, <1>5, <1>6, <1>7, <1>8 DEF Kept

LEMMA BeginDeleteKeeps ==
  ASSUME Kept, NEW c \in Client, NEW id \in R!Id, R!BeginDelete(c, id)
  PROVE  Kept'
<1>1. id \in DOMAIN rows /\ rows[id].txn \in Txn /\ {id} \in SUBSET DOMAIN rows
  BY DEF R!BeginDelete, Kept, R!TypeOK
<1>2. /\ R!Becomes(c, R!Unlinking("delete", rows[id].txn, {id}, R!KeysOf({id})))
      /\ UNCHANGED <<owners, rows, files, thumbs, uploads, lock>>
      /\ asked' = asked \cup {rows[i].key : i \in {id}}
  BY DEF R!BeginDelete, R!database, R!disk
<1>3. lock' \in Client \cup {Null}
  BY <1>2 DEF Kept, R!TypeOK
<1> QED BY <1>1, <1>2, <1>3, BeginRemovalKeeps

LEMMA LockPurgeKeeps ==
  ASSUME Kept, NEW c \in Client, R!LockPurge(c)
  PROVE  Kept'
<1> DEFINE t == requests[c].txn
           ids == R!Attachments(t)
<1>1. R!Kind(c) = "purging" /\ t \in Txn
  BY RequestShape DEF R!LockPurge, Kept
<1>2. ids \in SUBSET DOMAIN rows
  BY DEF R!Attachments
<1>3. /\ R!Becomes(c, R!Unlinking("purge", t, ids, R!KeysOf(ids)))
      /\ asked' = asked \cup {rows[id].key : id \in ids}
      /\ lock = Null /\ lock' = c
      /\ UNCHANGED <<owners, rows, files, thumbs, uploads>>
  BY DEF R!LockPurge, R!disk
<1> QED BY <1>1, <1>2, <1>3, BeginRemovalKeeps

\* Some of the files and thumbnails of a removal go.
LEMMA RemovalKeeps ==
  ASSUME Kept, NEW c \in Client, R!Unlinks(c), NEW r \in R!Request, R!Becomes(c, r),
         r.kind = requests[c].kind, r.ids = requests[c].ids, r.keys = requests[c].keys,
         r.txn = requests[c].txn, r.thumbs \subseteq requests[c].thumbs,
         DOMAIN r.files \subseteq DOMAIN requests[c].files,
         \A i \in DOMAIN r.files : r.files[i] = requests[c].files[i],
         \A i \in DOMAIN requests[c].files \ DOMAIN r.files : requests[c].keys[i] \notin files',
         files' \subseteq files, files \ files' \subseteq R!Range(requests[c].keys),
         UNCHANGED <<owners, rows, uploads, lock, asked>>, thumbs' \in [DOMAIN thumbs' -> R!Key]
  PROVE  Kept'
<1> DEFINE q == requests[c]
<1>1. /\ Null \notin R!Request /\ uploads \in Nat /\ uploads' \in 0..MaxKey /\ Made' = Made
  BY ConstantsHold DEF Kept, RequestsOK, Made
<1>2. R!Kind(c) = q.kind
  BY RequestShape DEF Kept, R!Unlinks, R!Kind
<1>3. /\ RequestsOK' /\ requests'[c] = r /\ R!Kind(c)' = R!Kind(c)
      /\ \A d \in Client \ {c} : requests'[d] = requests[d]
  <2> HIDE DEF q
  <2> QED BY <1>1, <1>2, Becoming DEF Kept, q
<1>4. R!TypeOK' /\ KeysOK'
  BY <1>1 DEF Kept, R!TypeOK, KeysOK
<1>5. Remembers(c)'
  <2>1. UnlinkOK(c) /\ PurgeOK(c) /\ R!Unlinks(c)'
    BY <1>3 DEF Kept, Remembers, R!Unlinks
  <2>2. UnlinkOK(c)'
    <3>1. \A i \in r.ids \ DOMAIN r.files : r.keys[i] \notin files'
      BY <2>1 DEF UnlinkOK
    <3>2. /\ DOMAIN r.keys = r.ids /\ R!Range(r.keys) \subseteq Made
          /\ DOMAIN r.files \subseteq r.ids /\ r.thumbs \subseteq r.ids
          /\ \A i \in DOMAIN r.files : r.files[i] = r.keys[i]
      BY <2>1 DEF UnlinkOK
    <3>3. IF R!Kind(c) = "replace"
          THEN \A i \in DOMAIN rows : rows[i].key \notin R!Range(r.keys)
          ELSE R!Range(r.keys) \subseteq asked
      BY <2>1 DEF UnlinkOK
    <3> QED BY <1>1, <1>3, <3>1, <3>2, <3>3 DEF UnlinkOK
  <2>3. PurgeOK(c)'
    <3>1. R!Attachments(r.txn)' = R!Attachments(r.txn)
      <4>1. r' = r
        OBVIOUS
      <4> QED BY <4>1 DEF R!Attachments
    <3> QED BY <1>3, <2>1, <3>1 DEF PurgeOK
  <2> QED BY <2>1, <2>2, <2>3 DEF Remembers, UploadOK, WrittenOK, Uploads, R!Unlinks
<1>6. \A d \in Client \ {c} : R!Kind(d) = "written" => requests[d].key \notin R!Range(q.keys)
  BY DEF Kept, Alone, Holds, Uploads, R!Unlinks
<1>7. ASSUME NEW d \in Client \ {c} PROVE Remembers(d)'
  BY <1>1, <1>3, <1>6, OthersRemember
<1>8. Alone'
  <2>1. Holds(c)' = R!Range(q.keys)
    BY <1>3 DEF Holds, Uploads, R!Unlinks
  <2>2. R!Kind(c)' # "written"
    BY <1>3 DEF R!Unlinks
  <2> QED BY <1>3, <1>6, <2>1, <2>2, StillAlone
<1> QED BY <1>3, <1>4, <1>5, <1>7, <1>8 DEF Kept

LEMMA RemovalShape ==
  ASSUME Kept, NEW c \in Client, R!Unlinks(c)
  PROVE  /\ requests[c] \in [kind : {"replace", "delete", "purge"}, txn : Txn, ids : SUBSET R!Id,
                             keys : R!Keys, files : R!Keys, thumbs : SUBSET R!Id]
         /\ R!Kind(c) = requests[c].kind /\ requests[c] \in R!Request
         /\ UnlinkOK(c) /\ PurgeOK(c)
BY RequestShape DEF Kept, Remembers, R!Unlinks

LEMMA UnlinkFileKeeps ==
  ASSUME Kept, NEW c \in Client, R!UnlinkFile(c)
  PROVE  Kept'
<1> DEFINE q == requests[c]
<1>1. PICK id \in DOMAIN q.files :
        /\ files' = files \ {q.files[id]}
        /\ R!Becomes(c, [q EXCEPT !.files = R!Without(@, {id})])
  BY DEF R!UnlinkFile
<1>2. R!Unlinks(c) /\ UNCHANGED <<owners, rows, thumbs, uploads, lock, asked>>
  BY DEF R!UnlinkFile, R!database, R!history
<1> DEFINE f == R!Without(q.files, {id})
           r == [q EXCEPT !.files = f]
<1>3. q \in [kind : {"replace", "delete", "purge"}, txn : Txn, ids : SUBSET R!Id, keys : R!Keys,
             files : R!Keys, thumbs : SUBSET R!Id]
  BY <1>2, RemovalShape
<1>4. /\ DOMAIN f = DOMAIN q.files \ {id} /\ \A i \in DOMAIN f : f[i] = q.files[i]
  BY DEF R!Without, R!Restrict
<1>5. f \in R!Keys
  <2>1. DOMAIN q.files \subseteq R!Id /\ q.files \in [DOMAIN q.files -> R!Key]
    BY <1>3, KeysShape
  <2>2. f = [i \in DOMAIN f |-> f[i]]
    BY DEF R!Without, R!Restrict
  <2> HIDE DEF f, q
  <2>3. f \in [DOMAIN f -> R!Key] /\ DOMAIN f \subseteq R!Id
    BY <1>4, <2>1, <2>2
  <2> QED BY <2>3 DEF R!Keys
<1>6. /\ r \in R!Request /\ r.kind = q.kind /\ r.ids = q.ids /\ r.keys = q.keys /\ r.txn = q.txn
      /\ r.thumbs = q.thumbs /\ r.files = f
  <2> HIDE DEF f, q
  <2> QED BY <1>3, <1>5 DEF R!Request
<1>7. q.files[id] = q.keys[id] /\ q.keys[id] \in R!Range(q.keys)
  BY <1>2, RemovalShape DEF UnlinkOK, R!Range
<1>8. R!Becomes(c, r)
  BY <1>1
<1>9. thumbs' \in [DOMAIN thumbs' -> R!Key]
  BY <1>2 DEF Kept, R!TypeOK
<1> HIDE DEF r, f
<1> QED BY <1>1, <1>2, <1>4, <1>6, <1>7, <1>8, <1>9, RemovalKeeps

LEMMA UnlinkThumbKeeps ==
  ASSUME Kept, NEW c \in Client, R!UnlinkThumb(c)
  PROVE  Kept'
<1> DEFINE q == requests[c]
<1>1. PICK id \in q.thumbs \ DOMAIN q.files :
        /\ thumbs' = R!Without(thumbs, {id})
        /\ R!Becomes(c, [q EXCEPT !.thumbs = @ \ {id}])
  BY DEF R!UnlinkThumb
<1>2. R!Unlinks(c) /\ UNCHANGED <<owners, rows, files, uploads, lock, asked>>
  BY DEF R!UnlinkThumb, R!database, R!history
<1> DEFINE r == [q EXCEPT !.thumbs = q.thumbs \ {id}]
<1>3. q \in [kind : {"replace", "delete", "purge"}, txn : Txn, ids : SUBSET R!Id, keys : R!Keys,
             files : R!Keys, thumbs : SUBSET R!Id]
  BY <1>2, RemovalShape
<1>4. /\ r \in R!Request /\ r.kind = q.kind /\ r.ids = q.ids /\ r.keys = q.keys /\ r.txn = q.txn
      /\ r.thumbs \subseteq q.thumbs /\ r.files = q.files
  <2> HIDE DEF q
  <2> QED BY <1>3 DEF R!Request
<1>5. R!Becomes(c, r)
  BY <1>1
<1>6. thumbs' \in [DOMAIN thumbs' -> R!Key]
  <2>1. thumbs \in [DOMAIN thumbs -> R!Key]
    BY DEF Kept, R!TypeOK
  <2>2. thumbs' = [i \in DOMAIN thumbs \ {id} |-> thumbs[i]]
    BY <1>1 DEF R!Without, R!Restrict
  <2> QED BY <2>1, <2>2
<1> HIDE DEF r
<1> QED BY <1>2, <1>4, <1>5, <1>6, RemovalKeeps

\* Rows go at the end of a deletion or a purge.
LEMMA RowsGo ==
  ASSUME Kept, NEW c \in Client, NEW ids, R!Becomes(c, Null), rows' = R!Without(rows, ids),
         UNCHANGED <<files, thumbs, uploads, asked>>, lock' \in {lock, Null},
         \A d \in Client \ {c} : R!Kind(d) # "purge",
         owners' \in [Txn -> {"live", "trashed", "gone"}],
         \A i \in DOMAIN rows' : owners'[rows[i].txn] # "gone"
  PROVE  Kept'
<1>1. /\ RequestsOK' /\ R!Kind(c)' = "none" /\ \A d \in Client \ {c} : requests'[d] = requests[d]
      /\ uploads \in Nat /\ Made' = Made
  BY Becoming DEF Kept, RequestsOK, Made
<1>2. DOMAIN rows' \subseteq DOMAIN rows /\ \A i \in DOMAIN rows' : rows'[i] = rows[i]
  BY DEF R!Without, R!Restrict
<1>3. R!TypeOK'
  <2>1. rows' = [i \in DOMAIN rows' |-> rows'[i]]
    BY DEF R!Without, R!Restrict
  <2>2. rows' \in [DOMAIN rows' -> [txn : Txn, key : R!Key]] /\ DOMAIN rows' \subseteq R!Id
    BY <1>2, <2>1 DEF Kept, R!TypeOK
  <2>3. /\ lock' \in Client \cup {Null} /\ files' \subseteq R!Key
        /\ thumbs' \in [DOMAIN thumbs' -> R!Key]
    BY DEF Kept, R!TypeOK
  <2>4. \A i \in DOMAIN rows' : owners'[rows'[i].txn] # "gone"
    BY <1>2
  <2> QED BY <2>2, <2>3, <2>4 DEF R!TypeOK
<1>4. KeysOK'
  BY <1>1, <1>2 DEF Kept, KeysOK
<1>5. Remembers(c)'
  BY <1>1 DEF Remembers, UploadOK, WrittenOK, UnlinkOK, PurgeOK, Uploads, R!Unlinks
<1>6. ASSUME NEW d \in Client \ {c} PROVE Remembers(d)'
  BY <1>1, <1>2, OthersRemember
<1>7. Alone'
  <2>1. Holds(c)' = {}
    BY <1>1 DEF Holds, Uploads, R!Unlinks
  <2> QED BY <1>1, <2>1, StillAlone
<1> QED BY <1>1, <1>3, <1>4, <1>5, <1>6, <1>7 DEF Kept

LEMMA FinishKeeps ==
  ASSUME Kept, NEW c \in Client, R!Finish(c)
  PROVE  Kept'
<1> DEFINE q == requests[c]
<1>1. /\ R!Unlinks(c) /\ R!Becomes(c, Null) /\ UNCHANGED <<files, thumbs, uploads, asked>>
  BY DEF R!Finish, R!Ends, R!disk
<1>2. R!Kind(c) = q.kind /\ q.txn \in Txn
  BY <1>1, RemovalShape
<1>3. Null \notin Client
  BY ConstantsHold
<1>4. \A d \in Client : R!Kind(d) = "purge" => lock = d
  BY DEF Kept, Remembers, PurgeOK
<1>5. owners \in [Txn -> {"live", "trashed", "gone"}]
      /\ \A i \in DOMAIN rows : owners[rows[i].txn] # "gone" /\ rows[i].txn \in Txn
  BY DEF Kept, R!TypeOK
<1>6. CASE q.kind = "replace"
  <2>1. UNCHANGED <<owners, rows, lock>>
    BY <1>6 DEF R!Finish, R!database
  <2>2. thumbs' \in [DOMAIN thumbs' -> R!Key]
    BY <1>1 DEF Kept, R!TypeOK
  <2> QED BY <1>1, <2>1, <2>2, QuietStep
<1>7. CASE q.kind = "delete"
  <2>1. lock = Null /\ rows' = R!Without(rows, q.ids) /\ UNCHANGED <<owners, lock>>
    BY <1>7 DEF R!Finish
  <2>2. DOMAIN rows' \subseteq DOMAIN rows
    BY <2>1 DEF R!Without, R!Restrict
  <2>3. \A d \in Client \ {c} : R!Kind(d) # "purge"
    BY <1>3, <1>4, <2>1
  <2> HIDE DEF q
  <2> QED BY <1>1, <1>5, <2>1, <2>2, <2>3, RowsGo
<1>8. CASE q.kind = "purge"
  <2>1. /\ rows' = R!Without(rows, q.ids) /\ lock' = Null
        /\ owners' = [owners EXCEPT ![q.txn] = IF @ = "trashed" THEN "gone" ELSE @]
    BY <1>8 DEF R!Finish
  <2>2. lock = c /\ q.ids = R!Attachments(q.txn)
    BY <1>1, <1>2, <1>8, RemovalShape DEF PurgeOK
  <2>3. DOMAIN rows' = DOMAIN rows \ q.ids
    BY <2>1 DEF R!Without, R!Restrict
  <2>4. \A i \in DOMAIN rows' : owners'[rows[i].txn] # "gone"
    BY <1>5, <2>1, <2>2, <2>3 DEF R!Attachments
  <2>5. owners' \in [Txn -> {"live", "trashed", "gone"}]
    BY <1>5, <2>1
  <2>6. \A d \in Client \ {c} : R!Kind(d) # "purge"
    BY <1>4, <2>2
  <2> HIDE DEF q
  <2> QED BY <1>1, <2>1, <2>4, <2>5, <2>6, RowsGo
<1> QED BY <1>1, <1>2, <1>6, <1>7, <1>8 DEF R!Unlinks

LEMMA TrashKeeps ==
  ASSUME Kept, NEW t \in Txn, R!Trash(t) \/ R!Restore(t)
  PROVE  Kept'
<1>1. /\ UNCHANGED <<rows, lock, files, thumbs, uploads, requests, asked>>
      /\ \/ owners' = [owners EXCEPT ![t] = "trashed"]
         \/ owners' = [owners EXCEPT ![t] = "live"]
  BY DEF R!Trash, R!Restore, R!disk, R!history
<1>2. R!TypeOK' /\ KeysOK' /\ RequestsOK'
  BY <1>1 DEF Kept, R!TypeOK, KeysOK, RequestsOK, Made
<1>3. \A d \in Client :
        /\ R!Idle(d)' = R!Idle(d) /\ R!Kind(d)' = R!Kind(d) /\ R!Unlinks(d)' = R!Unlinks(d)
        /\ Uploads(d)' = Uploads(d) /\ Holds(d)' = Holds(d)
  BY <1>1, OthersStay DEF Kept
<1>4. Alone'
  BY <1>1, <1>3 DEF Kept, Alone
<1>5. ASSUME NEW d \in Client PROVE Remembers(d)'
  <2>1. Remembers(d)
    BY DEF Kept
  <2> QED BY <1>1, <1>3, <2>1 DEF Remembers, UploadOK, WrittenOK, UnlinkOK, PurgeOK, Made,
                                R!Attachments
<1> QED BY <1>2, <1>4, <1>5 DEF Kept

LEMMA StopKeeps ==
  ASSUME Kept, R!Stop
  PROVE  Kept'
<1>1. /\ UNCHANGED <<owners, rows, files, thumbs, uploads, asked>> /\ lock' = Null
      /\ requests' = [c \in Client |-> Null]
  BY DEF R!Stop, R!disk
<1>2. R!TypeOK' /\ KeysOK' /\ RequestsOK'
  BY <1>1 DEF Kept, R!TypeOK, KeysOK, RequestsOK, Made
<1>3. \A d \in Client : R!Kind(d)' = "none"
  BY <1>1 DEF R!Kind, R!Idle
<1> QED BY <1>2, <1>3 DEF Kept, Alone, Remembers, UploadOK, WrittenOK, UnlinkOK, PurgeOK,
                        Uploads, R!Unlinks

LEMMA QuietActions ==
  ASSUME Kept, NEW c \in Client,
         \/ R!RefuseFile(c) \/ R!RefuseThumbnail(c) \/ R!PlaceThumbnail(c)
         \/ \E t \in Txn : R!BeginPurge(c, t)
         \/ \E id \in R!Id : R!BeginThumbnail(c, id)
  PROVE  Kept'
<1>1. thumbs \in [DOMAIN thumbs -> R!Key]
  BY DEF Kept, R!TypeOK
<1>2. CASE R!RefuseFile(c) \/ R!RefuseThumbnail(c)
  <2>1. R!Becomes(c, Null) /\ UNCHANGED <<owners, rows, files, thumbs, uploads, lock, asked>>
    BY <1>2 DEF R!RefuseFile, R!RefuseThumbnail, R!Ends, R!database, R!disk, R!history
  <2> QED BY <1>1, <2>1, QuietStep
<1>3. CASE R!PlaceThumbnail(c)
  <2>1. /\ R!Becomes(c, Null) /\ UNCHANGED <<owners, rows, files, uploads, lock, asked>>
        /\ R!Kind(c) = "thumbnail" /\ thumbs' = R!Put(thumbs, requests[c].id, requests[c].key)
    BY <1>3 DEF R!PlaceThumbnail, R!Ends, R!database
  <2>2. requests[c].key \in R!Key
    BY <2>1, RequestShape DEF Kept
  <2>3. thumbs' \in [DOMAIN thumbs' -> R!Key]
    BY <1>1, <2>1, <2>2 DEF R!Put
  <2> QED BY <2>1, <2>3, QuietStep
<1>4. ASSUME NEW t \in Txn, R!BeginPurge(c, t) PROVE Kept'
  <2> DEFINE r == [kind |-> "purging", txn |-> t]
  <2>1. R!Becomes(c, r) /\ UNCHANGED <<owners, rows, files, thumbs, uploads, lock, asked>>
    BY <1>4 DEF R!BeginPurge, R!database, R!disk, R!history
  <2>2. r \in R!Request /\ r.kind = "purging"
    BY DEF R!Request
  <2> HIDE DEF r
  <2> QED BY <1>1, <2>1, <2>2, QuietStep
<1>5. ASSUME NEW id \in R!Id, R!BeginThumbnail(c, id) PROVE Kept'
  <2> DEFINE r == [kind |-> "thumbnail", id |-> id, key |-> rows[id].key]
  <2>1. /\ R!Becomes(c, r) /\ UNCHANGED <<owners, rows, files, thumbs, uploads, lock, asked>>
        /\ rows[id].key \in R!Key
    BY <1>5 DEF R!BeginThumbnail, R!database, R!disk, R!history, Kept, R!TypeOK
  <2>2. r \in R!Request /\ r.kind = "thumbnail"
    BY <2>1 DEF R!Request
  <2> HIDE DEF r
  <2> QED BY <1>1, <2>1, <2>2, QuietStep
<1> QED BY <1>2, <1>3, <1>4, <1>5

-----------------------------------------------------------------------------
(* How the requests stand after a step.                                    *)

LEMMA WriteShape ==
  ASSUME Kept, NEW c \in Client, R!WriteFile(c)
  PROVE  /\ R!Kind(c) = "upload" /\ R!Kind(c)' = "written" /\ requests'[c].key = uploads + 1
         /\ requests'[c].txn = requests[c].txn /\ requests'[c].replaces = requests[c].replaces
         /\ \A d \in Client \ {c} : requests'[d] = requests[d]
         /\ UNCHANGED <<rows, thumbs, slips, asked>> /\ files' = files \cup {uploads + 1}
<1> DEFINE q == requests[c]
           r == [q EXCEPT !.kind = "written", !.key = uploads + 1]
<1>1. /\ R!Kind(c) = "upload" /\ R!Becomes(c, r) /\ uploads < MaxKey
      /\ UNCHANGED <<rows, thumbs, slips, asked>> /\ files' = files \cup {uploads + 1}
  BY DEF R!WriteFile, R!database, R!history
<1>2. q \in [kind : {"upload"}, txn : Txn, replaces : R!Id \cup {Null}, key : {Null},
             old : R!Key \cup {Null}]
  BY <1>1, RequestShape DEF Kept
<1>3. uploads + 1 \in R!Key
  BY <1>1, ConstantsHold DEF Kept, RequestsOK, R!Key
<1>4. /\ r \in R!Request /\ r.kind = "written" /\ r.key = uploads + 1 /\ r.txn = q.txn
      /\ r.replaces = q.replaces
  <2> HIDE DEF q
  <2> QED BY <1>2, <1>3 DEF R!Request
<1>5. r # Null
  BY <1>4, ConstantsHold
<1> HIDE DEF r
<1>6. requests'[c] = r /\ \A d \in Client \ {c} : requests'[d] = requests[d]
  BY <1>1 DEF R!Becomes, Kept, RequestsOK
<1> QED BY <1>1, <1>4, <1>5, <1>6 DEF R!Kind, R!Idle

\* A receipt that was replaced is to be unlinked under the id it had.
LEMMA ReplaceShape ==
  ASSUME Kept, NEW c \in Client, R!CommitUpload(c), R!Insertable(requests[c].txn),
         requests[c].replaces \notin {Null, R!NewId(rows)}
  PROVE  /\ R!Unlinks(c)' /\ requests'[c].ids = {requests[c].replaces}
         /\ requests'[c].thumbs = {requests[c].replaces}
         /\ requests[c].old \in R!Range(requests'[c].files)
<1> DEFINE q == requests[c]
           gone == [i \in {q.replaces} |-> q.old]
           r == R!Unlinking("replace", q.txn, {q.replaces}, gone)
<1>1. R!Becomes(c, r) /\ R!Kind(c) = "written"
  BY DEF R!CommitUpload
<1>2. q.replaces \in R!Id /\ q.old \in R!Key /\ q.txn \in Txn
  BY <1>1, RequestShape DEF Kept, Remembers, UploadOK, Uploads
<1>3. gone \in [{q.replaces} -> R!Key] /\ q.old \in R!Range(gone)
  BY <1>2 DEF R!Range
<1>4. /\ r # Null
      /\ r = [kind |-> "replace", txn |-> q.txn, ids |-> {q.replaces}, keys |-> gone,
              files |-> gone, thumbs |-> {q.replaces}]
  <2> HIDE DEF gone, q
  <2> QED BY <1>2, <1>3, UnlinkingShape
<1>5. r.kind = "replace" /\ r.files = gone /\ r.ids = {q.replaces} /\ r.thumbs = {q.replaces}
  <2> HIDE DEF gone, q
  <2> QED BY <1>4
<1> HIDE DEF r, gone
<1>6. requests'[c] = r
  BY <1>1 DEF R!Becomes, Kept, RequestsOK
<1> QED BY <1>3, <1>4, <1>5, <1>6 DEF R!Unlinks, R!Kind, R!Idle

LEMMA UnlinkShape ==
  ASSUME Kept, NEW c \in Client, R!UnlinkFile(c) \/ R!UnlinkThumb(c)
  PROVE  /\ R!Unlinks(c) /\ R!Unlinks(c)' /\ R!Kind(c) # "written"
         /\ UNCHANGED <<rows, slips, asked>>
         /\ requests'[c].ids = requests[c].ids
         /\ \A d \in Client \ {c} : requests'[d] = requests[d]
         /\ \/ /\ thumbs' = thumbs /\ requests'[c].thumbs = requests[c].thumbs
               /\ \E k \in R!Range(requests[c].files) :
                    /\ files' = files \ {k}
                    /\ R!Range(requests[c].files) \subseteq R!Range(requests'[c].files) \cup {k}
            \/ /\ files' = files /\ requests'[c].files = requests[c].files
               /\ \E i \in requests[c].thumbs :
                    /\ thumbs' = R!Without(thumbs, {i})
                    /\ requests'[c].thumbs = requests[c].thumbs \ {i}
<1> DEFINE q == requests[c]
<1>1. R!Unlinks(c) /\ R!Kind(c) # "written" /\ UNCHANGED <<rows, slips, asked>>
  BY DEF R!UnlinkFile, R!UnlinkThumb, R!database, R!history, R!Unlinks
<1>2. q \in [kind : {"replace", "delete", "purge"}, txn : Txn, ids : SUBSET R!Id,
             keys : R!Keys, files : R!Keys, thumbs : SUBSET R!Id]
  BY <1>1, RemovalShape
<1>3. Null \notin R!Request
  BY ConstantsHold
<1>4. ASSUME NEW r \in R!Request, R!Becomes(c, r), r.kind = q.kind
      PROVE  /\ R!Unlinks(c)' /\ requests'[c] = r
             /\ \A d \in Client \ {c} : requests'[d] = requests[d]
  <2>1. requests'[c] = r /\ \A d \in Client \ {c} : requests'[d] = requests[d]
    BY <1>4 DEF R!Becomes, Kept, RequestsOK
  <2>2. r # Null /\ r.kind \in {"replace", "delete", "purge"}
    BY <1>2, <1>3, <1>4
  <2> QED BY <2>1, <2>2 DEF R!Unlinks, R!Kind, R!Idle
<1>5. CASE R!UnlinkFile(c)
  <2>1. PICK j \in DOMAIN q.files :
          /\ files' = files \ {q.files[j]}
          /\ R!Becomes(c, [q EXCEPT !.files = R!Without(@, {j})])
    BY <1>5 DEF R!UnlinkFile
  <2> DEFINE f == R!Without(q.files, {j})
             r == [q EXCEPT !.files = f]
  <2>2. DOMAIN f = DOMAIN q.files \ {j} /\ \A i \in DOMAIN f : f[i] = q.files[i]
    BY DEF R!Without, R!Restrict
  <2>3. f \in R!Keys
    <3>1. DOMAIN q.files \subseteq R!Id /\ q.files \in [DOMAIN q.files -> R!Key]
      BY <1>2, KeysShape
    <3>2. f = [i \in DOMAIN f |-> f[i]]
      BY DEF R!Without, R!Restrict
    <3> HIDE DEF f, q
    <3>3. f \in [DOMAIN f -> R!Key] /\ DOMAIN f \subseteq R!Id
      BY <2>2, <3>1, <3>2
    <3> QED BY <3>3 DEF R!Keys
  <2>4. /\ r \in R!Request /\ r.kind = q.kind /\ r.files = f /\ r.ids = q.ids
        /\ r.thumbs = q.thumbs
    <3> HIDE DEF f, q
    <3> QED BY <1>2, <2>3 DEF R!Request
  <2>5. R!Range(q.files) \subseteq R!Range(f) \cup {q.files[j]} /\ q.files[j] \in R!Range(q.files)
    <3> HIDE DEF f, q
    <3> QED BY <2>1, <2>2 DEF R!Range
  <2>6. thumbs' = thumbs
    BY <1>5 DEF R!UnlinkFile
  <2>7. R!Becomes(c, r)
    BY <2>1
  <2> HIDE DEF r, f
  <2>8. R!Unlinks(c)' /\ requests'[c] = r /\ \A d \in Client \ {c} : requests'[d] = requests[d]
    BY <1>4, <2>4, <2>7
  <2> QED BY <1>1, <2>1, <2>4, <2>5, <2>6, <2>8
<1>6. CASE R!UnlinkThumb(c)
  <2>1. PICK i \in q.thumbs :
          /\ thumbs' = R!Without(thumbs, {i})
          /\ R!Becomes(c, [q EXCEPT !.thumbs = @ \ {i}])
    BY <1>6 DEF R!UnlinkThumb
  <2> DEFINE r == [q EXCEPT !.thumbs = @ \ {i}]
  <2>2. /\ r \in R!Request /\ r.kind = q.kind /\ r.files = q.files /\ r.ids = q.ids
        /\ r.thumbs = q.thumbs \ {i}
    <3> HIDE DEF q
    <3> QED BY <1>2 DEF R!Request
  <2>3. files' = files
    BY <1>6 DEF R!UnlinkThumb
  <2>4. R!Becomes(c, r)
    BY <2>1
  <2> HIDE DEF r
  <2>5. R!Unlinks(c)' /\ requests'[c] = r /\ \A d \in Client \ {c} : requests'[d] = requests[d]
    BY <1>4, <2>2, <2>4
  <2> QED BY <1>1, <2>1, <2>2, <2>3, <2>5
<1> QED BY <1>5, <1>6

LEMMA NothingIsEmpty ==
  ASSUME NEW f, f = <<>>
  PROVE  DOMAIN f = {}
<1>1. Len(<<>>) = 0 /\ <<>> \in Seq({})
  OBVIOUS
<1>2. DOMAIN <<>> = 1..Len(<<>>)
  OBVIOUS
<1> QED BY <1>1, <1>2

LEMMA EmptyIsNothing ==
  <<>> = [i \in {} |-> 0]
<1>1. Len(<<>>) = 0 /\ <<>> \in Seq({})
  OBVIOUS
<1>2. <<>> = [i \in 1..Len(<<>>) |-> <<>>[i]]
  OBVIOUS
<1> QED BY <1>1, <1>2

LEMMA FinishShape ==
  ASSUME Kept, NEW c \in Client, R!Finish(c)
  PROVE  /\ R!Unlinks(c) /\ R!Kind(c) = requests[c].kind /\ UNCHANGED <<files, thumbs, asked>>
         /\ ~R!Unlinks(c)' /\ \A d \in Client \ {c} : requests'[d] = requests[d]
         /\ DOMAIN requests[c].files = {} /\ requests[c].thumbs = {}
         /\ \/ R!Kind(c) = "replace" /\ rows' = rows
            \/ /\ DOMAIN rows' = DOMAIN rows \ requests[c].ids
               /\ \A i \in DOMAIN rows' : rows'[i] = rows[i]
<1>1. /\ R!Unlinks(c) /\ R!Becomes(c, Null) /\ UNCHANGED <<files, thumbs, asked>>
      /\ requests[c].files = <<>> /\ requests[c].thumbs = {}
  BY DEF R!Finish, R!Ends, R!disk
<1>2. requests'[c] = Null /\ \A d \in Client \ {c} : requests'[d] = requests[d]
  BY <1>1 DEF R!Becomes, Kept, RequestsOK
<1>3. ~R!Unlinks(c)'
  BY <1>2 DEF R!Unlinks, R!Kind, R!Idle
<1>4. R!Kind(c) = requests[c].kind
  BY <1>1, RemovalShape
<1>5. DOMAIN requests[c].files = {}
  BY <1>1, NothingIsEmpty
<1>6. \/ R!Kind(c) = "replace" /\ rows' = rows
      \/ rows' = R!Without(rows, requests[c].ids)
  BY <1>4 DEF R!Finish, R!database
<1>7. \/ R!Kind(c) = "replace" /\ rows' = rows
      \/ /\ DOMAIN rows' = DOMAIN rows \ requests[c].ids
         /\ \A i \in DOMAIN rows' : rows'[i] = rows[i]
  BY <1>6 DEF R!Without, R!Restrict
<1> QED BY <1>1, <1>2, <1>3, <1>4, <1>5, <1>7

-----------------------------------------------------------------------------
\* Steps that neither add a row nor begin or carry on an upload.
Calm ==
  /\ uploads' = uploads /\ DOMAIN rows' \subseteq DOMAIN rows
  /\ \A i \in DOMAIN rows' : rows'[i] = rows[i]
  /\ \A d \in Client : Uploads(d)' => requests'[d] = requests[d]

LEMMA CalmRequests ==
  ASSUME Kept, NEW c \in Client, NEW r, R!Becomes(c, r),
         r = Null \/ r.kind \notin {"upload", "written"}
  PROVE  \A d \in Client : Uploads(d)' => requests'[d] = requests[d]
<1>1. requests'[c] = r /\ \A d \in Client \ {c} : requests'[d] = requests[d]
  BY DEF R!Becomes, Kept, RequestsOK
<1>2. ~Uploads(c)'
  BY <1>1 DEF Uploads, R!Kind, R!Idle
<1> QED BY <1>1, <1>2

LEMMA CalmSteps ==
  ASSUME Kept, R!Next
  PROVE  \/ Calm
         \/ \E c \in Client : \/ R!WriteFile(c) \/ R!CommitUpload(c)
                              \/ \E t \in Txn, i \in R!Id \cup {Null} : R!BeginUpload(c, t, i)
<1>1. ASSUME NEW c \in Client, R!RefuseFile(c) \/ R!RefuseThumbnail(c) \/ R!PlaceThumbnail(c)
      PROVE  Calm
  <2>1. R!Becomes(c, Null) /\ UNCHANGED <<rows, uploads>>
    BY <1>1 DEF R!RefuseFile, R!RefuseThumbnail, R!PlaceThumbnail, R!Ends, R!database, R!disk
  <2> QED BY <2>1, CalmRequests DEF Calm
<1>2. ASSUME NEW c \in Client, NEW t \in Txn, R!BeginPurge(c, t) PROVE Calm
  <2> DEFINE r == [kind |-> "purging", txn |-> t]
  <2>1. R!Becomes(c, r) /\ UNCHANGED <<rows, uploads>> /\ r.kind = "purging"
    BY <1>2 DEF R!BeginPurge, R!database, R!disk
  <2> HIDE DEF r
  <2> QED BY <2>1, CalmRequests DEF Calm
<1>3. ASSUME NEW c \in Client, NEW id \in R!Id, R!BeginThumbnail(c, id) PROVE Calm
  <2> DEFINE r == [kind |-> "thumbnail", id |-> id, key |-> rows[id].key]
  <2>1. R!Becomes(c, r) /\ UNCHANGED <<rows, uploads>> /\ r.kind = "thumbnail"
    BY <1>3 DEF R!BeginThumbnail, R!database, R!disk
  <2> HIDE DEF r
  <2> QED BY <2>1, CalmRequests DEF Calm
<1>4. ASSUME NEW c \in Client, NEW id \in R!Id, R!BeginDelete(c, id) PROVE Calm
  <2> DEFINE r == R!Unlinking("delete", rows[id].txn, {id}, R!KeysOf({id}))
  <2>1. R!Becomes(c, r) /\ UNCHANGED <<rows, uploads>> /\ r.kind = "delete"
    BY <1>4 DEF R!BeginDelete, R!database, R!disk, R!Unlinking
  <2> HIDE DEF r
  <2> QED BY <2>1, CalmRequests DEF Calm
<1>5. ASSUME NEW c \in Client, R!LockPurge(c) PROVE Calm
  <2> DEFINE ids == R!Attachments(requests[c].txn)
             r == R!Unlinking("purge", requests[c].txn, ids, R!KeysOf(ids))
  <2>1. R!Becomes(c, r) /\ UNCHANGED <<rows, uploads>> /\ r.kind = "purge"
    BY <1>5 DEF R!LockPurge, R!disk, R!Unlinking
  <2> HIDE DEF r
  <2> QED BY <2>1, CalmRequests DEF Calm
<1>6. ASSUME NEW c \in Client, R!UnlinkFile(c) \/ R!UnlinkThumb(c) PROVE Calm
  <2>1. rows' = rows /\ R!Unlinks(c)' /\ \A d \in Client \ {c} : requests'[d] = requests[d]
    BY <1>6, UnlinkShape
  <2>2. uploads' = uploads
    BY <1>6 DEF R!UnlinkFile, R!UnlinkThumb
  <2> QED BY <2>1, <2>2 DEF Calm, Uploads, R!Unlinks
<1>7. ASSUME NEW c \in Client, R!Finish(c) PROVE Calm
  <2>1. R!Becomes(c, Null) /\ uploads' = uploads
    BY <1>7 DEF R!Finish, R!Ends
  <2>2. DOMAIN rows' \subseteq DOMAIN rows /\ \A i \in DOMAIN rows' : rows'[i] = rows[i]
    BY <1>7, FinishShape
  <2> QED BY <2>1, <2>2, CalmRequests DEF Calm
<1>8. ASSUME NEW t \in Txn, R!Trash(t) \/ R!Restore(t) PROVE Calm
  BY <1>8 DEF R!Trash, R!Restore, R!disk, Calm
<1>9. ASSUME R!Stop PROVE Calm
  <2>1. UNCHANGED <<rows, uploads>> /\ \A d \in Client : ~Uploads(d)'
    BY <1>9 DEF R!Stop, R!disk, Uploads, R!Kind, R!Idle
  <2> QED BY <2>1 DEF Calm
<1> QED BY <1>1, <1>2, <1>3, <1>4, <1>5, <1>6, <1>7, <1>8, <1>9 DEF R!Next

\* How a committed upload ends.
LEMMA CommitShape ==
  ASSUME Kept, NEW c \in Client, R!CommitUpload(c)
  PROVE  /\ R!Kind(c) = "written" /\ uploads' = uploads /\ ~Uploads(c)'
         /\ \A d \in Client \ {c} : requests'[d] = requests[d]
         /\ \/ rows' = rows
            \/ rows' = R!Without(R!Put(rows, R!NewId(rows), [txn |-> requests[c].txn,
                                                       key |-> requests[c].key]),
                               {requests[c].replaces})
<1>1. /\ R!Kind(c) = "written" /\ uploads' = uploads
      /\ \/ rows' = rows
         \/ rows' = R!Without(R!Put(rows, R!NewId(rows), [txn |-> requests[c].txn,
                                                    key |-> requests[c].key]),
                            {requests[c].replaces})
  BY DEF R!CommitUpload
<1>2. PICK r : R!Becomes(c, r) /\ (r = Null \/ r.kind = "replace")
  <2> DEFINE q == requests[c]
             s == R!Unlinking("replace", q.txn, {q.replaces}, [i \in {q.replaces} |-> q.old])
  <2>1. R!Becomes(c, Null) \/ R!Becomes(c, s)
    BY DEF R!CommitUpload, R!Ends
  <2>2. s.kind = "replace"
    BY DEF R!Unlinking
  <2> HIDE DEF s
  <2> QED BY <2>1, <2>2
<1>3. requests'[c] = r /\ \A d \in Client \ {c} : requests'[d] = requests[d]
  BY <1>2 DEF R!Becomes, Kept, RequestsOK
<1>4. ~Uploads(c)'
  BY <1>2, <1>3 DEF Uploads, R!Kind, R!Idle
<1> QED BY <1>1, <1>3, <1>4

-----------------------------------------------------------------------------
\* Ids are given away in order, and each of them is preceded by uploads that got their key.
Writing == {c \in Client : R!Kind(c) = "written"}
Counted ==
  /\ Cardinality(Writing) <= uploads
  /\ \A i \in DOMAIN rows : i + Cardinality(Writing) <= uploads

LEMMA RowsFinite ==
  ASSUME R!TypeOK
  PROVE  /\ DOMAIN rows \subseteq R!Id /\ IsFiniteSet(DOMAIN rows)
         /\ IsFiniteSet(R!Id) /\ R!Id \subseteq Nat
<1>1. MaxKey \in Nat /\ DOMAIN rows \subseteq R!Id
  BY ConstantsHold DEF R!TypeOK
<1>2. IsFiniteSet(R!Id) /\ R!Id \subseteq Nat
  BY <1>1, FS_Interval DEF R!Id
<1> QED BY <1>1, <1>2, FS_Subset

LEMMA WritingFinite ==
  ASSUME NEW W \in SUBSET Client
  PROVE  IsFiniteSet(W) /\ Cardinality(W) \in Nat
BY FS_Subset, FS_CardinalityType, ConstantsHold

LEMMA NewIdIsNext ==
  ASSUME R!TypeOK
  PROVE  /\ R!NewId(rows) \in Nat \ {0}
         /\ \/ DOMAIN rows = {} /\ R!NewId(rows) = 1
            \/ \E m \in DOMAIN rows : R!NewId(rows) = m + 1
         /\ \A i \in DOMAIN rows : i < R!NewId(rows)
<1>1. CASE DOMAIN rows = {}
  BY <1>1 DEF R!NewId
<1>2. CASE DOMAIN rows # {}
  <2> DEFINE m == Max(DOMAIN rows)
  <2>1. m \in DOMAIN rows /\ \A i \in DOMAIN rows : m >= i
    BY <1>2, RowsFinite, MaxInSet
  <2>2. R!NewId(rows) = m + 1
    BY <1>2 DEF R!NewId, R!Max, Max
  <2> HIDE DEF m
  <2>3. m \in Nat /\ \A i \in DOMAIN rows : i \in Nat
    BY <2>1, RowsFinite
  <2> QED BY <2>1, <2>2, <2>3
<1> QED BY <1>1, <1>2

LEMMA NewIdFits ==
  ASSUME Kept, Counted, NEW c \in Client, R!Kind(c) = "written"
  PROVE  R!NewId(rows) \in R!Id \ DOMAIN rows /\ R!NewId(rows) + Cardinality(Writing) <= uploads + 1
<1> DEFINE w == Cardinality(Writing)
<1>1. w \in Nat /\ w # 0
  <2>1. c \in Writing /\ Writing \in SUBSET Client
    BY DEF Writing
  <2>2. w \in Nat
    BY <2>1, WritingFinite
  <2>3. w = Cardinality(Writing \ {c}) + 1 /\ Cardinality(Writing \ {c}) \in Nat
    <3>1. Writing \ {c} \in SUBSET Client /\ IsFiniteSet(Writing)
      BY <2>1, WritingFinite
    <3>2. Cardinality(Writing \ {c}) = w - 1
      BY <2>1, <3>1, FS_RemoveElement
    <3>3. Cardinality(Writing \ {c}) \in Nat
      BY <3>1, WritingFinite
    <3> QED BY <2>2, <3>2, <3>3
  <2> QED BY <2>2, <2>3
<1>2. /\ R!NewId(rows) \in Nat \ {0}
      /\ \/ DOMAIN rows = {} /\ R!NewId(rows) = 1
         \/ \E m \in DOMAIN rows : R!NewId(rows) = m + 1
      /\ \A i \in DOMAIN rows : i < R!NewId(rows)
  BY NewIdIsNext DEF Kept
<1>3. uploads \in Nat /\ uploads <= MaxKey /\ MaxKey \in Nat /\ DOMAIN rows \subseteq Nat
  BY RowsFinite, ConstantsHold DEF Kept, RequestsOK
<1>4. w <= uploads /\ \A i \in DOMAIN rows : i + w <= uploads
  BY DEF Counted
<1> HIDE DEF w
<1>5. R!NewId(rows) + w <= uploads + 1
  BY <1>1, <1>2, <1>3, <1>4
<1>6. R!NewId(rows) \in R!Id /\ R!NewId(rows) \notin DOMAIN rows
  BY <1>1, <1>2, <1>3, <1>5 DEF R!Id
<1> QED BY <1>5, <1>6 DEF w

LEMMA CountedStep ==
  ASSUME Kept, Counted, R!Next
  PROVE  Counted'
<1> DEFINE w == Cardinality(Writing)
           v == Cardinality(Writing')
<1>1. /\ IsFiniteSet(Writing) /\ w \in Nat /\ v \in Nat /\ uploads \in Nat
      /\ DOMAIN rows \subseteq Nat
  <2>1. Writing \in SUBSET Client /\ Writing' \in SUBSET Client
    BY DEF Writing
  <2> QED BY <2>1, WritingFinite, RowsFinite DEF Kept, RequestsOK
<1>2. w <= uploads /\ \A i \in DOMAIN rows : i + w <= uploads
  BY DEF Counted
<1>3. CASE Calm \/ \E c \in Client, t \in Txn, i \in R!Id \cup {Null} : R!BeginUpload(c, t, i)
  <2>1. Writing' \subseteq Writing /\ uploads' = uploads /\ DOMAIN rows' \subseteq DOMAIN rows
    <3>1. CASE Calm
      <4>1. ASSUME NEW d \in Writing' PROVE d \in Writing
        <5>1. d \in Client /\ Uploads(d)' /\ R!Kind(d)' = "written"
          BY DEF Writing, Uploads
        <5>2. R!Kind(d)' = R!Kind(d)
          BY <3>1, <5>1, OthersStay DEF Calm, Kept
        <5> QED BY <5>1, <5>2 DEF Writing
      <4> QED BY <3>1, <4>1 DEF Calm
    <3>2. ASSUME NEW c \in Client, NEW t \in Txn, NEW i \in R!Id \cup {Null}, R!BeginUpload(c, t, i)
          PROVE  /\ Writing' \subseteq Writing /\ uploads' = uploads
                 /\ DOMAIN rows' \subseteq DOMAIN rows
      <4> DEFINE r == [kind |-> "upload", txn |-> t, replaces |-> i, key |-> Null,
                       old |-> IF i = Null THEN Null ELSE rows[i].key]
      <4>1. R!Becomes(c, r) /\ UNCHANGED <<rows, uploads>> /\ r.kind = "upload"
        BY <3>2 DEF R!BeginUpload, R!database, R!disk
      <4> HIDE DEF r
      <4>2. requests'[c] = r /\ \A d \in Client \ {c} : requests'[d] = requests[d]
        BY <4>1 DEF R!Becomes, Kept, RequestsOK
      <4>3. R!Kind(c)' # "written"
        BY <4>1, <4>2 DEF R!Kind, R!Idle
      <4> QED BY <4>1, <4>2, <4>3, OthersStay DEF Writing, Kept
    <3> QED BY <1>3, <3>1, <3>2
  <2>2. v <= w
    BY <1>1, <2>1, FS_Subset
  <2> HIDE DEF v, w
  <2>3. v <= uploads' /\ \A i \in DOMAIN rows' : i + v <= uploads'
    BY <1>1, <1>2, <2>1, <2>2
  <2> QED BY <2>3 DEF Counted, v
<1>4. ASSUME NEW c \in Client, R!WriteFile(c) PROVE Counted'
  <2> DEFINE r == [requests[c] EXCEPT !.kind = "written", !.key = uploads + 1]
  <2>1. R!Becomes(c, r) /\ rows' = rows /\ uploads' = uploads + 1
    BY <1>4 DEF R!WriteFile, R!database
  <2>2. \A d \in Client \ {c} : requests'[d] = requests[d]
    BY <2>1 DEF R!Becomes, Kept, RequestsOK
  <2>3. Writing' \subseteq Writing \cup {c}
    BY <2>2, OthersStay DEF Writing, Kept
  <2>4. v <= w + 1
    <3>1. IsFiniteSet(Writing \cup {c}) /\ Cardinality(Writing \cup {c}) \in {w, w + 1}
      BY <1>1, FS_AddElement
    <3>2. v <= Cardinality(Writing \cup {c})
      BY <2>3, <3>1, FS_Subset
    <3> QED BY <1>1, <3>1, <3>2
  <2> HIDE DEF v, w
  <2>5. v <= uploads' /\ \A i \in DOMAIN rows' : i + v <= uploads'
    BY <1>1, <1>2, <2>1, <2>4
  <2> QED BY <2>5 DEF Counted, v
<1>5. ASSUME NEW c \in Client, R!CommitUpload(c) PROVE Counted'
  <2>1. /\ R!Kind(c) = "written" /\ uploads' = uploads /\ ~Uploads(c)'
        /\ \A d \in Client \ {c} : requests'[d] = requests[d]
    BY <1>5, CommitShape
  <2>2. Writing' \subseteq Writing \ {c} /\ c \in Writing
    BY <2>1, OthersStay DEF Writing, Kept, Uploads
  <2>3. v <= w - 1
    <3>1. IsFiniteSet(Writing \ {c}) /\ Cardinality(Writing \ {c}) = w - 1
      BY <1>1, <2>2, FS_RemoveElement
    <3>2. v <= Cardinality(Writing \ {c})
      BY <2>2, <3>1, FS_Subset
    <3> QED BY <3>1, <3>2
  <2>4. R!NewId(rows) \in R!Id \ DOMAIN rows /\ R!NewId(rows) + w <= uploads + 1
    BY <2>1, NewIdFits
  <2>5. DOMAIN rows' \subseteq DOMAIN rows \cup {R!NewId(rows)}
    <3> DEFINE row == [txn |-> requests[c].txn, key |-> requests[c].key]
    <3>1. \/ rows' = rows
          \/ rows' = R!Without(R!Put(rows, R!NewId(rows), row), {requests[c].replaces})
      BY <1>5, CommitShape
    <3> HIDE DEF row
    <3> QED BY <3>1 DEF R!Without, R!Restrict, R!Put
  <2>6. R!NewId(rows) \in Nat
    BY <2>4, RowsFinite DEF Kept
  <2> HIDE DEF v, w
  <2>7. v <= uploads' /\ \A i \in DOMAIN rows' : i + v <= uploads'
    BY <1>1, <1>2, <2>1, <2>3, <2>4, <2>5, <2>6
  <2> QED BY <2>7 DEF Counted, v
<1> QED BY <1>3, <1>4, <1>5, CalmSteps

-----------------------------------------------------------------------------
\* An upload under way will replace the receipt it claims or add one: the receipts nobody
\* claims and the uploads under way stay within the bound together.
Uploading(t) == {c \in Client : Uploads(c) /\ requests[c].txn = t}
Unclaimed(t) == {i \in R!Attachments(t) : \A c \in Uploading(t) : requests[c].replaces # i}
RoomLeft ==
  \A t \in Txn : Cardinality(Unclaimed(t)) + Cardinality(Uploading(t))
                   <= MaxAttachments + Cardinality(Client) - 1

\* Members that leave F may each bring one new member of U.
LEMMA Trade ==
  ASSUME NEW F, IsFiniteSet(F), NEW G \in SUBSET F, NEW U, IsFiniteSet(U), NEW g, NEW V,
         V \subseteq U \cup {g[c] : c \in F \ G}
  PROVE  /\ IsFiniteSet(V)
         /\ Cardinality(V) + Cardinality(G) <= Cardinality(U) + Cardinality(F)
<1> DEFINE L == F \ G
           T == {g[c] : c \in L}
           f == [c \in L |-> g[c]]
<1>1. IsFiniteSet(L) /\ IsFiniteSet(G) /\ Cardinality(F) = Cardinality(L) + Cardinality(G)
  <2>1. F \cap G = G
    OBVIOUS
  <2>2. IsFiniteSet(L) /\ Cardinality(L) = Cardinality(F) - Cardinality(G)
    BY <2>1, FS_Difference
  <2>3. IsFiniteSet(G)
    BY FS_Subset
  <2> HIDE DEF L
  <2> QED BY <2>2, <2>3, FS_CardinalityType
<1>2. IsFiniteSet(T) /\ Cardinality(T) <= Cardinality(L)
  <2>1. f \in Surjection(L, T)
    BY DEF Surjection
  <2> HIDE DEF f, T, L
  <2> QED BY <1>1, <2>1, FS_Surjection
<1> HIDE DEF T
<1>3. IsFiniteSet(U \cup T) /\ Cardinality(U \cup T) <= Cardinality(U) + Cardinality(T)
  <2>1. /\ IsFiniteSet(U \cup T)
        /\ Cardinality(U \cup T) = Cardinality(U) + Cardinality(T) - Cardinality(U \cap T)
    BY <1>2, FS_Union
  <2>2. Cardinality(U \cap T) \in Nat
    <3>1. IsFiniteSet(U \cap T)
      BY FS_Subset
    <3> QED BY <3>1, FS_CardinalityType
  <2>3. Cardinality(U) \in Nat /\ Cardinality(T) \in Nat
    BY <1>2, FS_CardinalityType
  <2> QED BY <2>1, <2>2, <2>3
<1>4. IsFiniteSet(V) /\ Cardinality(V) <= Cardinality(U \cup T)
  <2>1. V \in SUBSET (U \cup T)
    BY DEF T
  <2> QED BY <1>3, <2>1, FS_Subset
<1>5. /\ Cardinality(U) \in Nat /\ Cardinality(T) \in Nat /\ Cardinality(L) \in Nat
      /\ Cardinality(G) \in Nat /\ Cardinality(V) \in Nat /\ Cardinality(U \cup T) \in Nat
  BY <1>1, <1>2, <1>3, <1>4, FS_CardinalityType
<1> HIDE DEF L
<1> QED BY <1>1, <1>2, <1>3, <1>4, <1>5

LEMMA RoomSets ==
  ASSUME R!TypeOK, NEW t \in Txn
  PROVE  /\ IsFiniteSet(R!Attachments(t)) /\ IsFiniteSet(Unclaimed(t)) /\ IsFiniteSet(Uploading(t))
         /\ Unclaimed(t) \subseteq R!Attachments(t)
         /\ Cardinality(R!Attachments(t)) \in Nat /\ Cardinality(Unclaimed(t)) \in Nat
         /\ Cardinality(Uploading(t)) \in Nat /\ Cardinality(Uploading(t)) <= Cardinality(Client)
         /\ Cardinality(Client) \in Nat /\ MaxAttachments \in Nat \ {0}
<1>1. IsFiniteSet(Client) /\ MaxAttachments \in Nat \ {0}
  BY ConstantsHold
<1>2. /\ Uploading(t) \in SUBSET Client /\ R!Attachments(t) \in SUBSET DOMAIN rows
      /\ Unclaimed(t) \in SUBSET R!Attachments(t)
  BY DEF Uploading, R!Attachments, Unclaimed
<1>3. IsFiniteSet(R!Attachments(t))
  BY <1>2, RowsFinite, FS_Subset
<1>4. /\ IsFiniteSet(Unclaimed(t)) /\ IsFiniteSet(Uploading(t))
      /\ Cardinality(Uploading(t)) <= Cardinality(Client)
  BY <1>1, <1>2, <1>3, FS_Subset
<1> QED BY <1>1, <1>2, <1>3, <1>4, FS_CardinalityType

LEMMA RoomKept ==
  ASSUME RoomLeft, R!TypeOK,
         \A t \in Txn : /\ Uploading(t)' \subseteq Uploading(t)
                        /\ \E g : Unclaimed(t)' \subseteq
                                    Unclaimed(t) \cup {g[c] : c \in Uploading(t) \ Uploading(t)'}
  PROVE  RoomLeft'
<1> SUFFICES ASSUME NEW t \in Txn
             PROVE  Cardinality(Unclaimed(t)') + Cardinality(Uploading(t)')
                      <= MaxAttachments + Cardinality(Client) - 1
  BY DEF RoomLeft
<1> DEFINE F == Uploading(t)
           G == Uploading(t)'
           U == Unclaimed(t)
           V == Unclaimed(t)'
<1>1. PICK g : V \subseteq U \cup {g[c] : c \in F \ G}
  OBVIOUS
<1>2. G \in SUBSET F /\ IsFiniteSet(F) /\ IsFiniteSet(U)
  BY RoomSets
<1>3. Cardinality(U) + Cardinality(F) <= MaxAttachments + Cardinality(Client) - 1
  BY DEF RoomLeft
<1> HIDE DEF F, G, U, V
<1>4. /\ IsFiniteSet(V) /\ IsFiniteSet(G)
      /\ Cardinality(V) + Cardinality(G) <= Cardinality(U) + Cardinality(F)
  <2>1. IsFiniteSet(G)
    BY <1>2, FS_Subset
  <2>2. IsFiniteSet(V) /\ Cardinality(V) + Cardinality(G) <= Cardinality(U) + Cardinality(F)
    BY <1>1, <1>2, Trade
  <2> QED BY <2>1, <2>2
<1>5. /\ Cardinality(V) \in Nat /\ Cardinality(G) \in Nat /\ Cardinality(U) \in Nat
      /\ Cardinality(F) \in Nat /\ Cardinality(Client) \in Nat /\ MaxAttachments \in Nat
  BY <1>2, <1>4, RoomSets, FS_CardinalityType, ConstantsHold
<1>6. Cardinality(V) + Cardinality(G) <= MaxAttachments + Cardinality(Client) - 1
  BY <1>3, <1>4, <1>5
<1> QED BY <1>6 DEF V, G

LEMMA RoomCalm ==
  ASSUME Kept, RoomLeft, Calm
  PROVE  RoomLeft'
<1> SUFFICES ASSUME NEW t \in Txn
             PROVE  /\ Uploading(t)' \subseteq Uploading(t)
                    /\ \E g : Unclaimed(t)' \subseteq
                                Unclaimed(t) \cup {g[c] : c \in Uploading(t) \ Uploading(t)'}
  BY RoomKept DEF Kept
<1>1. ASSUME NEW d \in Uploading(t)' PROVE d \in Uploading(t) /\ requests'[d] = requests[d]
  BY <1>1, OthersStay DEF Uploading, Calm, Kept
<1> DEFINE g == [c \in Client |-> requests[c].replaces]
<1>2. ASSUME NEW i \in Unclaimed(t)', i \notin Unclaimed(t)
      PROVE  i \in {g[c] : c \in Uploading(t) \ Uploading(t)'}
  <2>1. i \in R!Attachments(t)
    BY <1>2 DEF Unclaimed, R!Attachments, Calm
  <2>2. PICK c \in Uploading(t) : requests[c].replaces = i
    BY <1>2, <2>1 DEF Unclaimed
  <2>3. c \notin Uploading(t)'
    BY <1>1, <1>2, <2>2 DEF Unclaimed
  <2>4. c \in Client /\ g[c] = i
    BY <2>2 DEF Uploading
  <2> HIDE DEF g
  <2> QED BY <2>2, <2>3, <2>4
<1>3. Unclaimed(t)' \subseteq Unclaimed(t) \cup {g[c] : c \in Uploading(t) \ Uploading(t)'}
  BY <1>2
<1> HIDE DEF g
<1> QED BY <1>1, <1>3

LEMMA RoomCommit ==
  ASSUME Kept, RoomLeft, NEW c \in Client, R!CommitUpload(c), R!NewId(rows) \notin DOMAIN rows
  PROVE  RoomLeft'
<1> DEFINE q == requests[c]
           id == R!NewId(rows)
           row == [txn |-> q.txn, key |-> q.key]
<1>1. /\ R!Kind(c) = "written" /\ ~Uploads(c)'
      /\ \A d \in Client \ {c} : requests'[d] = requests[d]
      /\ \/ rows' = rows
         \/ rows' = R!Without(R!Put(rows, id, row), {q.replaces})
  BY CommitShape
<1>2. \A d \in Client \ {c} : Uploads(d)' = Uploads(d)
  BY <1>1, OthersStay DEF Kept
<1> SUFFICES ASSUME NEW t \in Txn
             PROVE  /\ Uploading(t)' \subseteq Uploading(t)
                    /\ \E g : Unclaimed(t)' \subseteq
                                Unclaimed(t) \cup {g[d] : d \in Uploading(t) \ Uploading(t)'}
  BY RoomKept DEF Kept
<1>3. Uploading(t)' = Uploading(t) \ {c} /\ (q.txn = t => c \in Uploading(t))
  BY <1>1, <1>2 DEF Uploading, Uploads
<1>4. \A i \in Unclaimed(t)' : \A d \in Uploading(t) \ {c} : requests[d].replaces # i
  BY <1>1, <1>3 DEF Unclaimed, Uploading
<1>5. CASE rows' = rows
  <2> DEFINE g == [d \in Client |-> requests[d].replaces]
  <2>1. ASSUME NEW i \in Unclaimed(t)', i \notin Unclaimed(t)
        PROVE  c \in Uploading(t) /\ g[c] = i
    BY <1>4, <1>5, <2>1 DEF Unclaimed, R!Attachments
  <2> HIDE DEF g
  <2> QED BY <1>3, <2>1
<1>6. CASE rows' = R!Without(R!Put(rows, id, row), {q.replaces})
  <2> DEFINE g == [d \in Client |-> id]
  <2>1. /\ DOMAIN rows' = (DOMAIN rows \cup {id}) \ {q.replaces}
        /\ \A i \in DOMAIN rows' : rows'[i] = IF i = id THEN row ELSE rows[i]
    <3> HIDE DEF row
    <3> QED BY <1>6, CommitRows
  <2>2. ASSUME NEW i \in Unclaimed(t)', i \notin Unclaimed(t)
        PROVE  c \in Uploading(t) /\ g[c] = i
    <3>1. i \in DOMAIN rows' /\ rows'[i].txn = t /\ i # q.replaces
      BY <2>1 DEF Unclaimed, R!Attachments
    <3>2. CASE i = id
      BY <1>3, <2>1, <3>1, <3>2
    <3>3. CASE i # id
      <4>1. i \in R!Attachments(t)
        BY <2>1, <3>1, <3>3 DEF R!Attachments
      <4>2. \A d \in Uploading(t) : requests[d].replaces # i
        BY <1>4, <3>1
      <4> QED BY <2>2, <4>1, <4>2 DEF Unclaimed
    <3> QED BY <3>2, <3>3
  <2> HIDE DEF g
  <2> QED BY <1>3, <2>2
<1> QED BY <1>1, <1>5, <1>6

LEMMA RoomWrite ==
  ASSUME Kept, RoomLeft, NEW c \in Client, R!WriteFile(c)
  PROVE  RoomLeft'
<1>1. /\ R!Kind(c) = "upload" /\ R!Kind(c)' = "written" /\ rows' = rows
      /\ requests'[c].txn = requests[c].txn /\ requests'[c].replaces = requests[c].replaces
      /\ \A d \in Client \ {c} : requests'[d] = requests[d]
  BY WriteShape
<1>2. \A d \in Client : requests'[d].txn = requests[d].txn
                        /\ requests'[d].replaces = requests[d].replaces
  BY <1>1
<1>3. \A d \in Client : Uploads(d)' = Uploads(d)
  BY <1>1, OthersStay DEF Kept, Uploads
<1> SUFFICES ASSUME NEW t \in Txn
             PROVE  Uploading(t)' = Uploading(t) /\ Unclaimed(t)' = Unclaimed(t)
  BY DEF RoomLeft
<1>4. Uploading(t)' = Uploading(t)
  BY <1>2, <1>3 DEF Uploading
<1>5. R!Attachments(t)' = R!Attachments(t)
  BY <1>1 DEF R!Attachments
<1>6. \A i : (\A d \in Uploading(t)' : requests'[d].replaces # i)
                <=> (\A d \in Uploading(t) : requests[d].replaces # i)
  BY <1>2, <1>4 DEF Uploading
<1> QED BY <1>4, <1>5, <1>6 DEF Unclaimed

LEMMA RoomBegin ==
  ASSUME Kept, Kept', RoomLeft, NEW c \in Client, NEW u \in Txn, NEW j \in R!Id \cup {Null},
         R!BeginUpload(c, u, j)
  PROVE  RoomLeft'
<1> DEFINE r == [kind |-> "upload", txn |-> u, replaces |-> j, key |-> Null,
                 old |-> IF j = Null THEN Null ELSE rows[j].key]
<1>1. /\ R!Idle(c) /\ R!Becomes(c, r) /\ rows' = rows /\ r.txn = u /\ r.replaces = j
      /\ r.kind = "upload"
      /\ j # Null => j \in R!Attachments(u)
      /\ R!Occupied(u, j) < MaxAttachments
  BY DEF R!BeginUpload, R!database
<1> HIDE DEF r
<1>2. requests'[c] = r /\ \A d \in Client \ {c} : requests'[d] = requests[d]
  BY <1>1 DEF R!Becomes, Kept, RequestsOK
<1>3. \A d \in Client \ {c} : Uploads(d)' = Uploads(d)
  BY <1>2, OthersStay DEF Kept
<1>4. ~Uploads(c)
  BY <1>1 DEF R!Kind, Uploads
<1> SUFFICES ASSUME NEW t \in Txn
             PROVE  Cardinality(Unclaimed(t)') + Cardinality(Uploading(t)')
                      <= MaxAttachments + Cardinality(Client) - 1
  BY DEF RoomLeft
<1>5. R!Attachments(t)' = R!Attachments(t)
  BY <1>1 DEF R!Attachments
<1>6. CASE t # u
  <2>1. Uploading(t)' = Uploading(t)
    BY <1>1, <1>2, <1>3, <1>4, <1>6 DEF Uploading
  <2>2. Unclaimed(t)' = Unclaimed(t)
    <3>1. \A d \in Uploading(t) : d # c /\ d \in Client
      BY <1>4 DEF Uploading
    <3> QED BY <1>2, <1>5, <2>1, <3>1 DEF Unclaimed
  <2> QED BY <2>1, <2>2 DEF RoomLeft
<1>7. CASE t = u
  <2> DEFINE a == Cardinality(R!Attachments(t))
             v == Cardinality(Unclaimed(t)')
             g == Cardinality(Uploading(t)')
             n == Cardinality(Client)
  <2>1. /\ IsFiniteSet(R!Attachments(t)) /\ a \in Nat /\ v \in Nat /\ g \in Nat /\ g <= n
        /\ n \in Nat /\ MaxAttachments \in Nat
    <3>1. /\ IsFiniteSet(R!Attachments(t)) /\ a \in Nat /\ n \in Nat /\ MaxAttachments \in Nat
      BY RoomSets DEF Kept
    <3>2. v \in Nat /\ g \in Nat /\ g <= n
      <4>1. Uploading(t)' \in SUBSET Client /\ Unclaimed(t)' \in SUBSET R!Attachments(t)
        BY <1>5 DEF Uploading, Unclaimed
      <4>2. IsFiniteSet(Client)
        BY ConstantsHold
      <4> QED BY <3>1, <4>1, <4>2, FS_Subset, FS_CardinalityType
    <3> QED BY <3>1, <3>2
  <2>2. v <= MaxAttachments - 1
    <3>1. CASE j = Null
      <4>1. a < MaxAttachments
        BY <1>1, <1>7, <2>1, <3>1 DEF R!Occupied, R!Cardinality, Cardinality
      <4>2. Unclaimed(t)' \in SUBSET R!Attachments(t)
        BY <1>5 DEF Unclaimed
      <4>3. v <= a
        BY <2>1, <4>2, FS_Subset
      <4> QED BY <2>1, <4>1, <4>3
    <3>2. CASE j # Null
      <4>1. a - 1 < MaxAttachments /\ j \in R!Attachments(t)
        BY <1>1, <1>7, <3>2 DEF R!Occupied, R!Cardinality, Cardinality
      <4>2. IsFiniteSet(R!Attachments(t) \ {j}) /\ Cardinality(R!Attachments(t) \ {j}) = a - 1
        BY <2>1, <4>1, FS_RemoveElement
      <4>3. c \in Uploading(t)' /\ requests'[c].replaces = j
        <5>1. R!Kind(c)' = "upload"
          <6>1. r # Null
            <7>1. r \in R!Request
              <8>1. j # Null => rows[j].key \in R!Key
                BY <1>1 DEF R!Attachments, Kept, R!TypeOK
              <8>2. (IF j = Null THEN Null ELSE rows[j].key) \in R!Key \cup {Null}
                BY <8>1
              <8> QED BY <8>2 DEF r, R!Request
            <7> QED BY <7>1, ConstantsHold
          <6> QED BY <1>1, <1>2, <6>1 DEF R!Kind, R!Idle
        <5> QED BY <1>1, <1>2, <1>7, <5>1 DEF Uploading, Uploads
      <4>4. Unclaimed(t)' \in SUBSET (R!Attachments(t) \ {j})
        BY <1>5, <4>3 DEF Unclaimed
      <4>5. v <= a - 1
        BY <4>2, <4>4, FS_Subset
      <4> HIDE DEF a, v
      <4> QED BY <2>1, <4>1, <4>5
    <3> QED BY <3>1, <3>2
  <2>3. v + g <= MaxAttachments + n - 1
    <3> HIDE DEF a, v, g, n
    <3> QED BY <2>1, <2>2
  <2> QED BY <2>3
<1> QED BY <1>6, <1>7

LEMMA RoomStep ==
  ASSUME Kept, Kept', Counted, RoomLeft, R!Next
  PROVE  RoomLeft'
<1>1. ASSUME NEW c \in Client, R!CommitUpload(c) PROVE RoomLeft'
  <2>1. R!NewId(rows) \notin DOMAIN rows
    BY <1>1, CommitShape, NewIdFits
  <2> QED BY <1>1, <2>1, RoomCommit
<1> QED BY <1>1, CalmSteps, RoomCalm, RoomWrite, RoomBegin

\* The limit follows.
LEMMA RoomIsLimit ==
  ASSUME Kept, RoomLeft
  PROVE  R!LimitHolds
<1> SUFFICES ASSUME NEW t \in Txn
             PROVE  Cardinality(R!Attachments(t)) <= MaxAttachments + Cardinality(Client) - 1
  BY DEF R!LimitHolds, R!Cardinality, Cardinality
<1> DEFINE F == Uploading(t)
           U == Unclaimed(t)
           A == R!Attachments(t)
           g == [c \in Client |-> requests[c].replaces]
<1>1. ASSUME NEW i \in A, i \notin U PROVE i \in {g[c] : c \in F \ {}}
  <2>1. PICK c \in F : requests[c].replaces = i
    BY <1>1 DEF Unclaimed
  <2>2. g[c] = i
    BY <2>1 DEF Uploading
  <2> HIDE DEF g, F
  <2> QED BY <2>1, <2>2
<1>2. A \subseteq U \cup {g[c] : c \in F \ {}} /\ {} \in SUBSET F
  BY <1>1
<1>3. IsFiniteSet(U) /\ IsFiniteSet(F) /\ IsFiniteSet(A)
  BY RoomSets DEF Kept
<1>4. Cardinality(U) + Cardinality(F) <= MaxAttachments + Cardinality(Client) - 1
  BY DEF RoomLeft
<1>5. /\ Cardinality(Client) \in Nat /\ MaxAttachments \in Nat /\ Cardinality(A) \in Nat
      /\ Cardinality(U) \in Nat /\ Cardinality(F) \in Nat
  BY RoomSets DEF Kept
<1> HIDE DEF F, U, A, g
<1>6. Cardinality(A) + Cardinality({}) <= Cardinality(U) + Cardinality(F)
  BY <1>2, <1>3, Trade
<1>7. Cardinality({}) = 0
  BY FS_EmptySet
<1>8. Cardinality(A) <= MaxAttachments + Cardinality(Client) - 1
  BY <1>4, <1>5, <1>6, <1>7
<1> QED BY <1>8 DEF A

-----------------------------------------------------------------------------
\* Steps that touch no row, file or thumbnail and end no upload that has written and no
\* removal; a removal that begins has all its thumbnails to unlink.
Plain ==
  /\ UNCHANGED <<rows, files, thumbs, slips>> /\ asked \subseteq asked'
  /\ \A d \in Client :
       /\ R!Kind(d) = "written" => R!Kind(d)' = "written" /\ requests'[d] = requests[d]
       /\ R!Unlinks(d) => R!Unlinks(d)' /\ requests'[d] = requests[d]
       /\ R!Unlinks(d)' /\ ~R!Unlinks(d) => requests'[d].thumbs = requests'[d].ids

LEMMA PlainRequests ==
  ASSUME Kept, NEW c \in Client, NEW r, R!Becomes(c, r),
         R!Kind(c) \in {"none", "upload", "purging", "thumbnail"},
         r = Null \/ r.kind \in {"upload", "purging", "thumbnail"} \/ r.thumbs = r.ids,
         UNCHANGED <<rows, files, thumbs, slips>>, asked \subseteq asked'
  PROVE  Plain
<1>1. requests'[c] = r /\ \A d \in Client \ {c} : requests'[d] = requests[d]
  BY DEF R!Becomes, Kept, RequestsOK
<1>2. \A d \in Client \ {c} : R!Kind(d)' = R!Kind(d) /\ R!Unlinks(d)' = R!Unlinks(d)
  BY <1>1, OthersStay DEF Kept
<1>3. R!Kind(c) # "written" /\ ~R!Unlinks(c)
  BY DEF R!Unlinks
<1>4. R!Unlinks(c)' => r.thumbs = r.ids
  BY <1>1 DEF R!Unlinks, R!Kind, R!Idle
<1> QED BY <1>1, <1>2, <1>3, <1>4 DEF Plain

LEMMA PlainSteps ==
  ASSUME Kept, R!Next
  PROVE  \/ Plain \/ R!Stop
         \/ \E c \in Client : \/ R!WriteFile(c) \/ R!CommitUpload(c) \/ R!UnlinkFile(c)
                              \/ R!UnlinkThumb(c) \/ R!Finish(c) \/ R!PlaceThumbnail(c)
<1>1. ASSUME NEW c \in Client, R!RefuseFile(c) \/ R!RefuseThumbnail(c) PROVE Plain
  <2>1. /\ R!Becomes(c, Null) /\ R!Kind(c) \in {"upload", "thumbnail"}
        /\ UNCHANGED <<rows, files, thumbs, slips, asked>>
    BY <1>1 DEF R!RefuseFile, R!RefuseThumbnail, R!Ends, R!database, R!disk, R!history
  <2> QED BY <2>1, PlainRequests
<1>2. ASSUME NEW c \in Client, NEW t \in Txn, R!BeginPurge(c, t) PROVE Plain
  <2> DEFINE r == [kind |-> "purging", txn |-> t]
  <2>1. /\ R!Becomes(c, r) /\ R!Kind(c) = "none" /\ r.kind = "purging"
        /\ UNCHANGED <<rows, files, thumbs, slips, asked>>
    BY <1>2 DEF R!BeginPurge, R!database, R!disk, R!history, R!Kind
  <2> HIDE DEF r
  <2> QED BY <2>1, PlainRequests
<1>3. ASSUME NEW c \in Client, NEW id \in R!Id, R!BeginThumbnail(c, id) PROVE Plain
  <2> DEFINE r == [kind |-> "thumbnail", id |-> id, key |-> rows[id].key]
  <2>1. /\ R!Becomes(c, r) /\ R!Kind(c) = "none" /\ r.kind = "thumbnail"
        /\ UNCHANGED <<rows, files, thumbs, slips, asked>>
    BY <1>3 DEF R!BeginThumbnail, R!database, R!disk, R!history, R!Kind
  <2> HIDE DEF r
  <2> QED BY <2>1, PlainRequests
<1>4. ASSUME NEW c \in Client, NEW t \in Txn, NEW i \in R!Id \cup {Null}, R!BeginUpload(c, t, i)
      PROVE  Plain
  <2> DEFINE r == [kind |-> "upload", txn |-> t, replaces |-> i, key |-> Null,
                   old |-> IF i = Null THEN Null ELSE rows[i].key]
  <2>1. /\ R!Becomes(c, r) /\ R!Kind(c) = "none" /\ r.kind = "upload"
        /\ UNCHANGED <<rows, files, thumbs, slips, asked>>
    BY <1>4 DEF R!BeginUpload, R!database, R!disk, R!history, R!Kind
  <2> HIDE DEF r
  <2> QED BY <2>1, PlainRequests
<1>5. ASSUME NEW c \in Client, NEW id \in R!Id, R!BeginDelete(c, id) PROVE Plain
  <2> DEFINE r == R!Unlinking("delete", rows[id].txn, {id}, R!KeysOf({id}))
  <2>1. /\ R!Becomes(c, r) /\ R!Kind(c) = "none" /\ r.thumbs = r.ids
        /\ UNCHANGED <<rows, files, thumbs, slips>> /\ asked \subseteq asked'
    BY <1>5 DEF R!BeginDelete, R!database, R!disk, R!Unlinking, R!ThumbsOf, R!Kind
  <2> HIDE DEF r
  <2> QED BY <2>1, PlainRequests
<1>6. ASSUME NEW c \in Client, R!LockPurge(c) PROVE Plain
  <2> DEFINE ids == R!Attachments(requests[c].txn)
             r == R!Unlinking("purge", requests[c].txn, ids, R!KeysOf(ids))
  <2>1. /\ R!Becomes(c, r) /\ R!Kind(c) = "purging" /\ r.thumbs = r.ids
        /\ UNCHANGED <<rows, files, thumbs, slips>> /\ asked \subseteq asked'
    BY <1>6 DEF R!LockPurge, R!disk, R!Unlinking, R!ThumbsOf
  <2> HIDE DEF r
  <2> QED BY <2>1, PlainRequests
<1>7. ASSUME NEW t \in Txn, R!Trash(t) \/ R!Restore(t) PROVE Plain
  <2>1. UNCHANGED <<rows, files, thumbs, requests, slips, asked>>
    BY <1>7 DEF R!Trash, R!Restore, R!disk, R!history
  <2>2. \A d \in Client : R!Kind(d)' = R!Kind(d) /\ R!Unlinks(d)' = R!Unlinks(d)
    BY <2>1, OthersStay DEF Kept
  <2> QED BY <2>1, <2>2 DEF Plain
<1> QED BY <1>1, <1>2, <1>3, <1>4, <1>5, <1>6, <1>7 DEF R!Next

-----------------------------------------------------------------------------
(* Every row has its file.                                                 *)

LEMMA FiledStep ==
  ASSUME Kept, Counted, R!RowsHaveFiles, R!Next
  PROVE  R!RowsHaveFiles'
<1>1. \A i \in DOMAIN rows : rows[i].key \in files \/ rows[i].key \in asked
  BY DEF R!RowsHaveFiles, R!Exportable
<1> SUFFICES ASSUME NEW i \in DOMAIN rows'
             PROVE  rows'[i].key \in files' \/ rows'[i].key \in asked'
  BY DEF R!RowsHaveFiles, R!Exportable
<1>2. CASE Plain
  BY <1>1, <1>2 DEF Plain
<1>3. CASE R!Stop
  BY <1>1, <1>3 DEF R!Stop, R!disk
<1>4. ASSUME NEW c \in Client, R!WriteFile(c)
      PROVE  rows'[i].key \in files' \/ rows'[i].key \in asked'
  BY <1>1, <1>4 DEF R!WriteFile, R!database, R!history
<1>5. ASSUME NEW c \in Client, R!CommitUpload(c)
      PROVE  rows'[i].key \in files' \/ rows'[i].key \in asked'
  <2> DEFINE q == requests[c]
             id == R!NewId(rows)
             row == [txn |-> q.txn, key |-> q.key]
  <2>1. R!Kind(c) = "written" /\ asked' = asked
    BY <1>5 DEF R!CommitUpload
  <2>2. q.key \in files /\ \A j \in DOMAIN rows : rows[j].key # q.key
    BY <2>1 DEF Kept, Remembers, WrittenOK
  <2>3. CASE ~R!Insertable(q.txn)
    <3>1. files' = files \ {q.key} /\ rows' = rows
      BY <1>5, <2>3 DEF R!CommitUpload, R!AfterFailure
    <3> QED BY <1>1, <2>1, <2>2, <3>1
  <2>4. CASE R!Insertable(q.txn)
    <3>1. files' = files /\ rows' = R!Without(R!Put(rows, id, row), {q.replaces})
      BY <1>5, <2>4 DEF R!CommitUpload
    <3>2. id \notin DOMAIN rows /\ row.key = q.key
      BY <2>1, NewIdFits
    <3> HIDE DEF row
    <3>3. /\ DOMAIN rows' = (DOMAIN rows \cup {id}) \ {q.replaces}
          /\ \A j \in DOMAIN rows' : rows'[j] = IF j = id THEN row ELSE rows[j]
      BY <3>1, <3>2, CommitRows
    <3> HIDE DEF q, id
    <3> QED BY <1>1, <2>1, <2>2, <3>1, <3>2, <3>3
  <2> QED BY <2>3, <2>4
<1>6. ASSUME NEW c \in Client, R!UnlinkFile(c)
      PROVE  rows'[i].key \in files' \/ rows'[i].key \in asked'
  <2> DEFINE q == requests[c]
  <2>1. PICK j \in DOMAIN q.files : files' = files \ {q.files[j]}
    BY <1>6 DEF R!UnlinkFile
  <2>2. R!Unlinks(c) /\ UNCHANGED <<rows, asked>>
    BY <1>6 DEF R!UnlinkFile, R!database, R!history
  <2>3. UnlinkOK(c)
    BY <2>2, RemovalShape
  <2>4. q.files[j] \in R!Range(q.keys)
    BY <2>2, <2>3 DEF UnlinkOK, R!Range
  <2>5. q.files[j] \in asked \/ \A k \in DOMAIN rows : rows[k].key # q.files[j]
    BY <2>2, <2>3, <2>4 DEF UnlinkOK
  <2> QED BY <1>1, <2>1, <2>2, <2>5
<1>7. ASSUME NEW c \in Client, R!UnlinkThumb(c) \/ R!PlaceThumbnail(c)
      PROVE  rows'[i].key \in files' \/ rows'[i].key \in asked'
  BY <1>1, <1>7 DEF R!UnlinkThumb, R!PlaceThumbnail, R!database, R!history
<1>8. ASSUME NEW c \in Client, R!Finish(c)
      PROVE  rows'[i].key \in files' \/ rows'[i].key \in asked'
  <2>1. /\ UNCHANGED <<files, asked>>
        /\ rows' = rows \/ rows' = R!Without(rows, requests[c].ids)
    BY <1>8 DEF R!Finish, R!disk, R!database
  <2>2. i \in DOMAIN rows /\ rows'[i] = rows[i]
    BY <2>1 DEF R!Without, R!Restrict
  <2> QED BY <1>1, <2>1, <2>2
<1> QED BY <1>2, <1>3, <1>4, <1>5, <1>6, <1>7, <1>8, PlainSteps

-----------------------------------------------------------------------------
(* No file is left behind.                                                 *)

Owned(key) ==
  \/ \E i \in DOMAIN rows : rows[i].key = key
  \/ \E d \in Client : R!Kind(d) = "written" /\ requests[d].key = key
  \/ \E d \in Client : R!Unlinks(d) /\ key \in R!Range(requests[d].files)

\* What other requests and untouched rows own stays owned.
LEMMA OwnedByOthers ==
  ASSUME Kept, NEW c \in Client, \A d \in Client \ {c} : requests'[d] = requests[d], NEW key,
         Owned(key),
         \A i \in DOMAIN rows : rows[i].key = key => i \in DOMAIN rows' /\ rows'[i].key = key,
         ~R!Unlinks(c) \/ key \notin R!Range(requests[c].files),
         R!Kind(c) = "written" => requests[c].key # key
  PROVE  Owned(key)'
<1>1. \A d \in Client \ {c} : R!Kind(d)' = R!Kind(d) /\ R!Unlinks(d)' = R!Unlinks(d)
  BY OthersStay DEF Kept
<1>2. ASSUME NEW i \in DOMAIN rows, rows[i].key = key PROVE Owned(key)'
  BY <1>2 DEF Owned
<1>3. ASSUME NEW d \in Client, R!Kind(d) = "written", requests[d].key = key PROVE Owned(key)'
  BY <1>1, <1>3 DEF Owned
<1>4. ASSUME NEW d \in Client, R!Unlinks(d), key \in R!Range(requests[d].files) PROVE Owned(key)'
  BY <1>1, <1>4 DEF Owned
<1> QED BY <1>2, <1>3, <1>4 DEF Owned

LEMMA OrphansStep ==
  ASSUME Kept, Kept', Counted, R!NoOrphans, R!Next
  PROVE  R!NoOrphans'
<1> SUFFICES ASSUME slips' \cap {"stop", "reused id"} = {}, NEW key \in files'
             PROVE  Owned(key)'
  BY DEF R!NoOrphans, Owned
<1>0. slips \subseteq slips'
  <2>1. CASE Plain \/ R!Stop
    BY <2>1 DEF Plain, R!Stop
  <2>2. CASE \E c \in Client : \/ R!WriteFile(c) \/ R!CommitUpload(c) \/ R!UnlinkFile(c)
                               \/ R!UnlinkThumb(c) \/ R!Finish(c) \/ R!PlaceThumbnail(c)
    BY <2>2 DEF R!WriteFile, R!CommitUpload, R!UnlinkFile, R!UnlinkThumb, R!Finish,
                R!PlaceThumbnail, R!history
  <2> QED BY <2>1, <2>2, PlainSteps
<1>1. ASSUME key \in files PROVE Owned(key)
  BY <1>0, <1>1 DEF R!NoOrphans, Owned
<1>2. CASE Plain
  <2>1. key \in files
    BY <1>2 DEF Plain
  <2> QED BY <1>1, <1>2, <2>1 DEF Plain, Owned
<1>3. ASSUME R!Stop PROVE FALSE
  BY <1>3 DEF R!Stop
<1>4. ASSUME NEW c \in Client, R!WriteFile(c) PROVE Owned(key)'
  <2>1. /\ R!Kind(c) = "upload" /\ R!Kind(c)' = "written" /\ requests'[c].key = uploads + 1
        /\ \A d \in Client \ {c} : requests'[d] = requests[d]
        /\ rows' = rows /\ files' = files \cup {uploads + 1}
    BY <1>4, WriteShape
  <2>2. CASE key \in files
    <3>1. ~R!Unlinks(c) /\ R!Kind(c) # "written"
      BY <2>1 DEF R!Unlinks
    <3> QED BY <1>1, <2>1, <2>2, <3>1, OwnedByOthers
  <2>3. CASE key = uploads + 1
    BY <2>1, <2>3 DEF Owned
  <2> QED BY <2>1, <2>2, <2>3
<1>5. ASSUME NEW c \in Client, R!CommitUpload(c) PROVE Owned(key)'
  <2> DEFINE q == requests[c]
             id == R!NewId(rows)
             row == [txn |-> q.txn, key |-> q.key]
             inserted == R!Put(rows, id, row)
  <2>1. R!Kind(c) = "written" /\ ~R!Unlinks(c)
    BY <1>5 DEF R!CommitUpload, R!Unlinks
  <2>2. \A d \in Client \ {c} : requests'[d] = requests[d]
    BY <1>5, CommitShape
  <2>3. CASE ~R!Insertable(q.txn)
    <3>1. files' = files \ {q.key} /\ rows' = rows
      BY <1>5, <2>3 DEF R!CommitUpload, R!AfterFailure
    <3> QED BY <1>1, <2>1, <2>2, <3>1, OwnedByOthers
  <2>4. CASE R!Insertable(q.txn)
    <3>1. /\ files' = files /\ rows' = R!Without(inserted, {q.replaces})
          /\ slips' = slips \cup {"reused id" : i \in {i \in DOMAIN inserted :
                                                   i = q.replaces /\ inserted[i].key # q.old}}
                            \cup {"early id" : i \in {i \in {id} : R!Removing(i)}}
      BY <1>5, <2>4 DEF R!CommitUpload
    <3>2. id \in R!Id \ DOMAIN rows /\ row.key = q.key
      BY <2>1, NewIdFits
    <3>3. /\ DOMAIN inserted = DOMAIN rows \cup {id}
          /\ \A i \in DOMAIN inserted : inserted[i] = IF i = id THEN row ELSE rows[i]
      <4> HIDE DEF row, id
      <4> QED BY DEF R!Put
    <3>4. /\ DOMAIN rows' = (DOMAIN rows \cup {id}) \ {q.replaces}
          /\ \A i \in DOMAIN rows' : rows'[i] = IF i = id THEN row ELSE rows[i]
      <4> HIDE DEF row
      <4> QED BY <3>1, <3>2, CommitRows
    <3>5. ASSUME NEW i \in DOMAIN inserted, i = q.replaces PROVE inserted[i].key = q.old
      <4> SUFFICES ASSUME inserted[i].key # q.old PROVE FALSE
        OBVIOUS
      <4> HIDE DEF inserted, id
      <4> QED BY <3>1, <3>5
    <3>6. q.key # q.old
      BY <2>1 DEF Kept, Remembers, WrittenOK
    <3>7. id # q.replaces
      <4> HIDE DEF row, id, inserted, q
      <4> QED BY <3>2, <3>3, <3>5, <3>6
    <3> HIDE DEF inserted
    <3>8. CASE key = q.key
      <4>1. id \in DOMAIN rows' /\ rows'[id].key = key
        <5> HIDE DEF row, id, q
        <5> QED BY <3>2, <3>4, <3>7, <3>8
      <4> QED BY <4>1 DEF Owned
    <3>9. CASE key # q.key /\ ~\E i \in DOMAIN rows : rows[i].key = key /\ i = q.replaces
      <4>1. \A i \in DOMAIN rows : rows[i].key = key => i \in DOMAIN rows' /\ rows'[i].key = key
        <5> HIDE DEF row, id, q
        <5> QED BY <3>2, <3>4, <3>9
      <4> QED BY <1>1, <2>1, <2>2, <3>1, <3>9, <4>1, OwnedByOthers
    <3>10. CASE \E i \in DOMAIN rows : rows[i].key = key /\ i = q.replaces
      <4>1. q.replaces \in DOMAIN rows /\ rows[q.replaces].key = key
        BY <3>10
      <4>2. key = q.old
        <5> HIDE DEF row, id, q
        <5> QED BY <3>2, <3>3, <3>5, <4>1
      <4>3. q.replaces \notin {Null, id}
        BY <3>7, <4>1, RowsFinite, ConstantsHold DEF Kept
      <4>4. R!Unlinks(c)' /\ q.old \in R!Range(requests'[c].files)
        BY <1>5, <2>4, <4>3, ReplaceShape
      <4> QED BY <4>2, <4>4 DEF Owned
    <3> QED BY <3>8, <3>9, <3>10
  <2> QED BY <2>3, <2>4
<1>6. ASSUME NEW c \in Client, R!UnlinkFile(c) \/ R!UnlinkThumb(c) PROVE Owned(key)'
  <2>1. /\ R!Unlinks(c) /\ R!Unlinks(c)' /\ R!Kind(c) # "written" /\ rows' = rows
        /\ \A d \in Client \ {c} : requests'[d] = requests[d]
        /\ \/ \E k \in R!Range(requests[c].files) :
                /\ files' = files \ {k}
                /\ R!Range(requests[c].files) \subseteq R!Range(requests'[c].files) \cup {k}
           \/ files' = files /\ requests'[c].files = requests[c].files
    BY <1>6, UnlinkShape
  <2>2. CASE key \in R!Range(requests[c].files)
    BY <2>1, <2>2 DEF Owned
  <2>3. CASE key \notin R!Range(requests[c].files)
    <3>1. key \in files
      BY <2>1
    <3> QED BY <1>1, <2>1, <2>3, <3>1, OwnedByOthers
  <2> QED BY <2>2, <2>3
<1>8. ASSUME NEW c \in Client, R!Finish(c) PROVE Owned(key)'
  <2> DEFINE q == requests[c]
  <2>1. /\ R!Unlinks(c) /\ R!Kind(c) = q.kind /\ files' = files /\ DOMAIN q.files = {}
        /\ \A d \in Client \ {c} : requests'[d] = requests[d]
    BY <1>8, FinishShape
  <2>3. UnlinkOK(c) /\ PurgeOK(c) /\ R!Kind(c) # "written"
    BY <2>1, RemovalShape DEF R!Unlinks
  <2>4. \A i \in q.ids : q.keys[i] \notin files
    BY <2>1, <2>3 DEF UnlinkOK
  <2>5. \A i \in DOMAIN rows : rows[i].key = key => i \in DOMAIN rows' /\ rows'[i].key = key
    <3>1. CASE q.kind = "replace"
      BY <1>8, <3>1 DEF R!Finish, R!database
    <3>2. CASE q.kind \in {"delete", "purge"}
      <4>1. rows' = R!Without(rows, q.ids)
        BY <1>8, <3>2 DEF R!Finish
      <4>2. DOMAIN rows' = DOMAIN rows \ q.ids /\ \A i \in DOMAIN rows' : rows'[i] = rows[i]
        BY <4>1 DEF R!Without, R!Restrict
      <4>3. ASSUME NEW i \in DOMAIN rows, i \in q.ids PROVE rows[i].key = q.keys[i]
        <5>1. CASE q.kind = "purge"
          BY <2>1, <2>3, <4>3, <5>1 DEF PurgeOK
        <5>2. CASE q.kind = "delete"
          <6>1. slips' = slips \cup {"reused id" : id \in {id \in q.ids \cap DOMAIN rows :
                                                             rows[id].key # q.keys[id]}}
            BY <1>8, <5>2 DEF R!Finish
          <6> QED BY <4>3, <6>1
        <5> QED BY <3>2, <5>1, <5>2
      <4> QED BY <2>1, <2>4, <4>2, <4>3
    <3> QED BY <2>1, <2>3, <3>1, <3>2 DEF R!Unlinks
  <2>6. key \notin R!Range(q.files)
    BY <2>1 DEF R!Range
  <2> QED BY <1>1, <2>1, <2>3, <2>5, <2>6, OwnedByOthers
<1>9. ASSUME NEW c \in Client, R!PlaceThumbnail(c) PROVE Owned(key)'
  <2>1. /\ R!Becomes(c, Null) /\ UNCHANGED <<rows, files>> /\ ~R!Unlinks(c) /\ R!Kind(c) # "written"
    BY <1>9 DEF R!PlaceThumbnail, R!Ends, R!database, R!Unlinks
  <2>2. \A d \in Client \ {c} : requests'[d] = requests[d]
    BY <2>1 DEF R!Becomes, Kept, RequestsOK
  <2> QED BY <1>1, <2>1, <2>2, OwnedByOthers
<1> QED BY <1>2, <1>3, <1>4, <1>5, <1>6, <1>8, <1>9, PlainSteps

-----------------------------------------------------------------------------
(* Thumbnails are those of their rows.                                     *)

\* A thumbnail without a row is about to be unlinked, and what was unlinked has none.
ThumbsGo ==
  slips \cap {"stop", "late thumbnail", "early id"} = {} =>
    /\ \A i \in DOMAIN thumbs \ DOMAIN rows :
         \E d \in Client : R!Unlinks(d) /\ i \in requests[d].thumbs
    /\ \A d \in Client : R!Unlinks(d) =>
         \A i \in requests[d].ids \ requests[d].thumbs : i \notin DOMAIN thumbs

LEMMA ThumbsStep ==
  ASSUME Kept, Kept', Counted, ThumbsGo, R!ThumbnailsMatch, R!Next
  PROVE  ThumbsGo' /\ R!ThumbnailsMatch'
<1> SUFFICES ASSUME slips' \cap {"stop", "late thumbnail", "early id"} = {}
             PROVE  /\ \A i \in DOMAIN thumbs' \ DOMAIN rows' :
                         \E d \in Client : R!Unlinks(d)' /\ i \in requests'[d].thumbs
                    /\ \A d \in Client : R!Unlinks(d)' =>
                         \A i \in requests'[d].ids \ requests'[d].thumbs : i \notin DOMAIN thumbs'
                    /\ \A i \in DOMAIN rows' \cap DOMAIN thumbs' : thumbs'[i] = rows'[i].key
  BY DEF ThumbsGo, R!ThumbnailsMatch
<1> DEFINE A == \A i \in DOMAIN thumbs \ DOMAIN rows :
                  \E d \in Client : R!Unlinks(d) /\ i \in requests[d].thumbs
           B == \A d \in Client : R!Unlinks(d) =>
                  \A i \in requests[d].ids \ requests[d].thumbs : i \notin DOMAIN thumbs
           C == \A i \in DOMAIN rows \cap DOMAIN thumbs : thumbs[i] = rows[i].key
           N == \A i \in DOMAIN thumbs' \ DOMAIN rows' :
                  \E d \in Client : R!Unlinks(d)' /\ i \in requests'[d].thumbs
           M == \A d \in Client : R!Unlinks(d)' =>
                  \A i \in requests'[d].ids \ requests'[d].thumbs : i \notin DOMAIN thumbs'
           K == \A i \in DOMAIN rows' \cap DOMAIN thumbs' : thumbs'[i] = rows'[i].key
<1>1. slips \subseteq slips'
  <2>1. CASE Plain \/ R!Stop
    BY <2>1 DEF Plain, R!Stop
  <2>2. CASE \E c \in Client : \/ R!WriteFile(c) \/ R!CommitUpload(c) \/ R!UnlinkFile(c)
                               \/ R!UnlinkThumb(c) \/ R!Finish(c) \/ R!PlaceThumbnail(c)
    BY <2>2 DEF R!WriteFile, R!CommitUpload, R!UnlinkFile, R!UnlinkThumb, R!Finish,
                R!PlaceThumbnail, R!history
  <2> QED BY <2>1, <2>2, PlainSteps
<1>2. A /\ B /\ C
  BY <1>1 DEF ThumbsGo, R!ThumbnailsMatch
<1>3. \A c \in Client : (\A d \in Client \ {c} : requests'[d] = requests[d]) =>
                          \A d \in Client \ {c} : R!Unlinks(d)' = R!Unlinks(d)
  BY OthersStay DEF Kept
<1>4. CASE Plain
  <2>1. UNCHANGED <<rows, thumbs>>
    BY <1>4 DEF Plain
  <2>2. \A d \in Client : R!Unlinks(d) => R!Unlinks(d)' /\ requests'[d] = requests[d]
    BY <1>4 DEF Plain
  <2>3. \A d \in Client : R!Unlinks(d)' /\ ~R!Unlinks(d) => requests'[d].thumbs = requests'[d].ids
    BY <1>4 DEF Plain
  <2> QED BY <1>2, <2>1, <2>2, <2>3
<1>5. ASSUME R!Stop PROVE FALSE
  BY <1>5 DEF R!Stop
<1>6. ASSUME NEW c \in Client, R!WriteFile(c) PROVE N /\ M /\ K
  <2>1. /\ R!Kind(c) = "upload" /\ R!Kind(c)' = "written" /\ UNCHANGED <<rows, thumbs>>
        /\ \A d \in Client \ {c} : requests'[d] = requests[d]
    BY <1>6, WriteShape
  <2>2. ~R!Unlinks(c) /\ ~R!Unlinks(c)'
    BY <2>1 DEF R!Unlinks
  <2> QED BY <1>2, <1>3, <2>1, <2>2
<1>7. ASSUME NEW c \in Client, R!CommitUpload(c) PROVE N /\ M /\ K
  <2> DEFINE q == requests[c]
             id == R!NewId(rows)
             row == [txn |-> q.txn, key |-> q.key]
  <2>1. /\ R!Kind(c) = "written" /\ ~R!Unlinks(c) /\ thumbs' = thumbs
        /\ \A d \in Client \ {c} : requests'[d] = requests[d]
        /\ \A d \in Client \ {c} : R!Unlinks(d)' = R!Unlinks(d)
    BY <1>3, <1>7, CommitShape DEF R!CommitUpload, R!Unlinks
  <2>2. CASE ~R!Insertable(q.txn)
    <3>1. rows' = rows /\ R!Becomes(c, Null)
      BY <1>7, <2>2 DEF R!CommitUpload, R!Ends
    <3>2. ~R!Unlinks(c)'
      BY <3>1, RequestShape DEF R!Becomes, Kept, RequestsOK, R!Unlinks, R!Kind, R!Idle
    <3> QED BY <1>2, <2>1, <3>1, <3>2
  <2>3. CASE R!Insertable(q.txn)
    <3>1. /\ rows' = R!Without(R!Put(rows, id, row), {q.replaces})
          /\ {"early id" : i \in {i \in {id} : R!Removing(i)}} \subseteq slips'
          /\ q.replaces \in {Null, id} => R!Becomes(c, Null)
      BY <1>7, <2>3 DEF R!CommitUpload, R!Ends
    <3>2. id \in R!Id \ DOMAIN rows
      BY <2>1, NewIdFits
    <3>3. /\ DOMAIN rows' = (DOMAIN rows \cup {id}) \ {q.replaces}
          /\ \A i \in DOMAIN rows' : rows'[i] = IF i = id THEN row ELSE rows[i]
      <4> HIDE DEF row
      <4> QED BY <3>1, <3>2, CommitRows
    <3>4. ~R!Removing(id)
      <4> HIDE DEF id
      <4> QED BY <3>1
    <3>5. id \notin DOMAIN thumbs
      <4> SUFFICES ASSUME id \in DOMAIN thumbs PROVE FALSE
        OBVIOUS
      <4>1. PICK d \in Client : R!Unlinks(d) /\ id \in requests[d].thumbs
        <5> HIDE DEF id
        <5> QED BY <1>2, <3>2
      <4>2. id \in requests[d].ids
        BY <4>1, RemovalShape DEF UnlinkOK
      <4> QED BY <3>4, <4>1, <4>2 DEF R!Removing
    <3>6. K
      <4> HIDE DEF id, row, q
      <4> QED BY <1>2, <2>1, <3>3, <3>5
    <3>7. CASE q.replaces \in {Null, id}
      <4>1. ~R!Unlinks(c)'
        BY <3>1, <3>7 DEF R!Becomes, Kept, RequestsOK, R!Unlinks, R!Kind, R!Idle
      <4>2. q.replaces \notin DOMAIN rows
        <5> HIDE DEF q, id
        <5> QED BY <3>2, <3>7, RowsFinite, ConstantsHold DEF Kept
      <4>3. DOMAIN rows \subseteq DOMAIN rows'
        BY <3>3, <4>2
      <4> HIDE DEF id, row, q
      <4> QED BY <1>2, <2>1, <3>6, <4>1, <4>3
    <3>8. CASE q.replaces \notin {Null, id}
      <4>1. /\ R!Unlinks(c)' /\ requests'[c].ids = {q.replaces}
            /\ requests'[c].thumbs = {q.replaces}
        BY <1>7, <2>3, <3>8, ReplaceShape
      <4>2. DOMAIN rows \subseteq DOMAIN rows' \cup {q.replaces}
        BY <3>3
      <4> HIDE DEF id, row, q
      <4> QED BY <1>2, <2>1, <3>6, <4>1, <4>2
    <3> QED BY <3>7, <3>8
  <2> QED BY <2>2, <2>3
<1>8. ASSUME NEW c \in Client, R!UnlinkFile(c) \/ R!UnlinkThumb(c) PROVE N /\ M /\ K
  <2>1. /\ R!Unlinks(c) /\ R!Unlinks(c)' /\ rows' = rows /\ requests'[c].ids = requests[c].ids
        /\ \A d \in Client \ {c} : requests'[d] = requests[d]
        /\ \/ thumbs' = thumbs /\ requests'[c].thumbs = requests[c].thumbs
           \/ \E i \in requests[c].thumbs :
                /\ thumbs' = R!Without(thumbs, {i})
                /\ requests'[c].thumbs = requests[c].thumbs \ {i}
    BY <1>8, UnlinkShape
  <2>2. \A d \in Client \ {c} : R!Unlinks(d)' = R!Unlinks(d)
    BY <1>3, <2>1
  <2>3. CASE thumbs' = thumbs /\ requests'[c].thumbs = requests[c].thumbs
    BY <1>2, <2>1, <2>2, <2>3
  <2>4. ASSUME NEW i \in requests[c].thumbs, thumbs' = R!Without(thumbs, {i}),
               requests'[c].thumbs = requests[c].thumbs \ {i}
        PROVE  N /\ M /\ K
    <3>1. DOMAIN thumbs' = DOMAIN thumbs \ {i} /\ \A j \in DOMAIN thumbs' : thumbs'[j] = thumbs[j]
      BY <2>4 DEF R!Without, R!Restrict
    <3>2. N
      <4> SUFFICES ASSUME NEW j \in DOMAIN thumbs' \ DOMAIN rows'
                   PROVE  \E d \in Client : R!Unlinks(d)' /\ j \in requests'[d].thumbs
        OBVIOUS
      <4>1. j # i /\ j \in DOMAIN thumbs \ DOMAIN rows
        BY <2>1, <3>1
      <4>2. PICK d \in Client : R!Unlinks(d) /\ j \in requests[d].thumbs
        BY <1>2, <4>1
      <4>3. CASE d = c
        BY <2>1, <2>4, <4>1, <4>2, <4>3
      <4>4. CASE d # c
        BY <2>1, <2>2, <4>2, <4>4
      <4> QED BY <4>3, <4>4
    <3>3. M
      BY <1>2, <2>1, <2>2, <2>4, <3>1
    <3>4. K
      BY <1>2, <2>1, <3>1
    <3> QED BY <3>2, <3>3, <3>4
  <2> QED BY <2>1, <2>3, <2>4
<1>9. ASSUME NEW c \in Client, R!Finish(c) PROVE N /\ M /\ K
  <2>1. /\ R!Unlinks(c) /\ ~R!Unlinks(c)' /\ thumbs' = thumbs /\ requests[c].thumbs = {}
        /\ \A d \in Client \ {c} : requests'[d] = requests[d]
        /\ \/ rows' = rows
           \/ /\ DOMAIN rows' = DOMAIN rows \ requests[c].ids
              /\ \A i \in DOMAIN rows' : rows'[i] = rows[i]
    BY <1>9, FinishShape
  <2>2. \A d \in Client \ {c} : R!Unlinks(d)' = R!Unlinks(d)
    BY <1>3, <2>1
  <2>3. \A i \in requests[c].ids : i \notin DOMAIN thumbs
    BY <1>2, <2>1
  <2>4. DOMAIN thumbs' \ DOMAIN rows' \subseteq DOMAIN thumbs \ DOMAIN rows
    BY <2>1, <2>3
  <2>5. N
    BY <1>2, <2>1, <2>2, <2>4
  <2>6. M
    BY <1>2, <2>1, <2>2
  <2>7. K
    BY <1>2, <2>1
  <2> QED BY <2>5, <2>6, <2>7
<1>10. ASSUME NEW c \in Client, R!PlaceThumbnail(c) PROVE N /\ M /\ K
  <2> DEFINE q == requests[c]
  <2>1. /\ R!Kind(c) = "thumbnail" /\ R!Becomes(c, Null) /\ rows' = rows
        /\ thumbs' = R!Put(thumbs, q.id, q.key)
        /\ {"late thumbnail" : i \in {i \in {q.id} : ~R!Shows(i, q.key) \/ R!Removing(i)}}
             \subseteq slips'
    BY <1>10 DEF R!PlaceThumbnail, R!Ends, R!database
  <2>2. /\ ~R!Unlinks(c) /\ ~R!Unlinks(c)'
        /\ \A d \in Client \ {c} : requests'[d] = requests[d]
    BY <2>1 DEF R!Becomes, Kept, RequestsOK, R!Unlinks, R!Kind, R!Idle
  <2>3. \A d \in Client \ {c} : R!Unlinks(d)' = R!Unlinks(d)
    BY <1>3, <2>2
  <2> HIDE DEF q
  <2>4. R!Shows(q.id, q.key) /\ ~R!Removing(q.id)
    BY <2>1
  <2>5. /\ DOMAIN thumbs' = DOMAIN thumbs \cup {q.id} /\ thumbs'[q.id] = q.key
        /\ \A i \in DOMAIN thumbs : i # q.id => thumbs'[i] = thumbs[i]
    BY <2>1 DEF R!Put
  <2>6. q.id \in DOMAIN rows /\ rows[q.id].key = q.key
    BY <2>4 DEF R!Shows
  <2>7. N
    <3>1. DOMAIN thumbs' \ DOMAIN rows' \subseteq DOMAIN thumbs \ DOMAIN rows
      BY <2>1, <2>5, <2>6
    <3> QED BY <1>2, <2>2, <2>3, <3>1
  <2>8. M
    BY <1>2, <2>2, <2>3, <2>4, <2>5 DEF R!Removing
  <2>9. K
    BY <1>2, <2>1, <2>5, <2>6
  <2> QED BY <2>7, <2>8, <2>9
<1> QED BY <1>4, <1>5, <1>6, <1>7, <1>8, <1>9, <1>10, PlainSteps

-----------------------------------------------------------------------------
(* The theorem                                                             *)

ReceiptsInvariant ==
  /\ Kept /\ Counted /\ RoomLeft /\ ThumbsGo
  /\ R!RowsHaveFiles /\ R!NoOrphans /\ R!ThumbnailsMatch

LEMMA ReceiptsBegin ==
  ASSUME R!Init
  PROVE  ReceiptsInvariant
<1>1. /\ owners = [t \in Txn |-> "live"] /\ rows = <<>> /\ files = {} /\ thumbs = <<>>
      /\ uploads = 0 /\ requests = [c \in Client |-> Null] /\ lock = Null
  BY DEF R!Init
<1>2. /\ MaxKey \in Nat /\ IsFiniteSet(Client) /\ MaxAttachments \in Nat \ {0}
      /\ Cardinality(Client) \in Nat
  BY ConstantsHold, FS_CardinalityType
<1>3. DOMAIN rows = {} /\ DOMAIN thumbs = {}
  BY <1>1, NothingIsEmpty
<1>4. \A c \in Client : R!Kind(c) = "none"
  BY <1>1 DEF R!Kind, R!Idle
<1>5. R!TypeOK /\ RequestsOK
  <2>1. rows \in [DOMAIN rows -> [txn : Txn, key : R!Key]] /\ thumbs \in [DOMAIN thumbs -> R!Key]
    <3>1. rows = [i \in {} |-> 0] /\ thumbs = [i \in {} |-> 0]
      BY <1>1, <1>3, EmptyIsNothing
    <3> QED BY <3>1
  <2> QED BY <1>1, <1>2, <1>3, <2>1 DEF R!TypeOK, RequestsOK
<1>6. Kept
  BY <1>1, <1>3, <1>4, <1>5 DEF Kept, KeysOK, Alone, Remembers, UploadOK, WrittenOK, UnlinkOK,
                                PurgeOK, Uploads, R!Unlinks
<1>7. Counted
  <2>1. Writing = {}
    BY <1>4 DEF Writing
  <2> QED BY <1>1, <1>3, <2>1, FS_EmptySet DEF Counted
<1>8. RoomLeft
  <2> SUFFICES ASSUME NEW t \in Txn
               PROVE  Cardinality(Unclaimed(t)) + Cardinality(Uploading(t))
                        <= MaxAttachments + Cardinality(Client) - 1
    BY DEF RoomLeft
  <2>1. Uploading(t) = {} /\ Unclaimed(t) = {}
    BY <1>3, <1>4 DEF Uploading, Uploads, Unclaimed, R!Attachments
  <2> QED BY <1>2, <2>1, FS_EmptySet
<1> QED BY <1>1, <1>3, <1>4, <1>6, <1>7, <1>8
        DEF ReceiptsInvariant, ThumbsGo, R!RowsHaveFiles, R!NoOrphans, R!ThumbnailsMatch, R!Unlinks

LEMMA ReceiptsStep ==
  ASSUME ReceiptsInvariant, [R!Next]_R!vars
  PROVE  ReceiptsInvariant'
<1>1. Kept /\ Counted /\ RoomLeft /\ ThumbsGo /\ R!RowsHaveFiles /\ R!NoOrphans /\ R!ThumbnailsMatch
  BY DEF ReceiptsInvariant
<1>2. CASE R!Next
  <2>1. Kept'
    <3>1. ASSUME NEW c \in Client, R!CommitUpload(c) PROVE Kept'
      <4>1. R!NewId(rows) \in R!Id \ DOMAIN rows
        BY <1>1, <3>1, CommitShape, NewIdFits
      <4> QED BY <1>1, <3>1, <4>1, CommitUploadKeeps
    <3> QED BY <1>1, <1>2, <3>1, QuietActions, BeginUploadKeeps, WriteFileKeeps, BeginDeleteKeeps,
               LockPurgeKeeps, UnlinkFileKeeps, UnlinkThumbKeeps, FinishKeeps, TrashKeeps,
               StopKeeps DEF R!Next
  <2>2. Counted'
    BY <1>1, <1>2, CountedStep
  <2>3. RoomLeft'
    BY <1>1, <1>2, <2>1, RoomStep
  <2>4. R!RowsHaveFiles'
    BY <1>1, <1>2, FiledStep
  <2>5. R!NoOrphans'
    BY <1>1, <1>2, <2>1, OrphansStep
  <2>6. ThumbsGo' /\ R!ThumbnailsMatch'
    BY <1>1, <1>2, <2>1, ThumbsStep
  <2> QED BY <2>1, <2>2, <2>3, <2>4, <2>5, <2>6 DEF ReceiptsInvariant
<1>3. CASE UNCHANGED R!vars
  <2>1. UNCHANGED <<owners, rows, files, thumbs, uploads, requests, lock, asked, slips>>
    BY <1>3 DEF R!vars
  <2>2. \A d \in Client :
          /\ R!Idle(d)' = R!Idle(d) /\ R!Kind(d)' = R!Kind(d) /\ R!Unlinks(d)' = R!Unlinks(d)
          /\ Uploads(d)' = Uploads(d) /\ Holds(d)' = Holds(d)
    BY <1>1, <2>1, OthersStay DEF Kept
  <2>3. Kept'
    <3>1. R!TypeOK' /\ RequestsOK' /\ KeysOK'
      BY <1>1, <2>1 DEF Kept, R!TypeOK, RequestsOK, KeysOK, Made
    <3>2. Alone'
      BY <1>1, <2>1, <2>2 DEF Kept, Alone
    <3>3. ASSUME NEW d \in Client PROVE Remembers(d)'
      <4>1. Remembers(d)
        BY <1>1 DEF Kept
      <4> QED BY <2>1, <2>2, <4>1 DEF Remembers, UploadOK, WrittenOK, UnlinkOK, PurgeOK, Made,
                                    R!Attachments
    <3> QED BY <3>1, <3>2, <3>3 DEF Kept
  <2>4. Calm /\ Plain
    BY <2>1, <2>2 DEF Calm, Plain
  <2>5. Counted'
    <3>1. Writing' = Writing
      BY <2>2 DEF Writing
    <3> QED BY <1>1, <2>1, <3>1 DEF Counted
  <2>6. RoomLeft'
    BY <1>1, <2>4, RoomCalm
  <2>7. R!RowsHaveFiles' /\ R!NoOrphans'
    BY <1>1, <2>1, <2>2 DEF R!RowsHaveFiles, R!Exportable, R!NoOrphans
  <2>8. ThumbsGo' /\ R!ThumbnailsMatch'
    BY <1>1, <2>1, <2>2 DEF ThumbsGo, R!ThumbnailsMatch
  <2> QED BY <2>3, <2>5, <2>6, <2>7, <2>8 DEF ReceiptsInvariant
<1> QED BY <1>2, <1>3

\* However uploads, replacements, deletions, purges, thumbnails and stops interleave, for any
\* number of requests under way: a listed receipt has its file and its own thumbnail, no file
\* is left behind, and the limit is passed by overlapping uploads only, but for the accidents
\* that Receipts names.
THEOREM ReceiptsKept == R!Spec => []ReceiptsHold
<1>1. R!Init => ReceiptsInvariant
  BY ReceiptsBegin
<1>2. ReceiptsInvariant /\ [R!Next]_R!vars => ReceiptsInvariant'
  BY ReceiptsStep
<1>3. ReceiptsInvariant => ReceiptsHold
  BY RoomIsLimit DEF ReceiptsHold, ReceiptsInvariant, Kept
<1> QED BY <1>1, <1>2, <1>3, PTL DEF R!Spec
=============================================================================
