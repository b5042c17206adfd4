----------------------------- MODULE MCAssistant -----------------------------
(* The Assistant, of which a behaviour shows one part.  A chat in one window *)
(* with three proposed changes, or in two windows with two of them.  Or two  *)
(* cards' plans, on two expenses, an income and a transaction to be; three   *)
(* categories and one to be; a tag and a recurring rule; they share nothing  *)
(* with the chat, whose changes have an effect or not.                       *)
EXTENDS AssistantChat
CONSTANTS
  w1, w2, k1, k2, t1, t2, t3, t4,
  Txn, Id, Income, Paid, Spare, Category, Tag, Rule, Uncategorized, Name, Title,
  Note, NoNotes, MaxCents, MaxDay, Percent, Change, Unsaid, Card, MaxTouches, Start, Null
VARIABLES part, windows, book, cards, touches
P == INSTANCE Plans
ASSUME PlansFit == P!PlansAssumption
plans == <<book, cards, touches>>
allVars == <<vars, plans, part, windows>>

\* Windows and tool call ids are interchangeable.
Interchangeable == Permutations({w1, w2}) \cup Permutations({k1, k2})

Ids == (t1 :> 1) @@ (t2 :> 2) @@ (t3 :> 3) @@ (t4 :> 4)
Edits == {[category |-> Unsaid, add |-> {}, remove |-> {}, title |-> "b", notes |-> Unsaid],
          [category |-> "food", add |-> {"tag"}, remove |-> {}, title |-> Unsaid, notes |-> "note"],
          [category |-> Unsaid, add |-> {}, remove |-> {"tag"}, title |-> Unsaid, notes |-> "none"]}
Entry(cents, c, marked, share, other) ==
  [live |-> TRUE, title |-> "a", cents |-> cents, category |-> c, tags |-> {}, notes |-> "none",
   marked |-> marked, share |-> share, other |-> other]
Book(paid, marked, share, other) ==
  (t1 :> Entry(3, "uncategorized", FALSE, share, other)) @@ (t2 :> Entry(2, "food", FALSE, 0, 0))
  @@ (t3 :> Entry(paid, "salary", marked, 0, 0)) @@ (t4 :> Null)
  @@ ("uncategorized" :> [name |-> "U", archived |-> FALSE]) @@ ("food" :> [name |-> "X", archived |-> FALSE])
  @@ ("salary" :> [name |-> "Y", archived |-> FALSE]) @@ ("new" :> Null)
  @@ ("tag" :> [archived |-> FALSE]) @@ ("rent" :> [anchor |-> 0, ends |-> Null])
Books == {Book(2, FALSE, 0, 1), Book(3, TRUE, 2, 0)}

Scope == CASE part = "transactions" -> {t1, t2, t4, "food"} [] part = "allocate" -> {t1, t2, t3}
           [] part = "catalog" -> {"food", "salary", "new", "tag"} [] part = "recurring" -> {"rent"}
Kinds == {"undo"} \cup CASE part = "transactions" -> {"edit", "trash", "create"} [] part = "allocate" -> {"allocate"}
           [] part = "catalog" -> {"archive", "rename", "create"} [] part = "recurring" -> {"end"}
Fields == CASE part = "transactions" -> {"share", "other", "marked"} [] part = "allocate" -> {"title", "category", "tags", "notes"}
            [] OTHER -> {}
InScope ==
  /\ \A o \in P!Object : book'[o] # book[o] => o \in Scope /\
       (book[o] # Null => \A f \in DOMAIN book[o] \cap Fields : book'[o][f] = book[o][f])
  /\ \A k \in Card : cards'[k].status = "pending" /\ cards[k].status = "none" =>
       LET plan == cards'[k].plan IN
       /\ plan.kind \in Kinds /\ DOMAIN plan.after \subseteq Scope
       /\ plan.kind = "create" /\ t4 \in DOMAIN plan.after => plan.after[t4].cents = 1

PartInit ==
  /\ Init /\ P!Init
  /\ part \in {"chat", "transactions", "allocate", "catalog", "recurring"}
  /\ part # "allocate" => book = Book(2, FALSE, 0, 1)
  /\ IF part = "chat" THEN windows \in (SUBSET Client) \ {{}} ELSE windows = {}
OneWindow == \E w \in Client : windows = {w}
\* BOUND on two windows: two cards in one turn, or one in each of two.
FewCards ==
  LastSeq > 1 => \A s \in DOMAIN turns :
    Cardinality({call \in Call : turns[s].cards[call] # "none"}) <= 1
PartNext ==
  /\ \/ /\ part = "chat" /\ Next /\ UNCHANGED plans
        /\ \A c \in Client \ windows : client'[c] = Idle
        /\ ~OneWindow => actions'[MaxActions] = NoAction /\ FewCards'
     \/ part # "chat" /\ P!Next /\ InScope /\ UNCHANGED vars
  /\ UNCHANGED <<part, windows>>
PartSpec == PartInit /\ [][PartNext]_allVars

\* A change is undone by one approved undo; and while a window waits for each answer
\* before its next request, a card that shows is one that decide can act on, and each
\* proposed change has its card (AssistantChat.UndoneOnce and PendingIsDecidable; with
\* two windows a card may be written back from an old copy).
CardsAreLive == TypeOK /\ UndoneOnce /\ (OneWindow => PendingIsDecidable)

\* With one window no turn sends the model a history with a tool call that has no
\* result, which the model's backend would refuse (_dismiss_pending, decide, _run_turn).
AnsweredInOneWindow == [][OneWindow => \A c \in Client :
  client[c].pc = "starting" /\ client'[c].pc = "running" =>
    \A s \in History(c) : turns[s].unanswered = {}]_allVars

\* An approval works while the data are as they were when its card was made, an undo
\* puts back every row the change touched while nothing else touched it, and no card
\* gives two categories one name (Plans.ApprovalWorks, UndoRestores, NamesDiffer).
PlansHold == part # "chat" => P!TypeOK /\ P!NamesDiffer /\ P!ApprovalWorks /\ P!UndoRestores

\* No approval overwrites what the user entered after its card was made, nor allocates
\* more than the income has or the expense cost (Plans.LosesNothing, WithinAmounts).
ApprovalsAreSafe == P!LosesNothing /\ P!WithinAmounts
=============================================================================
